----------------------------- MODULE PointIndex -----------------------------
(***************************************************************************)
(* What a dimeBSPTree is to its clients: a numbered list of points of      *)
(* which some have been removed, and in which a point that is there is     *)
(* never entered twice.  Numbers start at 1; 0 stands for the code's -1.   *)
(***************************************************************************)
EXTENDS Integers, Sequences

CONSTANTS
  Point,  \* the places
  Data    \* the user data clients attach

VARIABLES
  points,    \* every point ever entered, removed or not
  userdata,  \* as long as points
  live,      \* the numbers that have not been removed
  last       \* the call that has just returned: what, for which point, the answer
ivars == <<points, userdata, live, last>>

At(pt) == {i \in live : points[i] = pt}
Answers(op, pt, i) == last' = [op |-> op, pt |-> pt, ret |-> i]

Init == points = << >> /\ userdata = << >> /\ live = {} /\ last = << >>

AddPoint(pt, d) ==
  \/ /\ At(pt) = {}
     /\ points' = Append(points, pt)
     /\ userdata' = Append(userdata, d)
     /\ live' = live \cup {Len(points')}
     /\ Answers("add", pt, Len(points'))
  \/ \E i \in At(pt) : Answers("add", pt, i) /\ UNCHANGED <<points, userdata, live>>

FindPoint(pt) ==
  /\ \/ \E i \in At(pt) : Answers("find", pt, i)
     \/ At(pt) = {} /\ Answers("find", pt, 0)
  /\ UNCHANGED <<points, userdata, live>>

RemovePoint(pt) ==
  /\ \/ \E i \in At(pt) : Answers("remove", pt, i) /\ live' = live \ {i}
     \/ At(pt) = {} /\ Answers("remove", pt, 0) /\ UNCHANGED live
  /\ UNCHANGED <<points, userdata>>

SetUserData(i, d) == /\ userdata' = [userdata EXCEPT ![i] = d]
                     /\ UNCHANGED <<points, live, last>>

Clear == points' = << >> /\ userdata' = << >> /\ live' = {} /\ last' = << >>

\* the client has seen the answer
Forget == last' = << >> /\ UNCHANGED <<points, userdata, live>>

Next == \/ \E pt \in Point, d \in Data : AddPoint(pt, d)
        \/ \E pt \in Point : FindPoint(pt) \/ RemovePoint(pt)
        \/ \E i \in DOMAIN userdata, d \in Data : SetUserData(i, d)
        \/ Clear \/ Forget

Spec == Init /\ [][Next]_ivars

\* No point is there twice.
Distinct == \A i, j \in live : points[i] = points[j] => i = j
=============================================================================
