------------------------- MODULE HeteroAccountProofs -------------------------
(***************************************************************************)
(* Proofs about HeteroAccount, for every number of agents, assets, groups  *)
(* and legs: first what needs only that groups are answered as a whole,    *)
(* then what is owed to the amounts, for which a running call is compared  *)
(* with the rows it has answered (LedgerInv), and last what a bond earns   *)
(* for its only holder (InterestInv).                                      *)
(***************************************************************************)
EXTENDS HeteroAccount, FoldTheorems, TLAPS

(* The assets of a group print together or not at all, for instance        *)
(* because every boundary is complete.  (The adapter splits other groups.) *)
WholeBatches ==
  \A r \in Requests, batch \in Batches :
    LET assets == {r.legs[k].asset : k \in DOMAIN r.legs}
    IN  assets \subseteq batch \/ assets \cap batch = {}

-----------------------------------------------------------------------------
(* Sequences of anything. *)

IsSeq(s) == s \in Seq({s[i] : i \in DOMAIN s})

LEMMA SeqLength ==
  ASSUME NEW s, IsSeq(s)
  PROVE  Len(s) \in Nat /\ DOMAIN s = 1 .. Len(s)
BY DEF IsSeq

LEMMA AppendAny ==
  ASSUME NEW s, IsSeq(s), NEW e
  PROVE  /\ IsSeq(Append(s, e))
         /\ DOMAIN Append(s, e) = 1 .. Len(s) + 1
         /\ Len(Append(s, e)) = Len(s) + 1
         /\ \A i \in DOMAIN s : Append(s, e)[i] = s[i]
         /\ Append(s, e)[Len(s) + 1] = e
<1> DEFINE S == {s[i] : i \in DOMAIN s} \cup {e}
           T == {Append(s, e)[i] : i \in DOMAIN Append(s, e)}
<1>1. s \in Seq(S)
  BY DEF IsSeq
<1>2. /\ Append(s, e) \in Seq(S)
      /\ DOMAIN Append(s, e) = 1 .. Len(s) + 1
      /\ Len(Append(s, e)) = Len(s) + 1
      /\ \A i \in 1 .. Len(s) : Append(s, e)[i] = s[i]
      /\ Append(s, e)[Len(s) + 1] = e
  BY <1>1
<1>3. DOMAIN s = 1 .. Len(s) /\ Len(s) \in Nat
  BY <1>1
<1>4. Append(s, e) \in Seq(T)
  BY <1>2, <1>3
<1> QED
  BY <1>2, <1>3, <1>4 DEF IsSeq

LEMMA FunctionIsSeq ==
  ASSUME NEW n \in Nat, NEW f, f = [i \in 1 .. n |-> f[i]]
  PROVE  IsSeq(f) /\ Len(f) = n
<1> DEFINE S == {f[i] : i \in DOMAIN f}
<1>1. DOMAIN f = 1 .. n
  OBVIOUS
<1>2. f \in [1 .. n -> S]
  BY <1>1
<1>3. f \in Seq(S)
  BY <1>2
<1> QED
  BY <1>1, <1>3 DEF IsSeq

-----------------------------------------------------------------------------
(* The inductive invariant. *)

Classes == {{"filled", "no_op"}, {"accepted"}, {"rejected"}, {"cancelled"}}

(* One row of fates for every submitted group. *)
Shape ==
  /\ IsSeq(placed) /\ IsSeq(fate) /\ DOMAIN fate = DOMAIN placed
  /\ \A g \in DOMAIN placed : placed[g] \in Requests /\ DOMAIN fate[g] = DOMAIN placed[g].legs

(* While the agents are stepped a legal batch has been printed, and calls  *)
(* are made only then.                                                     *)
Printing ==
  /\ stage = "agents" => Batch \in Batches
  /\ call # NA => stage = "agents"

CallFields == {"agent", "acct", "saved", "open", "todo", "qty", "rows", "paid"}

Answered == DOMAIN call.rows

Touched == call.todo \cup Answered

(* What a running call knows of the groups: it has all the legs of a group *)
(* or none, all still accepted; the groups come in their order; the rows   *)
(* of a group are alike, and a group with rows and with legs to do is the  *)
(* open one, none of whose legs has been refused.                          *)
CallShape ==
  /\ DOMAIN call = CallFields
  /\ Touched \subseteq Legs
  /\ call.open \in Int
  /\ \A l \in call.todo : l[1] >= call.open

TouchesWhole ==
  \A l \in Touched : \A k \in DOMAIN placed[l[1]].legs :
    <<l[1], k>> \in Touched /\ fate[l[1]][k].status = "accepted"

RowsAlike ==
  \A g \in DOMAIN placed : \E C \in Classes :
    \A l \in Answered : l[1] = g => call.rows[l].status \in C

OneOpen ==
  \A l \in Answered, m \in call.todo :
    l[1] = m[1] => l[1] = call.open /\ call.rows[l].status \in {"filled", "no_op"}

CallGroups == call # NA => CallShape /\ TouchesWhole /\ RowsAlike /\ OneOpen

GroupInv == Shape /\ Printing /\ GroupsShareOutcome /\ CallGroups

-----------------------------------------------------------------------------
(* Legs. *)

LEMMA LegsOf ==
  ASSUME NEW l \in Legs
  PROVE  /\ l = <<l[1], l[2]>> /\ l[1] \in DOMAIN placed
         /\ l[2] \in DOMAIN placed[l[1]].legs
BY DEF Legs

LEMMA GroupNumbers ==
  ASSUME Shape
  PROVE  DOMAIN placed = 1 .. Len(placed) /\ Len(placed) \in Nat
BY SeqLength DEF Shape

LEMMA NextIsFirst ==
  ASSUME Shape, CallShape, NEW l \in Legs, IsNext(l), NEW m \in call.todo
  PROVE  l[1] <= m[1] /\ l[1] \in Nat /\ m[1] \in Nat /\ l \in call.todo
<1>1. l \in Legs /\ m \in Legs /\ l \in call.todo
  BY DEF CallShape, Touched, IsNext
<1>2. l[1] \in Nat /\ m[1] \in Nat
  BY <1>1, LegsOf, GroupNumbers
<1>3. m = l \/ Before(l, m)
  BY DEF IsNext
<1> QED
  BY <1>1, <1>2, <1>3 DEF Before

(* A group that is about to be opened or skipped has no rows yet, and no   *)
(* leg of the open group is left.                                          *)
LEMMA FreshGroup ==
  ASSUME Shape, CallShape, OneOpen, NEW l \in Legs, IsNext(l), l[1] # call.open
  PROVE  /\ \A r \in Answered : r[1] # l[1]
         /\ \A m \in call.todo : m[1] # call.open
<1>1. l \in call.todo
  BY DEF IsNext
<1>2. \A r \in Answered : r[1] # l[1]
  BY <1>1 DEF OneOpen
<1>3. ASSUME NEW m \in call.todo, m[1] = call.open
      PROVE  FALSE
  <2>1. l[1] <= m[1] /\ l[1] \in Nat /\ m[1] \in Nat
    BY NextIsFirst
  <2>2. l[1] >= call.open
    BY <1>1 DEF CallShape
  <2> QED
    BY <1>3, <2>1, <2>2
<1> QED
  BY <1>2, <1>3

LEMMA PeersOfGroup ==
  ASSUME NEW l
  PROVE  Peers(l) = {m \in call.todo : m[1] = l[1]}
BY DEF Peers

-----------------------------------------------------------------------------
(* What a leg is answered. *)

LEMMA SpotAnswers ==
  ASSUME NEW t, NEW l, NEW q
  PROVE  SpotLeg(t, l, q).row.status \in {"filled", "no_op", "rejected"}
BY DEF SpotLeg, Refused, NoChange, Row

LEMMA FutureAnswers ==
  ASSUME NEW t, NEW l, NEW q
  PROVE  FutureLeg(t, l, q).row.status \in {"filled", "no_op", "rejected"}
BY DEF FutureLeg, Refused, NoChange, Row

LEMMA Answers ==
  ASSUME NEW t, NEW l, NEW q
  PROVE  Outcome(t, l, q).row.status \in {"filled", "no_op", "rejected"}
BY SpotAnswers, FutureAnswers DEF Outcome

-----------------------------------------------------------------------------
(* Every step of a call keeps what it knows of the groups. *)

LEMMA QuietKeeps ==
  ASSUME GroupInv, Quiet, call # NA
  PROVE  /\ Shape' /\ Printing' /\ GroupsShareOutcome' /\ Legs' = Legs
         /\ placed' = placed /\ fate' = fate
BY DEF GroupInv, Quiet, Shape, Printing, GroupsShareOutcome, Batch, Legs

LEMMA OpenGroupKeeps ==
  ASSUME GroupInv, NEW l \in Legs, OpenGroup(l)
  PROVE  GroupInv'
<1> USE DEF OpenGroup
<1>1. CallShape /\ TouchesWhole /\ RowsAlike /\ OneOpen
  BY DEF GroupInv, CallGroups
<1>2. Shape' /\ Printing' /\ GroupsShareOutcome' /\ Legs' = Legs /\ placed' = placed /\ fate' = fate
  BY QuietKeeps
<1>3. /\ DOMAIN call' = CallFields /\ call'.todo = call.todo /\ call'.rows = call.rows
      /\ call'.open = l[1]
  BY <1>1 DEF CallShape, CallFields
<1>4. /\ \A r \in Answered : r[1] # l[1]
      /\ \A m \in call.todo : m[1] # call.open
  BY <1>1, FreshGroup DEF GroupInv
<1>5. \A m \in call.todo : m[1] >= l[1] /\ l[1] \in Int
  BY <1>1, NextIsFirst DEF GroupInv
<1>6. CallShape'
  BY <1>1, <1>2, <1>3, <1>5 DEF CallShape, Touched, Answered, IsNext
<1>7. TouchesWhole' /\ RowsAlike'
  BY <1>1, <1>2, <1>3 DEF TouchesWhole, RowsAlike, Touched, Answered
<1>8. OneOpen'
  BY <1>1, <1>3, <1>4 DEF OneOpen, Answered
<1> QED
  BY <1>2, <1>6, <1>7, <1>8 DEF GroupInv, CallGroups

LEMMA SkipGroupKeeps ==
  ASSUME GroupInv, NEW l \in Legs, SkipGroup(l)
  PROVE  GroupInv'
<1>1. CallShape /\ TouchesWhole /\ RowsAlike /\ OneOpen
  BY DEF GroupInv, CallGroups, SkipGroup
<1>2. /\ Shape' /\ Printing' /\ GroupsShareOutcome' /\ Legs' = Legs /\ placed' = placed
      /\ fate' = fate
  BY QuietKeeps DEF SkipGroup
<1>3. PICK status \in {"accepted", "rejected", "cancelled"} :
        call' = [call EXCEPT !.rows = Unexecuted(Peers(l), status), !.todo = @ \ Peers(l)]
  BY DEF SkipGroup
<1>4. /\ DOMAIN call' = CallFields /\ call'.todo = call.todo \ Peers(l)
      /\ call'.rows = Unexecuted(Peers(l), status) /\ call'.open = call.open
  BY <1>1, <1>3 DEF CallShape, CallFields
<1>5. /\ Answered' = Answered \cup Peers(l)
      /\ \A m \in Peers(l) : call'.rows[m].status = status
      /\ \A m \in Answered \ Peers(l) : call'.rows[m] = call.rows[m]
  <2> DEFINE R == Unexecuted(Peers(l), status)
  <2>1. /\ DOMAIN R = Answered \cup Peers(l)
        /\ \A m \in Peers(l) : R[m] = Row(status, 0, 0)
        /\ \A m \in Answered \ Peers(l) : R[m] = call.rows[m]
    BY DEF Unexecuted, Answered
  <2>2. Row(status, 0, 0).status = status
    BY DEF Row
  <2>3. call'.rows = R
    BY <1>4
  <2> HIDE DEF R
  <2>4. Answered' = Answered \cup Peers(l)
    BY <2>1, <2>3 DEF Answered
  <2> QED
    BY <2>1, <2>2, <2>3, <2>4
<1>6. \A r \in Answered : r[1] # l[1]
  BY <1>1, FreshGroup DEF GroupInv, SkipGroup
<1>7. Touched' = Touched
  BY <1>4, <1>5, PeersOfGroup DEF Touched
<1>8. CallShape' /\ TouchesWhole'
  BY <1>1, <1>2, <1>4, <1>7 DEF CallShape, TouchesWhole
<1>9. RowsAlike'
  <2> SUFFICES ASSUME NEW g \in DOMAIN placed
               PROVE  \E C \in Classes : \A r \in Answered' : r[1] = g => call'.rows[r].status \in C
    BY <1>2 DEF RowsAlike
  <2>1. CASE g = l[1]
    <3>1. \A r \in Answered' : r[1] = g => call'.rows[r].status \in {status}
      BY <1>5, <1>6, <2>1, PeersOfGroup
    <3>2. {status} \in Classes
      BY DEF Classes
    <3> QED
      BY <3>1, <3>2
  <2>2. CASE g # l[1]
    <3>1. \A r \in Answered' : r[1] = g => r \in Answered /\ call'.rows[r] = call.rows[r]
      BY <1>5, <2>2, PeersOfGroup
    <3> QED
      BY <1>1, <3>1 DEF RowsAlike
  <2> QED
    BY <2>1, <2>2
<1>10. OneOpen'
  <2> SUFFICES ASSUME NEW r \in Answered', NEW m \in call'.todo, r[1] = m[1]
               PROVE  r[1] = call'.open /\ call'.rows[r].status \in {"filled", "no_op"}
    BY DEF OneOpen
  <2>1. m \in call.todo /\ m[1] # l[1]
    BY <1>4, PeersOfGroup
  <2>2. r \in Answered /\ call'.rows[r] = call.rows[r]
    BY <1>5, <2>1, PeersOfGroup
  <2> QED
    BY <1>1, <1>4, <2>1, <2>2 DEF OneOpen
<1> QED
  BY <1>2, <1>8, <1>9, <1>10 DEF GroupInv, CallGroups

LEMMA ExecuteLegKeeps ==
  ASSUME GroupInv, NEW l \in Legs, ExecuteLeg(l)
  PROVE  GroupInv'
<1>1. CallShape /\ TouchesWhole /\ RowsAlike /\ OneOpen
  BY DEF GroupInv, CallGroups, ExecuteLeg
<1>2. /\ Shape' /\ Printing' /\ GroupsShareOutcome' /\ Legs' = Legs /\ placed' = placed
      /\ fate' = fate
  BY QuietKeeps DEF ExecuteLeg
<1>3. l \in call.todo /\ l[1] = call.open
  BY DEF ExecuteLeg, IsNext
<1> DEFINE out == Outcome(call.acct, l, call.qty[l])
<1>4. out.row.status \in {"filled", "no_op"}
  BY Answers DEF ExecuteLeg
<1>5. /\ DOMAIN call' = CallFields /\ call'.todo = call.todo \ {l} /\ call'.open = call.open
      /\ call'.rows = [m \in Answered \cup {l} |-> IF m = l THEN out.row ELSE call.rows[m]]
  BY <1>1 DEF CallShape, CallFields, Answered, ExecuteLeg
<1> HIDE DEF out
<1>6. /\ Answered' = Answered \cup {l}
      /\ call'.rows[l].status \in {"filled", "no_op"}
      /\ \A m \in Answered \ {l} : call'.rows[m] = call.rows[m]
  BY <1>4, <1>5 DEF Answered
<1>7. Touched' = Touched
  BY <1>3, <1>5, <1>6 DEF Touched
<1>8. CallShape' /\ TouchesWhole'
  BY <1>1, <1>2, <1>5, <1>7 DEF CallShape, TouchesWhole
<1>9. \A r \in Answered' : r[1] = l[1] => call'.rows[r].status \in {"filled", "no_op"}
  BY <1>1, <1>3, <1>6 DEF OneOpen
<1>10. RowsAlike'
  <2> SUFFICES ASSUME NEW g \in DOMAIN placed
               PROVE  \E C \in Classes : \A r \in Answered' : r[1] = g => call'.rows[r].status \in C
    BY <1>2 DEF RowsAlike
  <2>1. CASE g = l[1]
    BY <1>9, <2>1 DEF Classes
  <2>2. CASE g # l[1]
    <3>1. \A r \in Answered' : r[1] = g => r \in Answered /\ call'.rows[r] = call.rows[r]
      BY <1>6, <2>2
    <3> QED
      BY <1>1, <3>1 DEF RowsAlike
  <2> QED
    BY <2>1, <2>2
<1>11. OneOpen'
  BY <1>1, <1>3, <1>5, <1>6, <1>9 DEF OneOpen
<1> QED
  BY <1>2, <1>8, <1>10, <1>11 DEF GroupInv, CallGroups

LEMMA RollBackKeeps ==
  ASSUME GroupInv, NEW l \in Legs, RollBack(l)
  PROVE  GroupInv'
<1>1. CallShape /\ TouchesWhole /\ RowsAlike /\ OneOpen
  BY DEF GroupInv, CallGroups, RollBack
<1>2. /\ Shape' /\ Printing' /\ GroupsShareOutcome' /\ Legs' = Legs /\ placed' = placed
      /\ fate' = fate
  BY QuietKeeps DEF RollBack
<1> DEFINE group == Peers(l) \cup {m \in Answered : m[1] = l[1]}
           R == Unexecuted(group, "rejected")
<1>3. /\ DOMAIN call' = CallFields /\ call'.todo = call.todo \ group /\ call'.open = call.open
      /\ call'.rows = R
  BY <1>1 DEF CallShape, CallFields, Answered, RollBack
<1>4. /\ DOMAIN R = Answered \cup group
      /\ \A m \in group : R[m] = Row("rejected", 0, 0)
      /\ \A m \in Answered \ group : R[m] = call.rows[m]
  BY DEF Unexecuted, Answered
<1>5. Row("rejected", 0, 0).status = "rejected"
  BY DEF Row
<1>6. \A m \in Touched : m \in group <=> m[1] = l[1]
  BY PeersOfGroup DEF Touched
<1>7. group \subseteq Touched
  BY PeersOfGroup DEF Touched
<1> HIDE DEF R, group
<1>8. /\ Answered' = Answered \cup group
      /\ \A m \in group : call'.rows[m].status = "rejected"
      /\ \A m \in Answered \ group : call'.rows[m] = call.rows[m]
  BY <1>3, <1>4, <1>5 DEF Answered
<1>9. Touched' = Touched
  BY <1>3, <1>7, <1>8 DEF Touched
<1>10. CallShape' /\ TouchesWhole'
  BY <1>1, <1>2, <1>3, <1>9 DEF CallShape, TouchesWhole
<1>11. RowsAlike'
  <2> SUFFICES ASSUME NEW g \in DOMAIN placed
               PROVE  \E C \in Classes : \A r \in Answered' : r[1] = g => call'.rows[r].status \in C
    BY <1>2 DEF RowsAlike
  <2>1. CASE g = l[1]
    <3>1. \A r \in Answered' : r[1] = g => r \in group
      BY <1>6, <1>8, <2>1 DEF Touched
    <3> QED
      BY <1>8, <3>1 DEF Classes
  <2>2. CASE g # l[1]
    <3>1. \A r \in Answered' : r[1] = g => r \in Answered /\ call'.rows[r] = call.rows[r]
      BY <1>6, <1>7, <1>8, <2>2 DEF Touched
    <3> QED
      BY <1>1, <3>1 DEF RowsAlike
  <2> QED
    BY <2>1, <2>2
<1>12. OneOpen'
  <2> SUFFICES ASSUME NEW r \in Answered', NEW m \in call'.todo, r[1] = m[1]
               PROVE  r[1] = call'.open /\ call'.rows[r].status \in {"filled", "no_op"}
    BY DEF OneOpen
  <2>1. m \in call.todo /\ m[1] # l[1]
    BY <1>3, <1>6 DEF Touched
  <2>2. r \in Answered /\ call'.rows[r] = call.rows[r]
    BY <1>6, <1>7, <1>8, <2>1 DEF Touched
  <2> QED
    BY <1>1, <1>3, <2>1, <2>2 DEF OneOpen
<1> QED
  BY <1>2, <1>10, <1>11, <1>12 DEF GroupInv, CallGroups

(* A call takes a group with all its legs: the others wait as well, and    *)
(* their assets print as well.                                             *)
LEMMA BeginCallKeeps ==
  ASSUME GroupInv, WholeBatches, NEW agent \in Agents, BeginCall(agent)
  PROVE  GroupInv'
<1> DEFINE batch == Accepted(agent)
<1>1. /\ UNCHANGED <<bars, stage, placed, fate>> /\ stage = "agents"
      /\ DOMAIN call' = CallFields /\ call'.todo = batch /\ call'.open = 0
      /\ DOMAIN call'.rows = {}
  BY DEF BeginCall, CallFields
<1>2. Shape' /\ Printing' /\ GroupsShareOutcome' /\ Legs' = Legs
  BY <1>1 DEF GroupInv, Shape, Printing, GroupsShareOutcome, Batch, Legs
<1>3. Touched' = batch /\ Answered' = {}
  BY <1>1 DEF Touched, Answered
<1>4. batch \subseteq Legs
  BY DEF Accepted
<1>5. \A l \in batch : l[1] >= 0
  BY <1>4, LegsOf, GroupNumbers DEF GroupInv
<1>6. CallShape'
  BY <1>1, <1>2, <1>3, <1>4, <1>5 DEF CallShape
<1>7. ASSUME NEW l \in batch, NEW k \in DOMAIN placed[l[1]].legs
      PROVE  <<l[1], k>> \in batch /\ fate[l[1]][k].status = "accepted"
  <2> DEFINE g == l[1]
  <2>1. /\ l \in Legs /\ placed[g].agent = agent /\ fate[g][l[2]].status = "accepted"
        /\ placed[g].legs[l[2]].asset \in Batch
    BY DEF Accepted, Leg
  <2>2. g \in DOMAIN placed /\ l[2] \in DOMAIN placed[g].legs
    BY <2>1, LegsOf
  <2>3. /\ placed[g] \in Requests /\ g \in DOMAIN fate
        /\ DOMAIN fate[g] = DOMAIN placed[g].legs
    BY <2>2 DEF GroupInv, Shape
  <2>4. Batch \in Batches
    BY <1>1 DEF GroupInv, Printing
  <2>5. placed[g].legs[k].asset \in Batch
    BY <2>1, <2>2, <2>3, <2>4 DEF WholeBatches
  <2>6. fate[g][k].status = "accepted"
    BY <2>1, <2>2, <2>3 DEF GroupInv, GroupsShareOutcome
  <2>7. <<g, k>> \in Legs
    BY <2>2 DEF Legs
  <2> QED
    BY <2>1, <2>5, <2>6, <2>7 DEF Accepted, Leg
<1>8. TouchesWhole'
  BY <1>1, <1>3, <1>7 DEF TouchesWhole
<1>9. RowsAlike' /\ OneOpen'
  BY <1>3 DEF RowsAlike, OneOpen, Classes
<1> QED
  BY <1>2, <1>6, <1>8, <1>9 DEF GroupInv, CallGroups

(* When the call ends every group it has touched is answered as a whole.   *)
LEMMA FinishCallKeeps ==
  ASSUME GroupInv, FinishCall
  PROVE  GroupInv'
<1>1. CallShape /\ TouchesWhole /\ RowsAlike /\ OneOpen
  BY DEF GroupInv, CallGroups, FinishCall
<1>2. /\ call' = NA /\ UNCHANGED <<bars, stage, placed>> /\ Touched = Answered
      /\ fate' = [g \in DOMAIN fate |-> [k \in DOMAIN fate[g] |-> Fate(g, k)]]
  BY DEF FinishCall, Touched
<1>3. Shape /\ DOMAIN fate = 1 .. Len(placed) /\ Len(placed) \in Nat
  BY GroupNumbers DEF GroupInv, Shape
<1>4. IsSeq(fate')
  <2>1. fate' = [g \in 1 .. Len(placed) |-> fate'[g]]
    BY <1>2, <1>3
  <2> QED
    BY <1>3, <2>1, FunctionIsSeq
<1>5. Shape'
  BY <1>2, <1>3, <1>4 DEF Shape, IsSeq
<1>6. Printing'
  BY <1>2 DEF GroupInv, Printing, Batch
<1>7. GroupsShareOutcome'
  <2> SUFFICES ASSUME NEW g \in DOMAIN fate
               PROVE  \E C \in Classes : \A k \in DOMAIN fate[g] : Fate(g, k).status \in C
    BY <1>2 DEF GroupsShareOutcome, Classes
  <2>1. PICK C \in Classes : \A l \in Answered : l[1] = g => call.rows[l].status \in C
    BY <1>1, <1>3 DEF RowsAlike, Shape
  <2>2. PICK D \in Classes : \A k \in DOMAIN fate[g] : fate[g][k].status \in D
    BY DEF GroupInv, GroupsShareOutcome, Classes
  <2>3. CASE \E l \in Answered : l[1] = g
    <3>1. \A k \in DOMAIN fate[g] : <<g, k>> \in Answered /\ fate[g][k].status = "accepted"
      BY <1>1, <1>2, <1>3, <2>3 DEF TouchesWhole, Shape
    <3>2. \A k \in DOMAIN fate[g] : call.rows[<<g, k>>].status \in C
      BY <2>1, <3>1
    <3>3. \A k \in DOMAIN fate[g] : Fate(g, k).status = call.rows[<<g, k>>].status
      BY <3>1 DEF Fate, Answered
    <3> QED
      BY <3>2, <3>3
  <2>4. CASE ~ \E l \in Answered : l[1] = g
    <3>1. \A k \in DOMAIN fate[g] : Fate(g, k) = fate[g][k]
      BY <2>4 DEF Fate, Answered
    <3> QED
      BY <2>2, <3>1
  <2> QED
    BY <2>3, <2>4
<1> QED
  BY <1>2, <1>5, <1>6, <1>7 DEF GroupInv, CallGroups

LEMMA SubmitKeeps ==
  ASSUME GroupInv, NEW r \in Requests, Submit(r)
  PROVE  GroupInv'
<1> DEFINE row == [k \in DOMAIN r.legs |-> NoRow]
<1>1. /\ placed' = Append(placed, r) /\ fate' = Append(fate, row)
      /\ UNCHANGED <<bars, stage, call>> /\ stage = "between"
  BY DEF Submit
<1>2. /\ IsSeq(placed) /\ IsSeq(fate) /\ DOMAIN fate = DOMAIN placed
      /\ DOMAIN placed = 1 .. Len(placed) /\ Len(placed) \in Nat
      /\ DOMAIN fate = 1 .. Len(fate) /\ Len(fate) \in Nat
  BY SeqLength DEF GroupInv, Shape
<1>3. Len(fate) = Len(placed)
  BY <1>2
<1>4. /\ IsSeq(placed') /\ DOMAIN placed' = 1 .. Len(placed) + 1
      /\ \A g \in DOMAIN placed : placed'[g] = placed[g]
      /\ placed'[Len(placed) + 1] = r
  BY <1>1, <1>2, AppendAny
<1>5. /\ IsSeq(fate') /\ DOMAIN fate' = 1 .. Len(placed) + 1
      /\ \A g \in DOMAIN fate : fate'[g] = fate[g]
      /\ fate'[Len(placed) + 1] = row
  BY <1>1, <1>2, <1>3, AppendAny
<1>6. \A g \in DOMAIN placed' : g \in DOMAIN placed \/ g = Len(placed) + 1
  BY <1>2, <1>4
<1>7. IsSeq(placed)' /\ IsSeq(fate)'
  BY <1>4, <1>5 DEF IsSeq
<1>8. ASSUME NEW g \in DOMAIN placed'
      PROVE  placed'[g] \in Requests /\ DOMAIN fate'[g] = DOMAIN placed'[g].legs
  <2>1. CASE g \in DOMAIN placed
    BY <1>2, <1>4, <1>5, <2>1 DEF GroupInv, Shape
  <2>2. CASE g = Len(placed) + 1
    BY <1>4, <1>5, <2>2
  <2> QED
    BY <1>6, <2>1, <2>2
<1>9. Shape'
  BY <1>4, <1>5, <1>7, <1>8 DEF Shape
<1>10. GroupsShareOutcome'
  <2> SUFFICES ASSUME NEW g \in DOMAIN fate'
               PROVE  \E C \in Classes : \A k \in DOMAIN fate'[g] : fate'[g][k].status \in C
    BY DEF GroupsShareOutcome, Classes
  <2>1. CASE g \in DOMAIN placed
    BY <1>2, <1>5, <2>1 DEF GroupInv, GroupsShareOutcome, Classes
  <2>2. CASE g = Len(placed) + 1
    BY <1>5, <2>2 DEF NoRow, Classes
  <2> QED
    BY <1>4, <1>5, <1>6, <2>1, <2>2
<1>11. call = NA
  BY <1>1 DEF GroupInv, Printing
<1>12. Printing' /\ CallGroups'
  BY <1>1, <1>11 DEF Printing, CallGroups
<1> QED
  BY <1>9, <1>10, <1>12 DEF GroupInv

LEMMA NewBoundaryKeeps ==
  ASSUME GroupInv, NEW batch \in Batches, NEW print \in Prints, NEW gap \in Gaps,
         NewBoundary(batch, print, gap)
  PROVE  GroupInv'
<1>1. /\ UNCHANGED <<placed, fate, call>> /\ stage = "between"
      /\ bars' = [a \in Asset |-> IF a \in batch THEN print[a] ELSE NA]
  BY DEF NewBoundary
<1>2. \A a \in Asset : print[a] # NA
  BY AccountAssumption DEF AccountAssumption, Prints
<1>3. batch \subseteq Asset
  BY AccountAssumption DEF AccountAssumption
<1>4. Batch' = batch
  BY <1>1, <1>2, <1>3 DEF Batch
<1>5. call = NA
  BY <1>1 DEF GroupInv, Printing
<1> QED
  BY <1>1, <1>4, <1>5 DEF GroupInv, Shape, Printing, GroupsShareOutcome, CallGroups

LEMMA EndBoundaryKeeps ==
  ASSUME GroupInv, EndBoundary
  PROVE  GroupInv'
<1>1. UNCHANGED <<placed, fate, call>> /\ call = NA /\ stage' = "between"
  BY DEF EndBoundary
<1> QED
  BY <1>1 DEF GroupInv, Shape, Printing, GroupsShareOutcome, CallGroups

LEMMA UnchangedKeeps ==
  ASSUME GroupInv, UNCHANGED <<bars, stage, placed, fate, call>>
  PROVE  GroupInv'
BY DEF GroupInv, Shape, Printing, GroupsShareOutcome, CallGroups, CallShape, TouchesWhole,
       RowsAlike, OneOpen, Batch, Touched, Answered, Legs

LEMMA InitGroups ==
  ASSUME Init
  PROVE  GroupInv
<1>1. IsSeq(<<>>)
  BY DEF IsSeq
<1>2. placed = <<>> /\ fate = <<>> /\ call = NA /\ stage = "between"
  BY DEF Init
<1>3. IsSeq(placed) /\ IsSeq(fate)
  BY <1>1, <1>2
<1> QED
  BY <1>2, <1>3 DEF GroupInv, Shape, Printing, GroupsShareOutcome, CallGroups

LEMMA StepGroups ==
  ASSUME WholeBatches, GroupInv, [Next]_vars
  PROVE  GroupInv'
<1>1. CASE UNCHANGED vars
  BY <1>1, UnchangedKeeps DEF vars
<1>2. CASE \E r \in Requests : Submit(r)
  BY <1>2, SubmitKeeps
<1>3. CASE \E n \in Notices : Announce(n)
  BY <1>3, UnchangedKeeps DEF Announce
<1>4. CASE \E batch \in Batches, print \in Prints, gap \in Gaps : NewBoundary(batch, print, gap)
  BY <1>4, NewBoundaryKeeps
<1>5. CASE \E agent \in Agents : BeginCall(agent)
  BY <1>5, BeginCallKeeps
<1>6. CASE \E l \in Legs : OpenGroup(l) \/ SkipGroup(l) \/ ExecuteLeg(l) \/ RollBack(l)
  BY <1>6, OpenGroupKeeps, SkipGroupKeeps, ExecuteLegKeeps, RollBackKeeps
<1>7. CASE FinishCall
  BY <1>7, FinishCallKeeps
<1>8. CASE EndBoundary
  BY <1>8, EndBoundaryKeeps
<1> QED
  BY <1>1, <1>2, <1>3, <1>4, <1>5, <1>6, <1>7, <1>8 DEF Next

LEMMA GroupInvariant == ASSUME WholeBatches PROVE Spec => []GroupInv
<1>1. Init => GroupInv
  BY InitGroups
<1>2. GroupInv /\ [Next]_vars => GroupInv'
  BY StepGroups
<1> QED
  BY <1>1, <1>2, PTL DEF Spec

(* All the orders of a group share one outcome in every reachable state,   *)
(* whatever the kernel answers to each leg: heterogeneous_account_step_rcpp *)
(* and the adapter that commits its rows never split a group, provided its *)
(* assets print together.                                                  *)
THEOREM GroupsShareOutcomes ==
  ASSUME WholeBatches
  PROVE  Spec => []GroupsShareOutcome
<1>1. GroupInv => GroupsShareOutcome
  BY DEF GroupInv
<1> QED
  BY <1>1, GroupInvariant, PTL

-----------------------------------------------------------------------------
(* What the operations of a call do to the units of an account. *)

AccountFields == {"cash", "unsettled", "units", "settle", "last", "since", "accrued"}

IsAccount(t) == DOMAIN t = AccountFields /\ DOMAIN t.units = Asset

(* From t to u only the asset a may change hands. *)
Moves(t, u, a) == IsAccount(u) /\ \A b \in Asset : u.units[b] # t.units[b] => b = a

(* From t to u the bond may be paid back. *)
Redeems(t, u) ==
  IsAccount(u) /\ \A b \in Asset : u.units[b] # t.units[b] => b = Bond /\ u.units[b] = 0

LEMMA SpotMoves ==
  ASSUME NEW t, IsAccount(t), NEW l, NEW q
  PROVE  /\ Moves(t, SpotLeg(t, l, q).acct, Leg(l).asset)
         /\ SpotLeg(t, l, q).row.status # "filled" => SpotLeg(t, l, q).acct = t
<1> DEFINE delta == SpotDelta(t, l, q)
           u == SpotTraded(t, l, delta)
<1>1. Moves(t, u, Leg(l).asset)
  BY DEF SpotTraded, IsAccount, AccountFields, Moves
<1>2. Moves(t, t, Leg(l).asset)
  BY DEF Moves
<1> HIDE DEF u
<1>3. CASE ~Affordable(t, l, delta)
  BY <1>2, <1>3 DEF SpotLeg, Refused, Row
<1>4. CASE Affordable(t, l, delta) /\ delta = 0
  BY <1>2, <1>4 DEF SpotLeg, NoChange, Row
<1>5. CASE Affordable(t, l, delta) /\ delta # 0
  <2>1. SpotLeg(t, l, q) = [acct |-> u, row |-> Row("filled", K!AbsVal(delta), LegFee(l, delta))]
    BY <1>5 DEF SpotLeg, u
  <2> QED
    BY <1>1, <2>1 DEF Row
<1> QED
  BY <1>3, <1>4, <1>5

LEMMA FutureMoves ==
  ASSUME NEW t, IsAccount(t), NEW l, NEW q
  PROVE  /\ Moves(t, FutureLeg(t, l, q).acct, Leg(l).asset)
         /\ FutureLeg(t, l, q).row.status # "filled" => FutureLeg(t, l, q).acct = t
<1> DEFINE a == Leg(l).asset
           change == TargetUnits(l, t.units[a], q) - t.units[a]
           lots == Lots(t, l, change)
           delta == K!Sign(change) * lots
           u == FutureFilled(t, l, delta)
           fee == LegFee(l, change)
<1>1. Moves(t, u, Leg(l).asset)
  <2>1. Moves(t, Traded(t, l, delta), Leg(l).asset)
    BY DEF Traded, IsAccount, AccountFields, Moves
  <2>2. DOMAIN u = AccountFields /\ u.units = Traded(t, l, delta).units
    BY <2>1 DEF FutureFilled, IsAccount, AccountFields, Moves
  <2> QED
    BY <2>1, <2>2 DEF Moves, IsAccount
<1>2. Moves(t, t, Leg(l).asset)
  BY DEF Moves
<1>3. FutureLeg(t, l, q) =
        IF t.cash[Home[a]] < fee THEN Refused(t)
        ELSE IF change = 0 THEN NoChange(t)
        ELSE IF lots = 0 THEN Refused(t)
        ELSE [acct |-> u, row |-> Row("filled", lots, LegFee(l, lots))]
  BY DEF FutureLeg
<1> HIDE DEF u, delta, lots, change, fee, a
<1>4. \/ FutureLeg(t, l, q) = Refused(t)
      \/ FutureLeg(t, l, q) = NoChange(t)
      \/ FutureLeg(t, l, q) = [acct |-> u, row |-> Row("filled", lots, LegFee(l, lots))]
  BY <1>3
<1> QED
  BY <1>1, <1>2, <1>4 DEF Refused, NoChange, Row

LEMMA OutcomeMoves ==
  ASSUME NEW t, IsAccount(t), NEW l, NEW q
  PROVE  /\ Moves(t, Outcome(t, l, q).acct, Leg(l).asset)
         /\ Outcome(t, l, q).row.status # "filled" => Outcome(t, l, q).acct = t
BY SpotMoves, FutureMoves DEF Outcome

(* Before the orders of a call only the bond can leave the account.        *)
LEMMA BeforeOrdersRedeems ==
  ASSUME NEW t, IsAccount(t)
  PROVE  Redeems(t, BeforeOrders(t).acct)
<1> DEFINE s == Seeded(t)
           n == IF Announced THEN WithNotice(s, notice) ELSE [acct |-> s, paid |-> 0]
           b == IF Scheduled(n.acct) THEN WithSchedule(n.acct) ELSE [acct |-> n.acct, paid |-> 0]
<1>1. IsAccount(s) /\ s.units = t.units
  BY DEF Seeded, IsAccount, AccountFields
<1>2. ASSUME NEW u, IsAccount(u)
      PROVE  Redeems(u, WithNotice(u, notice).acct)
  BY <1>2 DEF WithNotice, Redeems, IsAccount, AccountFields
<1>3. ASSUME NEW u, IsAccount(u)
      PROVE  Redeems(u, WithSchedule(u).acct)
  BY <1>3 DEF WithSchedule, Redeems, IsAccount, AccountFields
<1>4. \A u : IsAccount(u) => Redeems(u, u)
  BY DEF Redeems
<1> HIDE DEF s
<1>5. Redeems(s, n.acct)
  BY <1>1, <1>2, <1>4
<1>6. IsAccount(n.acct)
  BY <1>5 DEF Redeems
<1>7. BeforeOrders(t).acct = b.acct
  BY DEF BeforeOrders, s
<1> HIDE DEF n
<1>8. Redeems(n.acct, b.acct)
  BY <1>3, <1>4, <1>6
<1> HIDE DEF b
<1> QED
  BY <1>1, <1>5, <1>7, <1>8 DEF Redeems

-----------------------------------------------------------------------------
(* The holdings of a running call are explained by its rows: an asset of   *)
(* which the account has more or less than the book is one of a filled     *)
(* row, or the bond paid back; and the snapshot taken for the open group   *)
(* is explained by the rows of the groups before it.                       *)

Explained(t, legs) ==
  \A a \in Asset : t.units[a] # book[call.agent].units[a] =>
    \/ \E l \in legs : call.rows[l].status = "filled" /\ Leg(l).asset = a
    \/ a = Bond /\ t.units[a] = 0

Earlier == {l \in Answered : l[1] # call.open}

Owned ==
  /\ call.agent \in Agents
  /\ \A l \in Touched : placed[l[1]].agent = call.agent
  /\ call.todo \cap Answered = {}

CallAccounts ==
  /\ IsAccount(call.acct) /\ IsAccount(call.saved)
  /\ Explained(call.acct, Answered) /\ Explained(call.saved, Earlier)

Books == DOMAIN book = Agents /\ \A g \in Agents : IsAccount(book[g])

UnitInv == Books /\ (call # NA => Owned /\ CallAccounts)

LEMMA OpenGroupUnits ==
  ASSUME GroupInv, UnitInv, NEW l \in Legs, OpenGroup(l)
  PROVE  UnitInv'
<1>1. CallShape /\ OneOpen /\ Owned /\ CallAccounts
  BY DEF GroupInv, UnitInv, CallGroups, OpenGroup
<1>2. placed' = placed /\ book' = book
  BY DEF OpenGroup, Quiet
<1>3. /\ call'.todo = call.todo /\ call'.rows = call.rows /\ call'.open = l[1]
      /\ call'.acct = call.acct /\ call'.saved = call.acct /\ call'.agent = call.agent
  BY <1>1 DEF CallShape, CallFields, OpenGroup
<1>4. Earlier' = Answered
  BY <1>1, <1>3, FreshGroup DEF Earlier, Answered, GroupInv, OpenGroup
<1>5. Owned'
  BY <1>1, <1>2, <1>3 DEF Owned, Touched, Answered
<1>6. CallAccounts'
  BY <1>1, <1>2, <1>3, <1>4 DEF CallAccounts, Explained, Leg, Answered, IsAccount
<1> QED
  BY <1>2, <1>5, <1>6 DEF UnitInv, Books, IsAccount

LEMMA SkipGroupUnits ==
  ASSUME GroupInv, UnitInv, NEW l \in Legs, SkipGroup(l)
  PROVE  UnitInv'
<1>1. CallShape /\ Owned /\ CallAccounts
  BY DEF GroupInv, UnitInv, CallGroups, SkipGroup
<1>2. placed' = placed /\ book' = book
  BY DEF SkipGroup, Quiet
<1>3. PICK status \in {"accepted", "rejected", "cancelled"} :
        call' = [call EXCEPT !.rows = Unexecuted(Peers(l), status), !.todo = @ \ Peers(l)]
  BY DEF SkipGroup
<1>4. /\ call'.todo = call.todo \ Peers(l) /\ call'.rows = Unexecuted(Peers(l), status)
      /\ UNCHANGED <<call.open, call.acct, call.saved, call.agent>>
  BY <1>1, <1>3 DEF CallShape, CallFields
<1>5. Peers(l) \subseteq call.todo
  BY DEF Peers
<1>6. /\ Answered' = Answered \cup Peers(l)
      /\ \A r \in Answered : call'.rows[r] = call.rows[r]
  BY <1>1, <1>4, <1>5 DEF Unexecuted, Answered, Owned
<1>7. Owned'
  BY <1>1, <1>2, <1>4, <1>5, <1>6 DEF Owned, Touched
<1>8. CallAccounts'
  BY <1>1, <1>2, <1>4, <1>6 DEF CallAccounts, Explained, Earlier, Leg, IsAccount
<1> QED
  BY <1>2, <1>7, <1>8 DEF UnitInv, Books, IsAccount

LEMMA ExecuteLegUnits ==
  ASSUME GroupInv, UnitInv, NEW l \in Legs, ExecuteLeg(l)
  PROVE  UnitInv'
<1>1. CallShape /\ Owned /\ CallAccounts
  BY DEF GroupInv, UnitInv, CallGroups, ExecuteLeg
<1>2. placed' = placed /\ book' = book
  BY DEF ExecuteLeg, Quiet
<1>3. l \in call.todo /\ l[1] = call.open
  BY DEF ExecuteLeg, IsNext
<1> DEFINE out == Outcome(call.acct, l, call.qty[l])
<1>4. /\ Moves(call.acct, out.acct, Leg(l).asset)
      /\ out.row.status # "filled" => out.acct = call.acct
  BY <1>1, OutcomeMoves DEF CallAccounts
<1>5. /\ call'.todo = call.todo \ {l} /\ call'.acct = out.acct
      /\ call'.rows = [m \in Answered \cup {l} |-> IF m = l THEN out.row ELSE call.rows[m]]
      /\ UNCHANGED <<call.open, call.saved, call.agent>>
  BY <1>1 DEF CallShape, CallFields, Answered, ExecuteLeg
<1> HIDE DEF out
<1>6. l \notin Answered
  BY <1>1, <1>3 DEF Owned
<1>7. /\ Answered' = Answered \cup {l} /\ call'.rows[l] = out.row
      /\ \A r \in Answered : call'.rows[r] = call.rows[r]
  BY <1>5, <1>6 DEF Answered
<1>8. Owned'
  BY <1>1, <1>2, <1>3, <1>5, <1>6, <1>7 DEF Owned, Touched
<1>9. IsAccount(call'.acct) /\ IsAccount(call'.saved)
  BY <1>1, <1>4, <1>5 DEF Moves, CallAccounts
<1>10. Explained(call.saved, Earlier)'
  BY <1>1, <1>2, <1>3, <1>5, <1>7 DEF CallAccounts, Explained, Earlier, Leg
<1>11. Explained(call.acct, Answered)'
  <2> SUFFICES ASSUME NEW a \in Asset, out.acct.units[a] # book[call.agent].units[a]
               PROVE  \/ \E r \in Answered' : call'.rows[r].status = "filled" /\ Leg(r).asset = a
                      \/ a = Bond /\ out.acct.units[a] = 0
    BY <1>2, <1>5 DEF Explained, Leg
  <2>1. CASE out.acct.units[a] = call.acct.units[a]
    <3>1. CASE \E r \in Answered : call.rows[r].status = "filled" /\ Leg(r).asset = a
      BY <1>7, <3>1
    <3>2. CASE a = Bond /\ call.acct.units[a] = 0
      BY <2>1, <3>2
    <3> QED
      BY <1>1, <2>1, <3>1, <3>2 DEF CallAccounts, Explained
  <2>2. CASE out.acct.units[a] # call.acct.units[a]
    <3>1. out.row.status = "filled" /\ a = Leg(l).asset
      BY <1>4, <2>2 DEF Moves
    <3> QED
      BY <1>7, <3>1
  <2> QED
    BY <2>1, <2>2
<1>12. IsAccount(call.acct)' /\ IsAccount(call.saved)'
  BY <1>9 DEF IsAccount
<1> QED
  BY <1>2, <1>8, <1>10, <1>11, <1>12 DEF UnitInv, Books, IsAccount, CallAccounts

LEMMA RollBackUnits ==
  ASSUME GroupInv, UnitInv, NEW l \in Legs, RollBack(l)
  PROVE  UnitInv'
<1>1. CallShape /\ Owned /\ CallAccounts
  BY DEF GroupInv, UnitInv, CallGroups, RollBack
<1>2. placed' = placed /\ book' = book /\ l[1] = call.open
  BY DEF RollBack, Quiet
<1> DEFINE group == Peers(l) \cup {m \in Answered : m[1] = l[1]}
<1>3. /\ call'.todo = call.todo \ group /\ call'.rows = Unexecuted(group, "rejected")
      /\ call'.acct = call.saved
      /\ UNCHANGED <<call.open, call.saved, call.agent>>
  BY <1>1 DEF CallShape, CallFields, Answered, RollBack
<1>4. /\ group \subseteq Touched /\ \A m \in group : m[1] = call.open
  BY <1>2, PeersOfGroup DEF Touched
<1> HIDE DEF group
<1>5. /\ Answered' = Answered \cup group
      /\ \A r \in Earlier : call'.rows[r] = call.rows[r]
  BY <1>3, <1>4 DEF Unexecuted, Answered, Earlier
<1>6. Owned'
  BY <1>1, <1>2, <1>3, <1>4, <1>5 DEF Owned, Touched
<1>7. Earlier' = Earlier /\ Earlier \subseteq Answered'
  BY <1>3, <1>4, <1>5 DEF Earlier
<1>8. CallAccounts'
  BY <1>1, <1>2, <1>3, <1>5, <1>7 DEF CallAccounts, Explained, Leg, IsAccount
<1> QED
  BY <1>2, <1>6, <1>8 DEF UnitInv, Books, IsAccount

LEMMA BeginCallUnits ==
  ASSUME UnitInv, NEW agent \in Agents, BeginCall(agent)
  PROVE  UnitInv'
<1> DEFINE t == BeforeOrders(book[agent]).acct
<1>1. /\ placed' = placed /\ book' = book
      /\ call'.agent = agent /\ call'.acct = t /\ call'.saved = t
      /\ call'.todo = Accepted(agent) /\ DOMAIN call'.rows = {}
  BY DEF BeginCall
<1>2. IsAccount(book[agent])
  BY DEF UnitInv, Books
<1>3. Redeems(book[agent], t)
  BY <1>2, BeforeOrdersRedeems
<1> HIDE DEF t
<1>4. Answered' = {} /\ Touched' = Accepted(agent)
  BY <1>1 DEF Answered, Touched
<1>5. Owned'
  BY <1>1, <1>4 DEF Owned, Accepted
<1>6. CallAccounts'
  BY <1>1, <1>3 DEF CallAccounts, Explained, IsAccount, Redeems
<1> QED
  BY <1>1, <1>5, <1>6 DEF UnitInv, Books, IsAccount

(* Marks, commits and verdicts leave the units alone.                      *)
LEMMA CommittedUnits ==
  ASSUME UnitInv, call # NA
  PROVE  IsAccount(Judged(Committed)) /\ Judged(Committed).units = call.acct.units
<1>1. IsAccount(call.acct)
  BY DEF UnitInv, CallAccounts
<1>2. IsAccount(Marked(call.acct)) /\ Marked(call.acct).units = call.acct.units
  BY <1>1 DEF Marked, IsAccount, AccountFields
<1> DEFINE t == Committed
<1>3. IsAccount(t) /\ t.units = call.acct.units
  BY <1>2 DEF Committed, IsAccount, AccountFields
<1> HIDE DEF t
<1>4. IsAccount(Judged(t)) /\ Judged(t).units = t.units
  BY <1>3 DEF Judged, IsAccount, AccountFields
<1> QED
  BY <1>3, <1>4 DEF t

LEMMA FinishCallUnits ==
  ASSUME UnitInv, FinishCall
  PROVE  /\ UnitInv' /\ call.agent \in Agents
         /\ \A g \in Agents \ {call.agent} : book'[g] = book[g]
         /\ book'[call.agent].units = call.acct.units
<1> DEFINE u == Judged(Committed)
<1>1. /\ book' = [book EXCEPT ![call.agent] = u] /\ call' = NA /\ call # NA
  BY DEF FinishCall
<1>2. IsAccount(u) /\ u.units = call.acct.units
  BY <1>1, CommittedUnits
<1> HIDE DEF u
<1>3. call.agent \in Agents /\ DOMAIN book = Agents
  BY <1>1 DEF UnitInv, Owned, Books
<1>4. /\ \A g \in Agents \ {call.agent} : book'[g] = book[g]
      /\ book'[call.agent] = u /\ DOMAIN book' = Agents
  BY <1>1, <1>3
<1>5. Books'
  BY <1>2, <1>4 DEF UnitInv, Books, IsAccount
<1> QED
  BY <1>1, <1>2, <1>3, <1>4, <1>5 DEF UnitInv

LEMMA NewBoundaryUnits ==
  ASSUME GroupInv, UnitInv, NEW batch, NEW print, NEW gap, NewBoundary(batch, print, gap)
  PROVE  UnitInv' /\ \A g \in Agents : book'[g].units = book[g].units
<1>1. call' = NA
  BY DEF GroupInv, Printing, NewBoundary
<1>2. /\ DOMAIN book' = Agents
      /\ \A g \in Agents :
           \E x, y : book'[g] = [book[g] EXCEPT !.cash = x, !.unsettled = y]
  BY DEF NewBoundary
<1>3. ASSUME NEW g \in Agents
      PROVE  DOMAIN book'[g] = AccountFields /\ book'[g].units = book[g].units
  BY <1>2 DEF UnitInv, Books, IsAccount, AccountFields
<1>4. Books'
  BY <1>2, <1>3 DEF UnitInv, Books, IsAccount
<1> QED
  BY <1>1, <1>3, <1>4 DEF UnitInv

LEMMA UnchangedUnits ==
  ASSUME UnitInv, UNCHANGED <<placed, book, call>>
  PROVE  UnitInv'
BY DEF UnitInv, Books, IsAccount, Owned, CallAccounts, Explained, Earlier, Touched, Answered, Leg

LEMMA SubmitUnits ==
  ASSUME GroupInv, UnitInv, NEW r, Submit(r)
  PROVE  UnitInv'
<1>1. book' = book /\ call' = NA
  BY DEF Submit, GroupInv, Printing
<1> QED
  BY <1>1 DEF UnitInv, Books, IsAccount

LEMMA StepUnits ==
  ASSUME GroupInv, UnitInv, [Next]_vars
  PROVE  UnitInv'
<1>1. CASE UNCHANGED vars
  BY <1>1, UnchangedUnits DEF vars
<1>2. CASE \E r \in Requests : Submit(r)
  BY <1>2, SubmitUnits
<1>3. CASE \E n \in Notices : Announce(n)
  BY <1>3, UnchangedUnits DEF Announce
<1>4. CASE \E batch \in Batches, print \in Prints, gap \in Gaps : NewBoundary(batch, print, gap)
  BY <1>4, NewBoundaryUnits
<1>5. CASE \E agent \in Agents : BeginCall(agent)
  BY <1>5, BeginCallUnits
<1>6. CASE \E l \in Legs : OpenGroup(l) \/ SkipGroup(l) \/ ExecuteLeg(l) \/ RollBack(l)
  BY <1>6, OpenGroupUnits, SkipGroupUnits, ExecuteLegUnits, RollBackUnits
<1>7. CASE FinishCall
  BY <1>7, FinishCallUnits
<1>8. CASE EndBoundary
  BY <1>8, UnchangedUnits DEF EndBoundary
<1> QED
  BY <1>1, <1>2, <1>3, <1>4, <1>5, <1>6, <1>7, <1>8 DEF Next

-----------------------------------------------------------------------------
(* Every step maps to a step of AtomicGroups, or to none. *)

(* What a submission does to the groups. *)
LEMMA SubmitMaps ==
  ASSUME GroupInv, NEW r \in Requests, Submit(r)
  PROVE  A!Submit
<1> DEFINE n == Len(placed)
           row == [k \in DOMAIN r.legs |-> NoRow]
<1>1. /\ placed' = Append(placed, r) /\ fate' = Append(fate, row) /\ book' = book
  BY DEF Submit
<1>2. /\ IsSeq(placed) /\ IsSeq(fate) /\ DOMAIN fate = DOMAIN placed
      /\ DOMAIN placed = 1 .. n /\ n \in Nat
      /\ DOMAIN fate = 1 .. Len(fate) /\ Len(fate) \in Nat
  BY SeqLength DEF GroupInv, Shape
<1>3. Len(fate) = n
  BY <1>2
<1>4. /\ DOMAIN placed' = 1 .. n + 1 /\ \A g \in 1 .. n : placed'[g] = placed[g]
  BY <1>1, <1>2, AppendAny
<1>5. /\ DOMAIN fate' = 1 .. n + 1 /\ \A g \in 1 .. n : fate'[g] = fate[g]
      /\ fate'[n + 1] = row
  BY <1>1, <1>2, <1>3, AppendAny
<1> HIDE DEF n
<1>6. DOMAIN GroupsOf = 1 .. n /\ DOMAIN GroupsOf' = 1 .. n + 1
  BY <1>2, <1>4 DEF GroupsOf
<1>7. Len(GroupsOf) = n
  <2>1. GroupsOf = [g \in 1 .. n |-> GroupsOf[g]]
    BY <1>2 DEF GroupsOf
  <2> QED
    BY <1>2, <2>1, FunctionIsSeq
<1>8. Len(GroupsOf') = n + 1
  <2>1. GroupsOf' = [g \in 1 .. n + 1 |-> GroupsOf'[g]]
    BY <1>4 DEF GroupsOf
  <2>2. n + 1 \in Nat
    BY <1>2
  <2> QED
    BY <2>1, <2>2, FunctionIsSeq
<1>9. ASSUME NEW g \in 1 .. n
      PROVE  GroupsOf'[g] = GroupsOf[g]
  <2>1. g \in 1 .. n + 1 /\ g \in DOMAIN placed /\ g \in DOMAIN placed'
    BY <1>2, <1>4
  <2> QED
    BY <1>2, <1>4, <1>5, <2>1 DEF GroupsOf
<1>10. GroupsOf'[n + 1].outcome = "open"
  <2>1. n + 1 \in DOMAIN placed'
    BY <1>2, <1>4
  <2>2. \A k \in DOMAIN fate'[n + 1] : fate'[n + 1][k].status = "accepted"
    BY <1>5 DEF NoRow
  <2> QED
    BY <2>1, <2>2 DEF GroupsOf, GroupView
<1> QED
  BY <1>1, <1>6, <1>7, <1>8, <1>9, <1>10 DEF A!Submit

LEMMA SameView ==
  ASSUME NEW group, NEW r, NEW s, DOMAIN r = DOMAIN s, \A k \in DOMAIN s : r[k].status = s[k].status
  PROVE  GroupView(group, r) = GroupView(group, s)
BY DEF GroupView

(* At the end of a call a group is left as it was, or all its legs waited  *)
(* and it is executed if one of them was filled and refused otherwise.     *)
LEMMA FinishCallGroups ==
  ASSUME GroupInv, UnitInv, FinishCall, NEW g \in DOMAIN placed
  PROVE  /\ \/ GroupsOf'[g] = GroupsOf[g]
            \/ /\ GroupsOf[g].agent = call.agent /\ GroupsOf[g].outcome = "open"
               /\ GroupsOf'[g].outcome \in {"executed", "refused"}
         /\ (\E l \in Answered : l[1] = g /\ call.rows[l].status = "filled") =>
              GroupsOf[g].outcome = "open" /\ GroupsOf'[g].outcome = "executed"
<1> DEFINE v == GroupView(placed[g], fate[g])
           w == GroupView(placed[g], fate'[g])
<1>1. /\ CallShape /\ TouchesWhole /\ RowsAlike /\ Owned /\ placed' = placed
      /\ Touched = Answered
      /\ fate' = [i \in DOMAIN fate |-> [k \in DOMAIN fate[i] |-> Fate(i, k)]]
  BY DEF GroupInv, CallGroups, UnitInv, FinishCall, Touched
<1>2. g \in DOMAIN fate /\ DOMAIN fate[g] = DOMAIN placed[g].legs
  BY DEF GroupInv, Shape
<1>3. GroupsOf[g] = v /\ GroupsOf'[g] = w
  BY <1>1, <1>2 DEF GroupsOf
<1>4. DOMAIN fate'[g] = DOMAIN fate[g] /\ \A k \in DOMAIN fate[g] : fate'[g][k] = Fate(g, k)
  BY <1>1, <1>2
<1>5. PICK C \in Classes : \A l \in Answered : l[1] = g => call.rows[l].status \in C
  BY <1>1 DEF RowsAlike
<1>6. CASE ~ \E l \in Answered : l[1] = g
  <2>1. \A k \in DOMAIN fate[g] : fate'[g][k] = fate[g][k]
    BY <1>4, <1>6 DEF Fate, Answered
  <2>2. v = w
    BY <1>4, <2>1, SameView
  <2> QED
    BY <1>3, <1>6, <2>2
<1>7. CASE \E l \in Answered : l[1] = g
  <2>1. PICK l \in Answered : l[1] = g
    BY <1>7
  <2>2. /\ l \in Legs /\ l[2] \in DOMAIN fate[g] /\ l = <<g, l[2]>>
        /\ placed[g].agent = call.agent
    BY <1>1, <1>2, <2>1, LegsOf DEF CallShape, Owned
  <2>3. \A k \in DOMAIN fate[g] : <<g, k>> \in Answered /\ fate[g][k].status = "accepted"
    BY <1>1, <1>2, <2>1 DEF TouchesWhole
  <2>4. \A k \in DOMAIN fate[g] : call.rows[<<g, k>>].status \in C
    BY <1>5, <2>3
  <2>5. \A k \in DOMAIN fate[g] : fate'[g][k].status = call.rows[<<g, k>>].status
    <3>1. \A k \in DOMAIN fate[g] : Fate(g, k).status = call.rows[<<g, k>>].status
      BY <2>3 DEF Fate, Answered
    <3> QED
      BY <1>1, <1>2, <3>1
  <2>6. v.agent = call.agent /\ v.outcome = "open"
    BY <2>2, <2>3 DEF GroupView
  <2>7. CASE C = {"accepted"}
    <3>1. \A k \in DOMAIN fate[g] : fate'[g][k].status = fate[g][k].status
      BY <2>3, <2>4, <2>5, <2>7
    <3>2. v = w
      BY <1>4, <3>1, SameView
    <3> QED
      BY <1>3, <1>5, <2>7, <3>2
  <2>8. CASE C = {"filled", "no_op"}
    <3>1. w.outcome = "executed"
      BY <1>4, <2>2, <2>4, <2>5, <2>8 DEF GroupView
    <3> QED
      BY <1>3, <2>6, <3>1
  <2>9. CASE C = {"rejected"} \/ C = {"cancelled"}
    <3>1. \A k \in DOMAIN fate[g] : fate'[g][k].status \in {"rejected", "cancelled"}
      BY <2>4, <2>5, <2>9
    <3>2. w.outcome = "refused"
      BY <1>4, <2>2, <3>1 DEF GroupView
    <3> QED
      BY <1>3, <1>5, <2>6, <2>9, <3>2
  <2> QED
    BY <2>7, <2>8, <2>9 DEF Classes
<1> QED
  BY <1>6, <1>7

LEMMA FinishCallMaps ==
  ASSUME GroupInv, UnitInv, FinishCall, NEW agent \in Agents, agent = call.agent
  PROVE  A!Resolve(agent)
<1>1. /\ call # NA /\ placed' = placed /\ DOMAIN fate' = DOMAIN fate
      /\ CallShape /\ CallAccounts /\ Touched = Answered
  BY DEF GroupInv, CallGroups, UnitInv, FinishCall, Touched
<1>2. DOMAIN GroupsOf = DOMAIN placed /\ DOMAIN GroupsOf' = DOMAIN placed
  BY <1>1 DEF GroupsOf
<1>3. \A g \in DOMAIN placed :
        \/ GroupsOf'[g] = GroupsOf[g]
        \/ /\ GroupsOf[g].agent = call.agent /\ GroupsOf[g].outcome = "open"
           /\ GroupsOf'[g].outcome \in {"executed", "refused"}
  BY FinishCallGroups
<1>4. /\ \A g \in Agents \ {call.agent} : book'[g] = book[g]
      /\ book'[call.agent].units = call.acct.units
  BY FinishCallUnits
<1>5. ASSUME NEW g \in Agents, NEW a \in Asset, book'[g].units[a] # book[g].units[a]
      PROVE  /\ g = call.agent
             /\ \/ \E i \in DOMAIN GroupsOf :
                     /\ GroupsOf[i].outcome = "open" /\ GroupsOf'[i].outcome = "executed"
                     /\ a \in GroupsOf[i].assets
                \/ a = Bond /\ book'[g].units[a] = 0
  <2>1. g = call.agent /\ call.acct.units[a] # book[call.agent].units[a]
    BY <1>4, <1>5
  <2>2. CASE a = Bond /\ call.acct.units[a] = 0
    BY <1>4, <2>1, <2>2
  <2>3. CASE \E l \in Answered : call.rows[l].status = "filled" /\ Leg(l).asset = a
    <3>1. PICK l \in Answered : call.rows[l].status = "filled" /\ Leg(l).asset = a
      BY <2>3
    <3>2. l[1] \in DOMAIN placed /\ l[2] \in DOMAIN placed[l[1]].legs
      BY <1>1, LegsOf DEF CallShape
    <3>3. GroupsOf[l[1]].outcome = "open" /\ GroupsOf'[l[1]].outcome = "executed"
      BY <3>1, <3>2, FinishCallGroups
    <3>4. l[2] \in DOMAIN fate[l[1]]
      BY <3>2 DEF GroupInv, Shape
    <3>5. a \in GroupsOf[l[1]].assets
      BY <3>1, <3>2, <3>4 DEF GroupsOf, GroupView, Leg
    <3> QED
      BY <1>2, <2>1, <3>2, <3>3, <3>5
  <2> QED
    BY <1>1, <2>1, <2>2, <2>3 DEF CallAccounts, Explained
<1> QED
  BY <1>2, <1>3, <1>5 DEF A!Resolve, A!Executed

LEMMA SameUnits ==
  ASSUME UNCHANGED <<placed, fate>>, \A g \in Agents : book'[g].units = book[g].units
  PROVE  UNCHANGED <<GroupsOf, [g \in Agents |-> book[g].units]>>
BY DEF GroupsOf

LEMMA StepMaps ==
  ASSUME GroupInv, UnitInv, [Next]_vars
  PROVE  [A!Next]_<<GroupsOf, [g \in Agents |-> book[g].units]>>
<1>1. CASE UNCHANGED vars
  BY <1>1, SameUnits DEF vars
<1>2. CASE \E r \in Requests : Submit(r)
  BY <1>2, SubmitMaps DEF A!Next
<1>3. CASE \E n \in Notices : Announce(n)
  BY <1>3, SameUnits DEF Announce
<1>4. CASE \E batch \in Batches, print \in Prints, gap \in Gaps : NewBoundary(batch, print, gap)
  <2>1. UNCHANGED <<placed, fate>>
    BY <1>4 DEF NewBoundary
  <2> QED
    BY <1>4, <2>1, NewBoundaryUnits, SameUnits
<1>5. CASE \E agent \in Agents : BeginCall(agent)
  BY <1>5, SameUnits DEF BeginCall
<1>6. CASE \E l \in Legs : OpenGroup(l) \/ SkipGroup(l) \/ ExecuteLeg(l) \/ RollBack(l)
  <2>1. Quiet
    BY <1>6 DEF OpenGroup, SkipGroup, ExecuteLeg, RollBack
  <2> QED
    BY <2>1, SameUnits DEF Quiet
<1>7. CASE FinishCall
  <2>1. PICK agent \in Agents : agent = call.agent
    BY <1>7, FinishCallUnits
  <2> QED
    BY <1>7, <2>1, FinishCallMaps DEF A!Next
<1>8. CASE EndBoundary
  BY <1>8, SameUnits DEF EndBoundary
<1> QED
  BY <1>1, <1>2, <1>3, <1>4, <1>5, <1>6, <1>7, <1>8 DEF Next

(* The accounts implement AtomicGroups: every step of a reachable state is *)
(* a submission, the resolution of whole groups of one agent with the      *)
(* holdings they explain, or a stutter, so that a group rolled back by the *)
(* kernel leaves no position behind in what the adapter commits.           *)
THEOREM GroupsImplemented ==
  ASSUME WholeBatches
  PROVE  Spec => ImplementsGroups
<1>1. Init => A!Init
  BY DEF Init, Unopened, A!Init, GroupsOf
<1>2. Init => UnitInv
  BY DEF Init, Unopened, UnitInv, Books, IsAccount, AccountFields
<1>3. GroupInv /\ GroupInv' /\ UnitInv /\ [Next]_vars => UnitInv'
  BY StepUnits
<1>4. GroupInv /\ UnitInv /\ [Next]_vars
        => [A!Next]_<<GroupsOf, [g \in Agents |-> book[g].units]>>
  BY StepMaps
<1> QED
  BY <1>1, <1>2, <1>3, <1>4, GroupInvariant, PTL DEF Spec, ImplementsGroups, A!Spec

-----------------------------------------------------------------------------
(* The invariant behind the ledgers. Amounts of money are integers.        *)
Money == [Ccy -> Int]
AccountRecords ==
  [cash : Money, unsettled : Money, units : [Asset -> Int], settle : [Asset -> Int \cup {NA}],
   last : [Asset -> Nat], since : [Asset -> Int \cup {NA}], accrued : Int]

(* No announced bond action takes money back.                              *)
NoClawback == \A n \in Notices : n.amount >= 0

(* A well-formed account: inventory is not short, what is held has been    *)
(* valued, and a future that was valued has been settled.                  *)
Account(t) ==
  /\ t \in AccountRecords
  /\ NoClawback => t.accrued >= 0
  /\ t.units[Bond] = 0 => t.accrued = 0
  /\ \A a \in Spot : t.units[a] >= 0
  /\ \A a \in Asset : t.units[a] # 0 => t.last[a] > 0
  /\ \A a \in Futures : t.last[a] > 0 => t.settle[a] # NA

(* Cash that no future is charged to is not overdrawn.                     *)
Solvent(t) ==
  NoClawback /\ FeeNum <= Den /\ terms.lag = 0 =>
    \A c \in Ccy : (\A a \in Futures : Home[a] # c) => t.cash[c] >= 0

(* The rows of a running call have been seeded with the batch.             *)
Showing(t) == \A a \in Batch : t.last[a] > 0

Fine(t) == Account(t) /\ Solvent(t) /\ Showing(t)

(* The types of what is not an account.                                    *)
Clock ==
  /\ terms \in Terms /\ now \in 0 .. MaxTime /\ stage \in {"between", "agents"}
  /\ todo \subseteq Agents /\ ruined \subseteq Agents
  /\ \A a \in Batch : bars[a].open \in Nat \ {0} /\ bars[a].close \in Nat \ {0}
  /\ schedule.last \in Nat /\ schedule.next \in Nat /\ cursor \in Nat \cup {NA}
  /\ notice # NA => notice.amount \in Int /\ (NoClawback => notice.amount >= 0)

Answer(l) == fate[l[1]][l[2]]

(* Every leg has an answer, and what is pending is the sale of a filled    *)
(* one.                                                                    *)
Fates == \A l \in Legs : Answer(l).status \in Statuses /\ Answer(l).qty \in Nat

Pending ==
  /\ IsFiniteSet(settlements)
  /\ \A e \in settlements : e.leg \in Legs /\ Answer(e.leg).status = "filled" /\ e.amount \in Int
  /\ terms.lag = 0 => settlements = {}

Amounts == [e \in settlements |-> e.amount]
PendingOf(g, c) == {e \in settlements : e.agent = g /\ e.ccy = c}

(* The filled orders of an agent in an asset, and what they add up to.     *)
Orders(g, a) ==
  {l \in Legs : placed[l[1]].agent = g /\ Leg(l).asset = a /\ Answer(l).status = "filled"}

BoughtOf == [l \in Legs |-> IF Leg(l).side = "buy" THEN Answer(l).qty ELSE -Answer(l).qty]
Bought(g, a) == Sum(BoughtOf, Orders(g, a))

(* What is held is what was bought; a bond may have been redeemed.         *)
Covers(held, bought, a) == held = bought \/ (a = Bond /\ held <= bought)

(* The sales that the cash ledger books as purchases.                      *)
SoldFlat(g) == \E l \in Legs : /\ placed[l[1]].agent = g /\ Answer(l).status = "filled"
                               /\ Leg(l).asset \in Spot /\ Leg(l).side = "flat"

(* What the durable rows of every agent have to do with the orders, the    *)
(* pending settlements and the ledger.                                     *)
Accounts ==
  /\ DOMAIN book = Agents /\ DOMAIN ledger = Agents
  /\ \A g \in Agents :
       /\ Account(book[g]) /\ Solvent(book[g]) /\ ledger[g] \in Money
       /\ g \notin ruined =>
            \A c \in Ccy : book[g].unsettled[c] = Sum(Amounts, PendingOf(g, c))
       /\ \A a \in Spot : Covers(book[g].units[a], Bought(g, a), a)
       /\ g \in ruined \/ SoldFlat(g) \/ ledger[g] = book[g].cash

(* The cash and the units that the row of a filled leg gives.              *)
FillCash(l, row) ==
  IF Leg(l).asset \in Futures THEN -row.fee
  ELSE IF Leg(l).side = "buy" THEN -(Den * row.qty * Price(l) + row.fee)
  ELSE Den * row.qty * Price(l) - row.fee

FillUnits(l, row) == IF Leg(l).side = "buy" THEN row.qty ELSE -row.qty

IsFilled(l) == call.rows[l].status = "filled"

(* The flows of all the answered legs, by currency and by asset.           *)
CashFlows ==
  [c \in Ccy |-> [l \in Answered |-> IF IsFilled(l) /\ Home[Leg(l).asset] = c
                                     THEN FillCash(l, call.rows[l]) ELSE 0]]

UnitFlows ==
  [a \in Spot |-> [l \in Answered |-> IF IsFilled(l) /\ Leg(l).asset = a
                                      THEN FillUnits(l, call.rows[l]) ELSE 0]]

BoughtBy(g) == [a \in Spot |-> Bought(g, a)]

(* The account t is the account b after the bond paid and the legs gave    *)
(* the cash and units of F and U; bought is what explains b.               *)
Explain(t, legs, b, paid, F, U, bought) ==
  /\ t.unsettled = b.unsettled
  /\ \A c \in Ccy : t.cash[c] = b.cash[c] + (IF c = Home[Bond] THEN paid ELSE 0) + Sum(F[c], legs)
  /\ \A a \in Spot : Covers(t.units[a], bought[a] + Sum(U[a], legs), a)

Explains(t, legs) ==
  Explain(t, legs, book[call.agent], call.paid, CashFlows, UnitFlows, BoughtBy(call.agent))

(* The rows of a running call have their types and its legs still wait.    *)
CallRows ==
  /\ \A l \in Touched : Answer(l).status = "accepted" /\ Leg(l).asset \in Batch
  /\ \A l \in call.todo : call.qty[l] \in Nat
  /\ \A l \in Answered : call.rows[l] \in [status : Statuses, qty : Nat, fee : Nat]
  /\ call.paid \in Int

CallFrame == CallShape /\ OneOpen /\ Owned /\ CallRows

(* The account of a running call is explained by the rows so far, and the  *)
(* snapshot it rolls back to by the rows of the earlier groups.            *)
CallMoney ==
  /\ Fine(call.acct) /\ Explains(call.acct, Answered)
  /\ Fine(call.saved) /\ Explains(call.saved, Earlier)

World == Shape /\ Printing /\ Clock /\ Fates /\ Pending

LedgerInv == World /\ Accounts /\ (call # NA => CallFrame /\ CallMoney)

-----------------------------------------------------------------------------
(* Numbers. *)

LEMMA MaxPair ==
  ASSUME NEW x \in Int, NEW y \in Int
  PROVE  Max({x, y}) = IF x >= y THEN x ELSE y
BY DEF Max

LEMMA MinPair ==
  ASSUME NEW x \in Int, NEW y \in Int
  PROVE  Min({x, y}) = IF x <= y THEN x ELSE y
BY DEF Min

LEMMA ProductNat ==
  ASSUME NEW x \in Nat, NEW y \in Nat
  PROVE  x * y \in Nat
OBVIOUS

LEMMA LargestFitFits ==
  ASSUME NEW from \in Int, NEW to \in Int, from <= to + 1, NEW fits
  PROVE  K!LargestFit(fits, from, to) \in {0} \cup (fits \cap (from .. to))
<1> DEFINE f == CHOOSE f : IsSearch(f, fits, from, to)
<1>1. IsSearch(f, fits, from, to)
  BY SearchExists
<1>2. K!LargestFit(fits, from, to) = f[<<from, to>>]
  BY DEF K!LargestFit, IsSearch
<1> HIDE DEF f
<1> QED
  BY <1>1, <1>2, SearchFits

LEMMA LotsNat ==
  ASSUME NEW t, NEW l, NEW change \in Int
  PROVE  Lots(t, l, change) \in Nat
<1> DEFINE asked == K!AbsVal(change)
           fits == {k \in 0 .. asked : Feasible(t, l, K!Sign(change) * k)}
<1>1. asked \in Nat
  BY DEF K!AbsVal
<1>2. Lots(t, l, change) \in {0, asked, K!LargestFit(fits, 0, asked)}
  BY DEF Lots
<1> HIDE DEF asked, fits
<1>3. K!LargestFit(fits, 0, asked) \in {0} \cup (fits \cap (0 .. asked))
  BY <1>1, LargestFitFits
<1> QED
  BY <1>1, <1>2, <1>3

-----------------------------------------------------------------------------
(* Legs and their prices. *)

LEMMA LegTypes ==
  ASSUME Shape, NEW l \in Legs
  PROVE  /\ Leg(l).asset \in Asset /\ Leg(l).qty \in Nat
         /\ Leg(l).side \in {"buy", "sell", "flat"}
         /\ Leg(l).limit \in (Nat \ {0}) \cup {NA}
         /\ Home[Leg(l).asset] \in Ccy
         /\ placed[l[1]].agent \in Agents
<1>1. placed[l[1]] \in Requests /\ l[2] \in DOMAIN placed[l[1]].legs
  BY LegsOf DEF Shape
<1> QED
  BY <1>1, AccountAssumption DEF AccountAssumption, Leg

LEMMA PricePositive ==
  ASSUME Shape, Clock, NEW l \in Legs, Leg(l).asset \in Batch
  PROVE  Price(l) \in Nat /\ Price(l) > 0
BY LegTypes DEF Price, Clock

LEMMA FiniteLegs ==
  ASSUME Shape
  PROVE  IsFiniteSet(Legs)
<1> DEFINE row == [g \in DOMAIN placed |-> {<<g, k>> : k \in DOMAIN placed[g].legs}]
           Rows == {row[g] : g \in DOMAIN placed}
<1>1. IsFiniteSet(DOMAIN placed)
  BY GroupNumbers, FS_Interval
<1>2. Legs = UNION Rows
  BY DEF Legs
<1>3. ASSUME NEW g \in DOMAIN placed
      PROVE  IsFiniteSet(row[g])
  <2> DEFINE at == [k \in DOMAIN placed[g].legs |-> <<g, k>>]
             image == {at[k] : k \in DOMAIN placed[g].legs}
  <2>1. IsFiniteSet(DOMAIN placed[g].legs)
    BY AccountAssumption DEF AccountAssumption, Shape
  <2>2. row[g] = image
    OBVIOUS
  <2> HIDE DEF at, row
  <2>3. IsFiniteSet(image)
    BY <2>1, ImageFinite
  <2> QED
    BY <2>2, <2>3
<1> HIDE DEF row
<1>4. IsFiniteSet(Rows)
  BY <1>1, ImageFinite
<1>5. \A T \in Rows : IsFiniteSet(T)
  BY <1>3
<1> HIDE DEF Rows
<1> QED
  BY <1>2, <1>4, <1>5, FS_UNION

-----------------------------------------------------------------------------
(* What a leg does to an account. *)

RowTypes == [status : Statuses, qty : Nat, fee : Nat]

Effect(t, l, out) ==
  /\ Fine(out.acct) /\ out.row \in RowTypes /\ out.acct.unsettled = t.unsettled
  /\ out.row.status # "filled" => out.acct = t
  /\ out.row.status = "filled" =>
       /\ \A c \in Ccy : out.acct.cash[c] = t.cash[c] + (IF Home[Leg(l).asset] = c
                                                         THEN FillCash(l, out.row) ELSE 0)
       /\ \A a \in Spot : out.acct.units[a] = t.units[a] + (IF Leg(l).asset = a
                                                            THEN FillUnits(l, out.row) ELSE 0)

LEMMA FeeNat ==
  ASSUME Shape, Clock, NEW l \in Legs, Leg(l).asset \in Batch, NEW delta \in Int
  PROVE  LegFee(l, delta) \in Nat /\ LegFee(l, delta) = FeeNum * K!AbsVal(delta) * Price(l)
<1>1. K!AbsVal(delta) \in Nat /\ FeeNum \in Nat /\ Price(l) \in Nat
  BY PricePositive, AccountAssumption DEF AccountAssumption, K!AbsVal
<1>2. FeeNum * K!AbsVal(delta) \in Nat
  BY <1>1, ProductNat
<1>3. FeeNum * K!AbsVal(delta) * Price(l) \in Nat
  BY <1>1, <1>2, ProductNat
<1> QED
  BY <1>3 DEF LegFee

(* An answer that changes nothing. *)
LEMMA IdleEffect ==
  ASSUME NEW t, NEW l, Fine(t), NEW out \in {Refused(t), NoChange(t)}
  PROVE  Effect(t, l, out)
BY DEF Effect, Refused, NoChange, Row, RowTypes, Statuses

LEMMA SpotDeltaTypes ==
  ASSUME Shape, NEW l \in Legs, Leg(l).asset \in Spot, NEW t, Account(t), NEW q \in Nat
  PROVE  LET delta == SpotDelta(t, l, q)
         IN  /\ delta \in Int /\ K!AbsVal(delta) \in Nat
             /\ Leg(l).side = "buy" => delta >= 0 /\ K!AbsVal(delta) = delta
             /\ Leg(l).side # "buy" => delta <= 0 /\ K!AbsVal(delta) = -delta
BY LegTypes DEF SpotDelta, Account, AccountRecords, K!AbsVal

LEMMA SpotTradedFine ==
  ASSUME Shape, Clock, NEW l \in Legs, Leg(l).asset \in Spot, Leg(l).asset \in Batch,
         NEW t, Fine(t), NEW q \in Nat, Affordable(t, l, SpotDelta(t, l, q)),
         SpotDelta(t, l, q) # 0
  PROVE  LET delta == SpotDelta(t, l, q)
         IN  Effect(t, l, [acct |-> SpotTraded(t, l, delta),
                           row |-> Row("filled", K!AbsVal(delta), LegFee(l, delta))])
<1> DEFINE delta == SpotDelta(t, l, q)
           a == Leg(l).asset
           h == Home[a]
           u == SpotTraded(t, l, delta)
           fee == LegFee(l, delta)
           cost == SpotCost(l, delta)
           P == Price(l)
           n == K!AbsVal(delta)
           row == Row("filled", n, fee)
           out == [acct |-> u, row |-> row]
<1>1. /\ delta \in Int /\ n \in Nat
      /\ Leg(l).side = "buy" => delta >= 0 /\ n = delta
      /\ Leg(l).side # "buy" => delta <= 0 /\ n = -delta
  BY SpotDeltaTypes DEF Fine
<1>2. P \in Nat /\ P > 0 /\ fee \in Nat /\ fee = FeeNum * n * P
  BY <1>1, PricePositive, FeeNat
<1>3. Den \in Nat /\ FeeNum \in Nat /\ a \in Asset /\ h \in Ccy /\ a \notin Futures
  BY AccountAssumption, LegTypes DEF AccountAssumption
<1>4. cost = Den * delta * P + fee
  BY DEF SpotCost
<1>5. /\ delta > 0 => t.cash[h] >= cost
      /\ t.units[a] + delta >= 0
  BY DEF Affordable
<1>6. u = [t EXCEPT !.cash[h] = @ - cost, !.units[a] = @ + delta,
                    !.accrued = IF a = Bond /\ t.units[a] + delta = 0 THEN 0 ELSE @]
  BY DEF SpotTraded
<1> HIDE DEF delta, a, h, u, fee, cost, P, n
<1>7. cost \in Int /\ Den * delta * P \in Int
  BY <1>1, <1>2, <1>3, <1>4
<1>8. t \in AccountRecords
  BY DEF Fine, Account
<1>9. /\ u \in AccountRecords /\ u.unsettled = t.unsettled /\ u.settle = t.settle
      /\ u.last = t.last /\ u.since = t.since
      /\ \A c \in Ccy : u.cash[c] = t.cash[c] - (IF c = h THEN cost ELSE 0)
      /\ \A b \in Asset : u.units[b] = t.units[b] + (IF b = a THEN delta ELSE 0)
      /\ u.accrued = IF a = Bond /\ t.units[a] + delta = 0 THEN 0 ELSE t.accrued
  <2> DEFINE cash2 == [t.cash EXCEPT ![h] = t.cash[h] - cost]
             units2 == [t.units EXCEPT ![a] = t.units[a] + delta]
             accrued2 == IF a = Bond /\ t.units[a] + delta = 0 THEN 0 ELSE t.accrued
  <2>1. u = [t EXCEPT !.cash = cash2, !.units = units2, !.accrued = accrued2]
    BY <1>6, <1>8 DEF AccountRecords
  <2>2. t.cash \in [Ccy -> Int] /\ t.units \in [Asset -> Int] /\ t.accrued \in Int
    BY <1>8 DEF AccountRecords, Money
  <2>3. /\ cash2 \in [Ccy -> Int]
        /\ \A c \in Ccy : cash2[c] = t.cash[c] - (IF c = h THEN cost ELSE 0)
    BY <1>3, <1>7, <2>2
  <2>4. /\ units2 \in [Asset -> Int]
        /\ \A b \in Asset : units2[b] = t.units[b] + (IF b = a THEN delta ELSE 0)
    BY <1>1, <1>3, <2>2
  <2>5. accrued2 \in Int
    BY <2>2
  <2> HIDE DEF cash2, units2, accrued2
  <2>6. /\ u \in AccountRecords /\ u.unsettled = t.unsettled /\ u.settle = t.settle
        /\ u.last = t.last /\ u.since = t.since
        /\ u.cash = cash2 /\ u.units = units2 /\ u.accrued = accrued2
    BY <1>8, <2>1, <2>3, <2>4, <2>5 DEF AccountRecords, Money
  <2> QED
    BY <2>3, <2>4, <2>6 DEF accrued2
<1>10. Bond \in Spot /\ Spot \subseteq Asset /\ Futures \subseteq Asset
  BY AccountAssumption DEF AccountAssumption, Asset
<1>11. Account(u)
  <2>1. NoClawback => u.accrued >= 0
    BY <1>9 DEF Fine, Account
  <2>2. u.units[Bond] = 0 => u.accrued = 0
    BY <1>8, <1>9, <1>10 DEF Fine, Account, AccountRecords
  <2>3. \A b \in Spot : u.units[b] >= 0
    BY <1>5, <1>8, <1>9, <1>10 DEF Fine, Account, AccountRecords
  <2>4. t.last[a] > 0
    BY DEF Fine, Showing, a
  <2>5. \A b \in Asset : u.units[b] # 0 => u.last[b] > 0
    BY <1>8, <1>9, <2>4 DEF Fine, Account, AccountRecords
  <2>6. \A b \in Futures : u.last[b] > 0 => u.settle[b] # NA
    BY <1>9 DEF Fine, Account
  <2> QED
    BY <1>9, <2>1, <2>2, <2>3, <2>5, <2>6 DEF Account
<1>12. Showing(u)
  BY <1>9 DEF Fine, Showing
<1>13. FeeNum <= Den /\ ~(delta > 0) => cost <= 0
  <2> SUFFICES ASSUME FeeNum <= Den, ~(delta > 0) PROVE cost <= 0
    OBVIOUS
  <2>1. n = -delta
    BY <1>1
  <2>2. cost = -((Den - FeeNum) * (n * P))
    BY <1>1, <1>2, <1>3, <1>4, <2>1
  <2>3. n * P \in Nat /\ Den - FeeNum \in Nat
    BY <1>1, <1>2, <1>3, ProductNat
  <2>4. (Den - FeeNum) * (n * P) \in Nat
    BY <2>3, ProductNat
  <2> QED
    BY <2>2, <2>4
<1>14. Solvent(u)
  <2> SUFFICES ASSUME NoClawback, FeeNum <= Den, terms.lag = 0, NEW c \in Ccy,
                      \A b \in Futures : Home[b] # c
               PROVE  u.cash[c] >= 0
    BY DEF Solvent
  <2>1. t.cash[c] >= 0 /\ t.cash[c] \in Int
    BY <1>8 DEF Fine, Solvent, AccountRecords, Money
  <2> QED
    BY <1>5, <1>7, <1>9, <1>13, <2>1
<1>15. row \in RowTypes /\ row.qty = n /\ row.fee = fee /\ row.status = "filled"
  BY <1>1, <1>2 DEF Row, RowTypes, Statuses
<1> HIDE DEF row
<1>16. FillCash(l, row) = -cost
  <2>1. FillCash(l, row) = IF Leg(l).side = "buy" THEN -(Den * n * P + fee) ELSE Den * n * P - fee
    BY <1>3, <1>15 DEF FillCash, a, P
  <2>2. CASE Leg(l).side = "buy"
    BY <1>1, <1>2, <1>3, <1>4, <2>1, <2>2
  <2>3. CASE Leg(l).side # "buy"
    <3>1. Den * n * P = -(Den * delta * P)
      BY <1>1, <1>2, <1>3, <2>3
    <3> QED
      BY <1>2, <1>4, <1>7, <2>1, <2>3, <3>1
  <2> QED
    BY <2>2, <2>3
<1>17. FillUnits(l, row) = delta
  BY <1>1, <1>15 DEF FillUnits
<1>18. /\ \A c \in Ccy : u.cash[c] = t.cash[c] + (IF h = c THEN -cost ELSE 0)
       /\ \A b \in Spot : u.units[b] = t.units[b] + (IF a = b THEN delta ELSE 0)
  BY <1>7, <1>8, <1>9, <1>10 DEF AccountRecords, Money
<1>19. Effect(t, l, out)
  BY <1>9, <1>11, <1>12, <1>14, <1>15, <1>16, <1>17, <1>18 DEF Effect, Fine, a, h
<1> QED
  BY <1>19 DEF out, u, row, n, fee, delta

LEMMA SpotEffect ==
  ASSUME Shape, Clock, NEW l \in Legs, Leg(l).asset \in Spot, Leg(l).asset \in Batch,
         NEW t, Fine(t), NEW q \in Nat
  PROVE  Effect(t, l, SpotLeg(t, l, q))
<1> DEFINE delta == SpotDelta(t, l, q)
<1>1. CASE ~Affordable(t, l, delta)
  <2>1. SpotLeg(t, l, q) = Refused(t)
    BY <1>1 DEF SpotLeg
  <2> QED
    BY <2>1, IdleEffect
<1>2. CASE Affordable(t, l, delta) /\ delta = 0
  <2>1. SpotLeg(t, l, q) = NoChange(t)
    BY <1>2 DEF SpotLeg
  <2> QED
    BY <2>1, IdleEffect
<1>3. CASE Affordable(t, l, delta) /\ delta # 0
  <2>1. SpotLeg(t, l, q) = [acct |-> SpotTraded(t, l, delta),
                            row |-> Row("filled", K!AbsVal(delta), LegFee(l, delta))]
    BY <1>3 DEF SpotLeg
  <2> QED
    BY <1>3, <2>1, SpotTradedFine
<1> QED
  BY <1>1, <1>2, <1>3

LEMMA FutureFilledFine ==
  ASSUME Shape, Clock, NEW l \in Legs, Leg(l).asset \in Futures, Leg(l).asset \in Batch,
         NEW t, Fine(t), NEW delta \in Int
  PROVE  Effect(t, l, [acct |-> FutureFilled(t, l, delta),
                       row |-> Row("filled", K!AbsVal(delta), LegFee(l, delta))])
<1> DEFINE a == Leg(l).asset
           h == Home[a]
           u == FutureFilled(t, l, delta)
           fee == LegFee(l, delta)
           P == Price(l)
           row == Row("filled", K!AbsVal(delta), fee)
           out == [acct |-> u, row |-> row]
           settled == IF t.settle[a] = NA THEN P ELSE t.settle[a]
<1>1. P \in Nat /\ P > 0 /\ fee \in Nat /\ K!AbsVal(delta) \in Nat
  BY PricePositive, FeeNat DEF K!AbsVal
<1>2. a \in Asset /\ h \in Ccy /\ a \notin Spot /\ NA \notin Int /\ Bond \in Spot
      /\ Spot \subseteq Asset /\ Futures \subseteq Asset
  BY AccountAssumption, LegTypes DEF AccountAssumption, Asset
<1>3. t \in AccountRecords
  BY DEF Fine, Account
<1>4. u = [t EXCEPT !.cash = [t.cash EXCEPT ![h] = t.cash[h] - fee],
                    !.units = [t.units EXCEPT ![a] = t.units[a] + delta],
                    !.last = [t.last EXCEPT ![a] = P],
                    !.settle = [t.settle EXCEPT ![a] = settled]]
  BY <1>3 DEF FutureFilled, Traded, AccountRecords
<1>5. row \in RowTypes /\ row.qty = K!AbsVal(delta) /\ row.fee = fee /\ row.status = "filled"
  BY <1>1 DEF Row, RowTypes, Statuses
<1>6. FillCash(l, row) = -fee
  BY <1>5 DEF FillCash
<1> HIDE DEF a, h, u, fee, P, row
<1>7. settled \in Int
  BY <1>1, <1>2, <1>3 DEF AccountRecords
<1> HIDE DEF settled
<1> DEFINE cash2 == [t.cash EXCEPT ![h] = t.cash[h] - fee]
           units2 == [t.units EXCEPT ![a] = t.units[a] + delta]
           last2 == [t.last EXCEPT ![a] = P]
           settle2 == [t.settle EXCEPT ![a] = settled]
<1>8. /\ cash2 \in Money /\ units2 \in [Asset -> Int] /\ last2 \in [Asset -> Nat]
      /\ settle2 \in [Asset -> Int \cup {NA}]
      /\ \A c \in Ccy : cash2[c] = t.cash[c] + (IF h = c THEN -fee ELSE 0)
      /\ \A b \in Asset : b # a => /\ units2[b] = t.units[b] /\ last2[b] = t.last[b]
                                   /\ settle2[b] = t.settle[b]
      /\ last2[a] = P /\ settle2[a] = settled
  BY <1>1, <1>2, <1>3, <1>7 DEF AccountRecords, Money
<1> HIDE DEF cash2, units2, last2, settle2
<1>9. /\ u \in AccountRecords /\ u.unsettled = t.unsettled /\ u.accrued = t.accrued
      /\ u.cash = cash2 /\ u.units = units2 /\ u.last = last2 /\ u.settle = settle2
  BY <1>3, <1>4, <1>8 DEF AccountRecords, cash2, units2, last2, settle2
<1>10. Account(u)
  <2>1. (NoClawback => u.accrued >= 0) /\ (u.units[Bond] = 0 => u.accrued = 0)
    BY <1>2, <1>8, <1>9 DEF Fine, Account
  <2>2. \A b \in Spot : u.units[b] >= 0
    BY <1>2, <1>8, <1>9 DEF Fine, Account
  <2>3. \A b \in Asset : u.units[b] # 0 => u.last[b] > 0
    BY <1>1, <1>8, <1>9 DEF Fine, Account
  <2>4. \A b \in Futures : u.last[b] > 0 => u.settle[b] # NA
    BY <1>2, <1>7, <1>8, <1>9 DEF Fine, Account
  <2> QED
    BY <1>9, <2>1, <2>2, <2>3, <2>4 DEF Account
<1>11. Showing(u)
  <2>1. Batch \subseteq Asset
    BY DEF Batch
  <2> QED
    BY <1>1, <1>8, <1>9, <2>1 DEF Fine, Showing
<1>12. Solvent(u)
  <2>1. a \in Futures /\ h = Home[a]
    BY DEF a, h
  <2>2. \A c \in Ccy : (\A b \in Futures : Home[b] # c) => u.cash[c] = t.cash[c]
    BY <1>3, <1>8, <1>9, <2>1 DEF AccountRecords, Money
  <2> QED
    BY <2>2 DEF Fine, Solvent
<1>13. \A c \in Ccy :
        u.cash[c] = t.cash[c] + (IF Home[Leg(l).asset] = c THEN FillCash(l, row) ELSE 0)
  BY <1>6, <1>8, <1>9 DEF a, h
<1>14. \A b \in Spot : u.units[b] = t.units[b] + (IF Leg(l).asset = b THEN FillUnits(l, row) ELSE 0)
  <2>1. \A b \in Spot : b \in Asset /\ b # a /\ t.units[b] \in Int
    BY <1>2, <1>3 DEF AccountRecords
  <2> QED
    BY <1>8, <1>9, <2>1 DEF a
<1>15. Effect(t, l, out)
  BY <1>5, <1>9, <1>10, <1>11, <1>12, <1>13, <1>14 DEF Effect, Fine
<1> QED
  BY <1>15 DEF out, u, row, fee

LEMMA FutureEffect ==
  ASSUME Shape, Clock, NEW l \in Legs, Leg(l).asset \in Futures, Leg(l).asset \in Batch,
         NEW t, Fine(t), NEW q \in Nat
  PROVE  Effect(t, l, FutureLeg(t, l, q))
<1> DEFINE a == Leg(l).asset
           change == TargetUnits(l, t.units[a], q) - t.units[a]
           lots == Lots(t, l, change)
           delta == K!Sign(change) * lots
           fee == LegFee(l, change)
           filled == [acct |-> FutureFilled(t, l, delta),
                      row |-> Row("filled", lots, LegFee(l, lots))]
<1>1. FutureLeg(t, l, q) =
        IF t.cash[Home[a]] < fee THEN Refused(t)
        ELSE IF change = 0 THEN NoChange(t)
        ELSE IF lots = 0 THEN Refused(t)
        ELSE filled
  BY DEF FutureLeg
<1>2. t.units[a] \in Int
  BY LegTypes DEF Fine, Account, AccountRecords
<1>3. TargetUnits(l, t.units[a], q) \in Int
  <2>1. SideSign(Leg(l).side) \in {-1, 0, 1}
    BY DEF SideSign
  <2>2. SideSign(Leg(l).side) * q \in Int
    BY <2>1
  <2> HIDE DEF a
  <2> QED
    BY <1>2, <2>2 DEF TargetUnits
<1>4. change \in Int
  BY <1>2, <1>3
<1> HIDE DEF change
<1>5. lots \in Nat
  BY <1>4, LotsNat
<1> HIDE DEF lots
<1>6. change # 0 => delta \in Int /\ K!AbsVal(delta) = lots
  BY <1>4, <1>5 DEF K!Sign, K!AbsVal
<1>7. K!AbsVal(lots) = lots
  BY <1>5 DEF K!AbsVal
<1> HIDE DEF a, fee, delta
<1>8. CASE FutureLeg(t, l, q) \in {Refused(t), NoChange(t)}
  BY <1>8, IdleEffect
<1>9. CASE change # 0 /\ FutureLeg(t, l, q) = filled
  <2>1. Effect(t, l, [acct |-> FutureFilled(t, l, delta),
                      row |-> Row("filled", K!AbsVal(delta), LegFee(l, delta))])
    BY <1>6, <1>9, FutureFilledFine
  <2>2. LegFee(l, delta) = LegFee(l, lots)
    <3>1. LegFee(l, delta) = FeeNum * K!AbsVal(delta) * Price(l)
          /\ LegFee(l, lots) = FeeNum * K!AbsVal(lots) * Price(l)
      BY DEF LegFee
    <3>2. K!AbsVal(delta) = K!AbsVal(lots)
      BY <1>6, <1>7, <1>9
    <3> QED
      BY <3>1, <3>2
  <2>3. K!AbsVal(delta) = lots
    BY <1>6, <1>9
  <2> QED
    BY <1>9, <2>1, <2>2, <2>3
<1> HIDE DEF filled
<1> QED
  BY <1>1, <1>8, <1>9

LEMMA OutcomeEffect ==
  ASSUME Shape, Clock, NEW l \in Legs, Leg(l).asset \in Batch, NEW t, Fine(t), NEW q \in Nat
  PROVE  Effect(t, l, Outcome(t, l, q))
<1>1. Leg(l).asset \in Spot \/ (Leg(l).asset \notin Spot /\ Leg(l).asset \in Futures)
  BY LegTypes DEF Asset
<1> QED
  BY <1>1, SpotEffect, FutureEffect DEF Outcome

-----------------------------------------------------------------------------
(* The quantities the adapter sends. *)

LEMMA SellsSum ==
  ASSUME NEW T, IsFiniteSet(T), \A m \in T : (Den - FeeNum) * Leg(m).qty * Price(m) \in Int
  PROVE  MapThenSumSet(LAMBDA m : (Den - FeeNum) * Leg(m).qty * Price(m), T)
           = Sum([m \in T |-> (Den - FeeNum) * Leg(m).qty * Price(m)], T)
<1> DEFINE F == [m \in T |-> (Den - FeeNum) * Leg(m).qty * Price(m)]
           Eq(h) == h = [s \in SUBSET T |->
                          IF s = {} THEN 0
                          ELSE (Den - FeeNum) * Leg((CHOOSE x \in s : TRUE)).qty *
                                 Price((CHOOSE x \in s : TRUE))
                               + h[s \ {CHOOSE x \in s : TRUE}]]
           h == CHOOSE h : Eq(h)
<1>1. \A s \in SUBSET T : s # {} => (CHOOSE x \in s : TRUE) \in T
  OBVIOUS
<1>2. \A x \in T : F[x] = (Den - FeeNum) * Leg(x).qty * Price(x) /\ F[x] \in Int
  OBVIOUS
<1>3. MapThenSumSet(LAMBDA m : (Den - FeeNum) * Leg(m).qty * Price(m), T) = h[T]
  BY DEF MapThenSumSet, MapThenFoldSet
<1> HIDE DEF F
<1>4. PICK g : IsSum(g, F, T)
  BY <1>2, SumExists
<1>5. Eq(g)
  BY <1>1, <1>2, <1>4 DEF IsSum, AnyOf
<1>6. Eq(h)
  BY <1>5
<1> HIDE DEF h
<1>7. IsSum(h, F, T)
  BY <1>1, <1>2, <1>6 DEF IsSum, AnyOf
<1>8. Sum(F, T) = h[T]
  BY <1>7, SumIs
<1> QED
  BY <1>3, <1>8 DEF F

LEMMA AskedSum ==
  ASSUME NEW T, IsFiniteSet(T), \A m \in T : ClippedBuy(m) * UnitCost(m) \in Int
  PROVE  MapThenSumSet(LAMBDA m : ClippedBuy(m) * UnitCost(m), T)
           = Sum([m \in T |-> ClippedBuy(m) * UnitCost(m)], T)
<1> DEFINE F == [m \in T |-> ClippedBuy(m) * UnitCost(m)]
           Eq(h) == h = [s \in SUBSET T |->
                          IF s = {} THEN 0
                          ELSE ClippedBuy((CHOOSE x \in s : TRUE))
                               * UnitCost((CHOOSE x \in s : TRUE))
                               + h[s \ {CHOOSE x \in s : TRUE}]]
           h == CHOOSE h : Eq(h)
<1>1. \A s \in SUBSET T : s # {} => (CHOOSE x \in s : TRUE) \in T
  OBVIOUS
<1>2. \A x \in T : F[x] = ClippedBuy(x) * UnitCost(x) /\ F[x] \in Int
  OBVIOUS
<1>3. MapThenSumSet(LAMBDA m : ClippedBuy(m) * UnitCost(m), T) = h[T]
  BY DEF MapThenSumSet, MapThenFoldSet
<1> HIDE DEF F
<1>4. PICK g : IsSum(g, F, T)
  BY <1>2, SumExists
<1>5. Eq(g)
  BY <1>1, <1>2, <1>4 DEF IsSum, AnyOf
<1>6. Eq(h)
  BY <1>5
<1> HIDE DEF h
<1>7. IsSum(h, F, T)
  BY <1>1, <1>2, <1>6 DEF IsSum, AnyOf
<1>8. Sum(F, T) = h[T]
  BY <1>7, SumIs
<1> QED
  BY <1>3, <1>8 DEF F

(* Every agent has an account whose cash is a number. *)
Funded == \A g \in Agents : book[g].cash \in Money

LEMMA ClippedNat ==
  ASSUME Shape, Clock, Funded, NEW l \in Legs, Leg(l).asset \in Batch
  PROVE  ClippedBuy(l) \in Nat /\ UnitCost(l) \in Nat /\ UnitCost(l) > 0
<1> DEFINE cash == book[placed[l[1]].agent].cash[Home[Leg(l).asset]]
<1>1. /\ Leg(l).qty \in Nat /\ cash \in Int /\ Price(l) \in Nat /\ Price(l) > 0
      /\ Den \in Nat /\ Den > 0 /\ FeeNum \in Nat
  BY LegTypes, PricePositive, AccountAssumption DEF AccountAssumption, Funded, Money
<1> HIDE DEF cash
<1>2. UnitCost(l) = (Den + FeeNum) * Price(l)
  BY DEF UnitCost
<1>3. UnitCost(l) \in Nat /\ UnitCost(l) > 0
  <2>1. (Den + FeeNum) * Price(l) \in Nat /\ (Den + FeeNum) * Price(l) > 0
    BY <1>1
  <2> QED
    BY <1>2, <2>1
<1>4. cash \div UnitCost(l) \in Int
  BY <1>1, <1>3
<1> DEFINE c == cash \div UnitCost(l)
<1> HIDE DEF c
<1>5. Min({Leg(l).qty, c}) \in Int
  BY <1>1, <1>4, MinPair DEF c
<1>6. Max({0, Min({Leg(l).qty, c})}) \in Nat
  BY <1>5, MaxPair
<1>7. ClippedBuy(l) = IF IsBuy(l) /\ ~Leg(l).levered THEN Max({0, Min({Leg(l).qty, c})}) ELSE Leg(l).qty
  BY DEF ClippedBuy, c, cash
<1> QED
  BY <1>1, <1>3, <1>6, <1>7

LEMMA ScaledNat ==
  ASSUME NEW q \in Nat, NEW funds \in Int, NEW asked \in Nat, asked > 0
  PROVE  (q * Max({0, funds})) \div asked \in Nat
<1>1. Max({0, funds}) \in Nat
  BY MaxPair
<1> DEFINE x == q * Max({0, funds})
<1>2. x \in Nat
  BY <1>1, ProductNat
<1> HIDE DEF x
<1>3. x \div asked \in Nat
  BY <1>2
<1> QED
  BY <1>3 DEF x

LEMMA NormalQtyNat ==
  ASSUME Shape, Clock, Funded, NEW batch \in SUBSET Legs, \A m \in batch : Leg(m).asset \in Batch,
         NEW l \in batch
  PROVE  NormalQty(l, batch) \in Nat
<1> DEFINE ccy == Home[Leg(l).asset]
           peers == {m \in batch : m[1] = l[1] /\ Leg(m).asset \in Spot /\ Home[Leg(m).asset] = ccy}
           sells == {m \in peers : Leg(m).side = "sell"}
           buys == {m \in peers : IsBuy(m)}
           sold == MapThenSumSet(LAMBDA m : (Den - FeeNum) * Leg(m).qty * Price(m), sells)
           asked == MapThenSumSet(LAMBDA m : ClippedBuy(m) * UnitCost(m), buys)
           funds == book[placed[l[1]].agent].cash[ccy] + sold
<1>1. NormalQty(l, batch) = IF IsBuy(l) /\ ClippedBuy(l) > 0 /\ asked > funds
                            THEN (ClippedBuy(l) * Max({0, funds})) \div asked
                            ELSE ClippedBuy(l)
  BY DEF NormalQty
<1>2. IsFiniteSet(sells) /\ IsFiniteSet(buys)
  BY FiniteLegs, FS_Subset
<1>3. \A m \in batch : /\ ClippedBuy(m) \in Nat /\ UnitCost(m) \in Nat /\ UnitCost(m) > 0
                       /\ Leg(m).qty \in Nat /\ Price(m) \in Nat
  BY ClippedNat, LegTypes, PricePositive
<1>4. Den \in Nat /\ FeeNum \in Nat /\ book[placed[l[1]].agent].cash[ccy] \in Int
  BY AccountAssumption, LegTypes DEF AccountAssumption, Funded, Money
<1>5. \A m \in sells : (Den - FeeNum) * Leg(m).qty * Price(m) \in Int
  BY <1>3, <1>4
<1>6. \A m \in buys : ClippedBuy(m) * UnitCost(m) \in Nat
  BY <1>3, ProductNat
<1>7. IsBuy(l) => l \in buys
  BY DEF IsBuy
<1> HIDE DEF ccy, peers, sells, buys
<1>8. sold \in Int
  <2> DEFINE F == [m \in sells |-> (Den - FeeNum) * Leg(m).qty * Price(m)]
  <2>1. sold = Sum(F, sells)
    BY <1>2, <1>5, SellsSum
  <2>2. \A m \in sells : F[m] \in Int
    BY <1>5
  <2> HIDE DEF F, sold
  <2> QED
    BY <1>2, <2>1, <2>2, SumInt
<1>9. asked \in Nat /\ (IsBuy(l) /\ ClippedBuy(l) > 0 => asked > 0)
  <2> DEFINE F == [m \in buys |-> ClippedBuy(m) * UnitCost(m)]
  <2>1. asked = Sum(F, buys)
    <3>1. \A m \in buys : ClippedBuy(m) * UnitCost(m) \in Int
      BY <1>6
    <3> QED
      BY <1>2, <3>1, AskedSum
  <2>2. \A m \in buys : F[m] \in Nat
    BY <1>6
  <2>3. IsBuy(l) => F[l] = ClippedBuy(l) * UnitCost(l)
    BY <1>7
  <2> HIDE DEF F, asked
  <2>4. asked \in Nat
    BY <1>2, <2>1, <2>2, SumNat
  <2>5. ASSUME IsBuy(l), ClippedBuy(l) > 0
        PROVE  asked > 0
    <3>1. Sum(F, buys) = F[l] + Sum(F, buys \ {l})
      BY <1>2, <1>7, <2>2, <2>5, SumRemove
    <3>2. Sum(F, buys \ {l}) \in Nat
      <4>1. IsFiniteSet(buys \ {l}) /\ \A m \in buys \ {l} : F[m] \in Nat
        BY <1>2, <2>2, FS_Subset
      <4> QED
        BY <4>1, SumNat
    <3>3. F[l] \in Nat /\ F[l] > 0
      BY <1>3, <2>3, <2>5
    <3> QED
      BY <2>1, <3>1, <3>2, <3>3
  <2> QED
    BY <2>4, <2>5
<1> HIDE DEF sold, asked
<1>10. funds \in Int
  BY <1>4, <1>8
<1> HIDE DEF funds
<1>11. CASE IsBuy(l) /\ ClippedBuy(l) > 0 /\ asked > funds
  BY <1>1, <1>3, <1>9, <1>10, <1>11, ScaledNat
<1>12. CASE ~(IsBuy(l) /\ ClippedBuy(l) > 0 /\ asked > funds)
  BY <1>1, <1>3, <1>12
<1> QED
  BY <1>11, <1>12

-----------------------------------------------------------------------------
(* The account before its orders. *)

Pays(t, u, paid) ==
  /\ Account(u) /\ Solvent(u) /\ Showing(u) /\ u.unsettled = t.unsettled /\ paid \in Int
  /\ \A c \in Ccy : u.cash[c] = t.cash[c] + (IF c = Home[Bond] THEN paid ELSE 0)
  /\ \A a \in Spot : u.units[a] = t.units[a] \/ (a = Bond /\ u.units[a] = 0)

LEMMA SeededPays ==
  ASSUME Clock, NEW t, Account(t), Solvent(t)
  PROVE  Pays(t, Seeded(t), 0)
<1> DEFINE u == Seeded(t)
           fresh == {a \in Batch : t.last[a] = 0}
           last2 == [a \in Asset |-> IF a \in fresh THEN bars[a].close ELSE t.last[a]]
           settle2 == [a \in Asset |->
                         IF a \in fresh \cap Futures THEN bars[a].close ELSE t.settle[a]]
<1>1. t \in AccountRecords
  BY DEF Account
<1>2. u = [t EXCEPT !.last = last2, !.settle = settle2]
  BY <1>1 DEF Seeded, AccountRecords
<1>3. Batch \subseteq Asset /\ Futures \subseteq Asset /\ Spot \subseteq Asset /\ NA \notin Int
      /\ Bond \in Spot
  BY AccountAssumption DEF Batch, Asset, AccountAssumption
<1>4. \A a \in Batch : bars[a].close \in Nat /\ bars[a].close > 0
  BY DEF Clock
<1>5. /\ last2 \in [Asset -> Nat] /\ settle2 \in [Asset -> Int \cup {NA}]
      /\ \A a \in Batch : last2[a] > 0
      /\ \A a \in Asset : last2[a] # t.last[a] =>
           t.last[a] = 0 /\ (a \in Futures => settle2[a] # NA)
      /\ \A a \in Asset : last2[a] = t.last[a] => settle2[a] = t.settle[a]
  <2>1. t.last \in [Asset -> Nat] /\ t.settle \in [Asset -> Int \cup {NA}]
    BY <1>1 DEF AccountRecords
  <2> QED
    BY <1>3, <1>4, <2>1
<1> HIDE DEF u, last2, settle2
<1>6. /\ u \in AccountRecords /\ u.last = last2 /\ u.settle = settle2 /\ u.cash = t.cash
      /\ u.units = t.units /\ u.accrued = t.accrued /\ u.unsettled = t.unsettled
  BY <1>1, <1>2, <1>5 DEF AccountRecords
<1>7. \A a \in Asset : u.units[a] # 0 => u.last[a] > 0
  BY <1>1, <1>5, <1>6 DEF Account, AccountRecords
<1>8. \A a \in Futures : u.last[a] > 0 => u.settle[a] # NA
  BY <1>1, <1>3, <1>5, <1>6 DEF Account
<1>9. Account(u) /\ Solvent(u) /\ Showing(u)
  BY <1>5, <1>6, <1>7, <1>8 DEF Account, Solvent, Showing
<1>10. /\ \A c \in Ccy : u.cash[c] = t.cash[c] + (IF c = Home[Bond] THEN 0 ELSE 0)
       /\ \A a \in Spot : u.units[a] = t.units[a]
  BY <1>1, <1>6 DEF AccountRecords, Money
<1> QED
  BY <1>6, <1>9, <1>10 DEF Pays, u

(* What an event of the bond may do. *)
LEMMA BondPays ==
  ASSUME NEW t, Fine(t), NEW paid \in Int, NEW held \in {0, t.units[Bond]}, NEW accrued \in Int,
         NoClawback => paid >= 0 /\ accrued >= 0, held = 0 => accrued = 0
  PROVE  Pays(t, [t EXCEPT !.cash[Home[Bond]] = @ + paid, !.units[Bond] = held,
                           !.accrued = accrued], paid)
<1> DEFINE h == Home[Bond]
           cash2 == [t.cash EXCEPT ![h] = t.cash[h] + paid]
           units2 == [t.units EXCEPT ![Bond] = held]
           u == [t EXCEPT !.cash[h] = @ + paid, !.units[Bond] = held, !.accrued = accrued]
<1>1. t \in AccountRecords
  BY DEF Fine, Account
<1>2. u = [t EXCEPT !.cash = cash2, !.units = units2, !.accrued = accrued]
  BY <1>1 DEF AccountRecords
<1>3. h \in Ccy /\ Bond \in Spot /\ Bond \in Asset /\ Spot \subseteq Asset
  BY AccountAssumption DEF AccountAssumption, Asset
<1>4. /\ cash2 \in Money
      /\ \A c \in Ccy : cash2[c] = t.cash[c] + (IF c = h THEN paid ELSE 0)
  BY <1>1, <1>3 DEF AccountRecords, Money
<1>5. /\ units2 \in [Asset -> Int] /\ units2[Bond] = held
      /\ \A a \in Asset : a # Bond => units2[a] = t.units[a]
  BY <1>1, <1>3 DEF AccountRecords
<1> HIDE DEF h, cash2, units2, u
<1>6. /\ u \in AccountRecords /\ u.cash = cash2 /\ u.units = units2 /\ u.accrued = accrued
      /\ u.last = t.last /\ u.settle = t.settle /\ u.unsettled = t.unsettled
  BY <1>1, <1>2, <1>4, <1>5 DEF AccountRecords
<1>7. Account(u)
  <2>1. \A a \in Spot : u.units[a] >= 0
    BY <1>3, <1>5, <1>6 DEF Fine, Account
  <2>2. \A a \in Asset : u.units[a] # 0 => u.last[a] > 0
    BY <1>5, <1>6 DEF Fine, Account
  <2>3. \A a \in Futures : u.last[a] > 0 => u.settle[a] # NA
    BY <1>6 DEF Fine, Account
  <2> QED
    BY <1>5, <1>6, <2>1, <2>2, <2>3 DEF Account
<1>8. Solvent(u)
  <2>1. \A c \in Ccy : t.cash[c] \in Int
    BY <1>1 DEF AccountRecords, Money
  <2> QED
    BY <1>4, <1>6, <2>1 DEF Fine, Solvent
<1>9. Showing(u)
  BY <1>6 DEF Fine, Showing
<1>10. \A a \in Spot : u.units[a] = t.units[a] \/ (a = Bond /\ u.units[a] = 0)
  BY <1>3, <1>5, <1>6
<1>11. \A c \in Ccy : u.cash[c] = t.cash[c] + (IF c = Home[Bond] THEN paid ELSE 0)
  BY <1>4, <1>6 DEF h
<1> QED
  BY <1>6, <1>7, <1>8, <1>9, <1>10, <1>11 DEF Pays, u, h

LEMMA NoticePays ==
  ASSUME Clock, NEW t, Fine(t), Announced
  PROVE  Pays(t, WithNotice(t, notice).acct, WithNotice(t, notice).paid)
<1> DEFINE n == notice
           amount == t.units[Bond] * n.amount
           paid == (IF n.type = "bond_accrual" THEN 0 ELSE amount)
                   + (IF n.type = "redemption" THEN t.accrued ELSE 0)
           held == IF n.type = "redemption" THEN 0 ELSE t.units[Bond]
           accrued == IF n.type = "redemption" THEN 0
                      ELSE IF n.type = "bond_accrual" THEN t.accrued + amount ELSE t.accrued
<1>1. /\ t.units[Bond] \in Nat /\ t.accrued \in Int /\ (NoClawback => t.accrued >= 0)
      /\ t.units[Bond] = 0 => t.accrued = 0
  <2>1. Bond \in Spot /\ Bond \in Asset
    BY AccountAssumption DEF AccountAssumption, Asset
  <2> QED
    BY <2>1 DEF Fine, Account, AccountRecords
<1>2. n.amount \in Int /\ (NoClawback => n.amount >= 0)
  BY DEF Clock, Announced
<1>3. amount \in Int /\ (NoClawback => amount >= 0) /\ (t.units[Bond] = 0 => amount = 0)
  BY <1>1, <1>2
<1>4. WithNotice(t, n) =
        [paid |-> paid, acct |-> [t EXCEPT !.cash[Home[Bond]] = @ + paid, !.units[Bond] = held,
                                           !.accrued = accrued]]
  <2>1. t \in AccountRecords
    BY DEF Fine, Account
  <2> QED
    BY <2>1 DEF WithNotice, AccountRecords
<1> HIDE DEF n, amount
<1>5. /\ paid \in Int /\ held \in {0, t.units[Bond]} /\ accrued \in Int
      /\ NoClawback => paid >= 0 /\ accrued >= 0
      /\ held = 0 => accrued = 0
  BY <1>1, <1>3
<1> HIDE DEF paid, held, accrued
<1>6. Pays(t, [t EXCEPT !.cash[Home[Bond]] = @ + paid, !.units[Bond] = held,
                        !.accrued = accrued], paid)
  BY <1>5, BondPays
<1> QED
  BY <1>4, <1>6 DEF n

LEMMA CouponsNat ==
  ASSUME Clock
  PROVE  Cutoff \in Nat /\ Coupons \in Nat
<1>1. now \in Nat /\ terms.maturity \in Nat /\ schedule.next \in Nat /\ Period \in Nat /\ Period > 0
  BY AccountAssumption DEF AccountAssumption, Clock
<1>2. Cutoff \in Nat
  BY <1>1, MinPair DEF Cutoff
<1>3. ~(schedule.next > Cutoff) => (Cutoff - schedule.next) \div Period \in Nat
  BY <1>1, <1>2
<1> QED
  BY <1>2, <1>3 DEF Coupons

LEMMA SchedulePays ==
  ASSUME Clock, NEW t, Fine(t), Scheduled(t)
  PROVE  Pays(t, WithSchedule(t).acct, WithSchedule(t).paid)
<1> DEFINE b == t.units[Bond]
           begun == IF Coupons = 0 THEN cursor
                    ELSE Max({cursor, schedule.next + (Coupons - 1) * Period})
           late == Max({0, Cutoff - begun})
           accrued == (IF Coupons = 0 THEN t.accrued ELSE 0) + b * Interest * late
           repaid == IF now >= terms.maturity THEN Den * Face * b + accrued ELSE 0
           coupons == Coupons * b * Interest * Period
           paid == coupons + repaid
           held == IF now >= terms.maturity THEN 0 ELSE b
           kept == IF now >= terms.maturity THEN 0 ELSE accrued
<1>1. b \in Nat /\ b # 0 /\ t.accrued \in Int /\ (NoClawback => t.accrued >= 0)
  <2>1. Bond \in Spot /\ Bond \in Asset
    BY AccountAssumption DEF AccountAssumption, Asset
  <2> QED
    BY <2>1 DEF Fine, Account, AccountRecords, Scheduled
<1>2. /\ Interest \in Nat /\ Den \in Nat /\ Face \in Nat /\ Period \in Nat
      /\ Cutoff \in Nat /\ Coupons \in Nat /\ cursor \in Nat /\ schedule.next \in Nat
  BY CouponsNat, AccountAssumption DEF AccountAssumption, Clock, Scheduled
<1>3. WithSchedule(t) =
        [paid |-> paid, acct |-> [t EXCEPT !.cash[Home[Bond]] = @ + paid, !.units[Bond] = held,
                                           !.accrued = kept]]
  <2>1. t \in AccountRecords
    BY DEF Fine, Account
  <2> QED
    BY <2>1 DEF WithSchedule, AccountRecords
<1> HIDE DEF b
<1>4. begun \in Int
  <2>1. (Coupons - 1) * Period \in Int
    BY <1>2
  <2>2. schedule.next + (Coupons - 1) * Period \in Int
    BY <1>2, <2>1
  <2> QED
    BY <1>2, <2>2, MaxPair
<1> HIDE DEF begun
<1>5. late \in Nat
  BY <1>2, <1>4, MaxPair
<1> HIDE DEF late
<1>6. b * Interest * late \in Nat /\ Den * Face * b \in Nat /\ coupons \in Nat
  BY <1>1, <1>2, <1>5, ProductNat
<1>7. accrued \in Int /\ (NoClawback => accrued >= 0)
  BY <1>1, <1>6
<1> HIDE DEF accrued, coupons
<1>8. repaid \in Int /\ (NoClawback => repaid >= 0)
  BY <1>6, <1>7
<1> HIDE DEF repaid
<1>9. /\ paid \in Int /\ held \in {0, b} /\ kept \in Int
      /\ NoClawback => paid >= 0 /\ kept >= 0
      /\ held = 0 => kept = 0
  BY <1>1, <1>6, <1>7, <1>8
<1> HIDE DEF paid, held, kept
<1>10. Pays(t, [t EXCEPT !.cash[Home[Bond]] = @ + paid, !.units[Bond] = held,
                         !.accrued = kept], paid)
  BY <1>9, BondPays DEF b
<1> QED
  BY <1>3, <1>10

LEMMA PaysTwice ==
  ASSUME NEW t, NEW u, NEW v, NEW p, NEW q, Account(t), Pays(t, u, p), Pays(u, v, q)
  PROVE  Pays(t, v, p + q)
<1>1. p \in Int /\ q \in Int /\ \A c \in Ccy : t.cash[c] \in Int
  BY DEF Pays, Account, AccountRecords, Money
<1>2. \A c \in Ccy : v.cash[c] = t.cash[c] + (IF c = Home[Bond] THEN p + q ELSE 0)
  <2> SUFFICES ASSUME NEW c \in Ccy
               PROVE  v.cash[c] = t.cash[c] + (IF c = Home[Bond] THEN p + q ELSE 0)
    OBVIOUS
  <2>1. u.cash[c] = t.cash[c] + (IF c = Home[Bond] THEN p ELSE 0)
    BY DEF Pays
  <2>2. v.cash[c] = u.cash[c] + (IF c = Home[Bond] THEN q ELSE 0)
    BY DEF Pays
  <2> QED
    BY <1>1, <2>1, <2>2
<1>3. \A a \in Spot : v.units[a] = t.units[a] \/ (a = Bond /\ v.units[a] = 0)
  BY DEF Pays
<1> QED
  BY <1>1, <1>2, <1>3 DEF Pays

LEMMA BeforeOrdersPays ==
  ASSUME Clock, NEW t, Account(t), Solvent(t)
  PROVE  Pays(t, BeforeOrders(t).acct, BeforeOrders(t).paid)
<1> DEFINE s == Seeded(t)
           n == IF Announced THEN WithNotice(s, notice) ELSE [acct |-> s, paid |-> 0]
           b == IF Scheduled(n.acct) THEN WithSchedule(n.acct) ELSE [acct |-> n.acct, paid |-> 0]
<1>1. BeforeOrders(t).acct = b.acct /\ BeforeOrders(t).paid = n.paid + b.paid
  BY DEF BeforeOrders
<1>2. ASSUME NEW u, Fine(u)
      PROVE  Pays(u, u, 0)
  <2>1. u \in AccountRecords
    BY <1>2 DEF Fine, Account
  <2>2. \A c \in Ccy : u.cash[c] = u.cash[c] + (IF c = Home[Bond] THEN 0 ELSE 0)
    BY <2>1 DEF AccountRecords, Money
  <2> QED
    BY <1>2, <2>2 DEF Pays, Fine
<1>3. Pays(t, s, 0) /\ Fine(s)
  BY SeededPays DEF Pays, Fine
<1> HIDE DEF s
<1>4. Pays(s, n.acct, n.paid)
  BY <1>2, <1>3, NoticePays
<1>5. Fine(n.acct)
  BY <1>4 DEF Pays, Fine
<1> HIDE DEF n
<1>6. Pays(n.acct, b.acct, b.paid)
  BY <1>2, <1>5, SchedulePays
<1> HIDE DEF b
<1>7. Pays(t, n.acct, 0 + n.paid)
  BY <1>3, <1>4, PaysTwice
<1>8. 0 + n.paid = n.paid
  BY <1>4 DEF Pays
<1>9. Pays(t, b.acct, n.paid + b.paid)
  BY <1>6, <1>7, <1>8, PaysTwice
<1> QED
  BY <1>1, <1>9

-----------------------------------------------------------------------------
(* What is marked, held back and committed at the end of a call. *)

LEMMA CostSum ==
  ASSUME NEW t, NEW T, IsFiniteSet(T), \A a \in T : Funding(t, a) - Variation(t, a) \in Int
  PROVE  MapThenSumSet(LAMBDA a : Funding(t, a) - Variation(t, a), T)
           = Sum([a \in T |-> Funding(t, a) - Variation(t, a)], T)
<1> DEFINE F == [a \in T |-> Funding(t, a) - Variation(t, a)]
           Eq(h) == h = [s \in SUBSET T |->
                          IF s = {} THEN 0
                          ELSE Funding(t, (CHOOSE x \in s : TRUE))
                               - Variation(t, (CHOOSE x \in s : TRUE))
                               + h[s \ {CHOOSE x \in s : TRUE}]]
           h == CHOOSE h : Eq(h)
<1>1. \A s \in SUBSET T : s # {} => (CHOOSE x \in s : TRUE) \in T
  OBVIOUS
<1>2. \A x \in T : F[x] = Funding(t, x) - Variation(t, x) /\ F[x] \in Int
  OBVIOUS
<1>3. MapThenSumSet(LAMBDA a : Funding(t, a) - Variation(t, a), T) = h[T]
  BY DEF MapThenSumSet, MapThenFoldSet
<1> HIDE DEF F
<1>4. PICK g : IsSum(g, F, T)
  BY <1>2, SumExists
<1>5. Eq(g)
  BY <1>1, <1>2, <1>4 DEF IsSum, AnyOf
<1>6. Eq(h)
  BY <1>5
<1> HIDE DEF h
<1>7. IsSum(h, F, T)
  BY <1>1, <1>2, <1>6 DEF IsSum, AnyOf
<1>8. Sum(F, T) = h[T]
  BY <1>7, SumIs
<1> QED
  BY <1>3, <1>8 DEF F

LEMMA ProceedsSum ==
  ASSUME NEW T, IsFiniteSet(T), \A l \in T : Proceeds(l) \in Int
  PROVE  MapThenSumSet(Proceeds, T) = Sum([l \in T |-> Proceeds(l)], T)
<1> DEFINE F == [l \in T |-> Proceeds(l)]
           Eq(h) == h = [s \in SUBSET T |->
                          IF s = {} THEN 0
                          ELSE Proceeds((CHOOSE x \in s : TRUE))
                               + h[s \ {CHOOSE x \in s : TRUE}]]
           h == CHOOSE h : Eq(h)
<1>1. \A s \in SUBSET T : s # {} => (CHOOSE x \in s : TRUE) \in T
  OBVIOUS
<1>2. \A x \in T : F[x] = Proceeds(x) /\ F[x] \in Int
  OBVIOUS
<1>3. MapThenSumSet(Proceeds, T) = h[T]
  BY DEF MapThenSumSet, MapThenFoldSet
<1> HIDE DEF F
<1>4. PICK g : IsSum(g, F, T)
  BY <1>2, SumExists
<1>5. Eq(g)
  BY <1>1, <1>2, <1>4 DEF IsSum, AnyOf
<1>6. Eq(h)
  BY <1>5
<1> HIDE DEF h
<1>7. IsSum(h, F, T)
  BY <1>1, <1>2, <1>6 DEF IsSum, AnyOf
<1>8. Sum(F, T) = h[T]
  BY <1>7, SumIs
<1> QED
  BY <1>3, <1>8 DEF F

LEMMA LedgerSum ==
  ASSUME NEW T, IsFiniteSet(T), \A l \in T : LedgerRow(l) \in Int
  PROVE  MapThenSumSet(LedgerRow, T) = Sum([l \in T |-> LedgerRow(l)], T)
<1> DEFINE F == [l \in T |-> LedgerRow(l)]
           Eq(h) == h = [s \in SUBSET T |->
                          IF s = {} THEN 0
                          ELSE LedgerRow((CHOOSE x \in s : TRUE))
                               + h[s \ {CHOOSE x \in s : TRUE}]]
           h == CHOOSE h : Eq(h)
<1>1. \A s \in SUBSET T : s # {} => (CHOOSE x \in s : TRUE) \in T
  OBVIOUS
<1>2. \A x \in T : F[x] = LedgerRow(x) /\ F[x] \in Int
  OBVIOUS
<1>3. MapThenSumSet(LedgerRow, T) = h[T]
  BY DEF MapThenSumSet, MapThenFoldSet
<1> HIDE DEF F
<1>4. PICK g : IsSum(g, F, T)
  BY <1>2, SumExists
<1>5. Eq(g)
  BY <1>1, <1>2, <1>4 DEF IsSum, AnyOf
<1>6. Eq(h)
  BY <1>5
<1> HIDE DEF h
<1>7. IsSum(h, F, T)
  BY <1>1, <1>2, <1>6 DEF IsSum, AnyOf
<1>8. Sum(F, T) = h[T]
  BY <1>7, SumIs
<1> QED
  BY <1>3, <1>8 DEF F

LEMMA MarkCostInt ==
  ASSUME Clock, NEW t, Account(t), Showing(t), NEW c
  PROVE  MarkCost(t, c) \in Int /\ ((\A a \in Futures : Home[a] # c) => MarkCost(t, c) = 0)
<1> DEFINE T == {a \in Futures \cap Batch : Home[a] = c}
           G == [a \in T |-> Funding(t, a) - Variation(t, a)]
<1>1. IsFiniteSet(T)
  BY AccountAssumption, FS_Subset DEF AccountAssumption
<1>2. ASSUME NEW a \in T
      PROVE  Funding(t, a) - Variation(t, a) \in Int
  <2>1. /\ a \in Futures /\ a \in Batch /\ a \in Asset /\ t \in AccountRecords
        /\ FundNum \in Nat /\ Den \in Nat /\ now \in Int /\ bars[a].close \in Int
    BY AccountAssumption DEF AccountAssumption, Account, Clock, Asset
  <2>2. t.settle[a] \in Int /\ t.units[a] \in Int /\ t.last[a] \in Nat
        /\ t.since[a] \in Int \cup {NA}
    BY <2>1 DEF Account, Showing, AccountRecords
  <2>3. t.units[a] * t.last[a] \in Int
    BY <2>2
  <2>4. K!AbsVal(t.units[a] * t.last[a]) \in Int
    BY <2>3 DEF K!AbsVal
  <2>5. Funding(t, a) \in Int
    BY <2>1, <2>2, <2>4 DEF Funding
  <2>6. Variation(t, a) \in Int
    BY <2>1, <2>2 DEF Variation
  <2> QED
    BY <2>5, <2>6
<1>3. MarkCost(t, c) = MapThenSumSet(LAMBDA a : Funding(t, a) - Variation(t, a), T)
  BY DEF MarkCost
<1>4. \A a \in T : G[a] \in Int
  BY <1>2
<1>5. (\A a \in Futures : Home[a] # c) => T = {}
  OBVIOUS
<1> HIDE DEF T
<1>6. MarkCost(t, c) = Sum(G, T)
  BY <1>1, <1>2, <1>3, CostSum
<1> HIDE DEF G
<1>7. Sum(G, T) \in Int
  BY <1>1, <1>4, SumInt
<1>8. T = {} => Sum(G, T) = 0
  BY SumEmpty
<1> QED
  BY <1>5, <1>6, <1>7, <1>8

(* What is known of a call whose legs have all been answered. *)
Answering ==
  Shape /\ Clock /\ CallShape /\ CallRows /\ Fine(call.acct)

LEMMA ProceedsInt ==
  ASSUME Answering, NEW l \in Answered
  PROVE  /\ l \in Legs /\ Leg(l).asset \in Batch /\ call.rows[l] \in RowTypes
         /\ Proceeds(l) \in Int /\ FillCash(l, call.rows[l]) \in Int
         /\ Proceeds(l) = Den * call.rows[l].qty * Price(l) - call.rows[l].fee
         /\ LedgerRow(l) \in Int /\ FillUnits(l, call.rows[l]) \in Int
<1>1. l \in Legs /\ Leg(l).asset \in Batch /\ call.rows[l] \in RowTypes
  BY DEF Answering, CallShape, CallRows, Touched, RowTypes
<1>2. call.rows[l].qty \in Nat /\ call.rows[l].fee \in Nat /\ Price(l) \in Nat /\ Den \in Nat
  BY <1>1, PricePositive, AccountAssumption DEF AccountAssumption, Answering, RowTypes
<1>3. Den * call.rows[l].qty * Price(l) \in Int
  BY <1>2
<1>4. Proceeds(l) = Den * call.rows[l].qty * Price(l) - call.rows[l].fee
  BY DEF Proceeds
<1>5. Proceeds(l) \in Int /\ FillCash(l, call.rows[l]) \in Int /\ FillUnits(l, call.rows[l]) \in Int
  BY <1>2, <1>3, <1>4 DEF FillCash, FillUnits
<1>6. LedgerRow(l) \in Int
  BY <1>2, <1>3, <1>5 DEF LedgerRow
<1> QED
  BY <1>1, <1>4, <1>5, <1>6

LEMMA FiniteAnswers ==
  ASSUME Shape, CallShape
  PROVE  IsFiniteSet(Answered) /\ IsFiniteSet(Legs)
<1>1. IsFiniteSet(Legs) /\ Answered \subseteq Legs
  BY FiniteLegs DEF CallShape, Touched
<1> QED
  BY <1>1, FS_Subset

Receipts == [l \in Answered |-> Proceeds(l)]

LEMMA HeldBackIs ==
  ASSUME Answering, NEW c
  PROVE  /\ OnHold(c) \subseteq Answered /\ IsFiniteSet(OnHold(c))
         /\ HeldBack(c) = Sum(Receipts, OnHold(c))
         /\ HeldBack(c) \in Int
         /\ terms.lag = 0 => HeldBack(c) = 0
<1> DEFINE T == OnHold(c)
           G == [l \in T |-> Proceeds(l)]
<1>1. T \subseteq Answered /\ (terms.lag = 0 => T = {})
  BY DEF OnHold, Filled, Answered
<1>2. IsFiniteSet(T)
  BY <1>1, FiniteAnswers, FS_Subset DEF Answering
<1>3. \A l \in T : Proceeds(l) \in Int
  BY <1>1, ProceedsInt
<1>4. HeldBack(c) = MapThenSumSet(Proceeds, T)
  BY DEF HeldBack
<1> HIDE DEF T
<1>5. HeldBack(c) = Sum(G, T)
  BY <1>2, <1>3, <1>4, ProceedsSum
<1>6. \A l \in T : G[l] \in Int /\ G[l] = Receipts[l]
  BY <1>1, <1>3 DEF Receipts
<1> HIDE DEF G
<1>7. Sum(G, T) = Sum(Receipts, T)
  BY <1>2, <1>6, SumSame
<1>8. Sum(G, T) \in Int
  BY <1>2, <1>6, SumInt
<1>9. T = {} => Sum(G, T) = 0
  BY SumEmpty
<1> QED
  BY <1>1, <1>2, <1>5, <1>7, <1>8, <1>9 DEF T

LEMMA CommittedFine ==
  ASSUME Answering
  PROVE  /\ Account(Committed) /\ Solvent(Committed)
         /\ Committed.units = call.acct.units
         /\ \A c \in Ccy :
              /\ Committed.cash[c] = call.acct.cash[c] - MarkCost(call.acct, c) - HeldBack(c)
              /\ Committed.unsettled[c] = call.acct.unsettled[c] + HeldBack(c)
<1> DEFINE t == call.acct
           cash2 == [c \in Ccy |-> t.cash[c] - MarkCost(t, c)]
           last2 == [a \in Asset |-> IF a \in Batch THEN bars[a].close ELSE t.last[a]]
           settle2 == [a \in Asset |->
                         IF a \in Futures \cap Batch THEN bars[a].close ELSE t.settle[a]]
           since2 == [a \in Asset |-> IF a \in Futures \cap Batch THEN now ELSE t.since[a]]
           u == Marked(t)
           cash3 == [c \in Ccy |-> u.cash[c] - HeldBack(c)]
           unsettled3 == [c \in Ccy |-> u.unsettled[c] + HeldBack(c)]
<1>1. /\ Clock /\ t \in AccountRecords /\ Account(t) /\ Showing(t) /\ Solvent(t)
      /\ Batch \subseteq Asset /\ Futures \subseteq Asset /\ NA \notin Int
      /\ \A a \in Batch : bars[a].close \in Nat /\ bars[a].close > 0
  BY AccountAssumption DEF Answering, Fine, Account, Batch, Asset, AccountAssumption, Clock
<1>2. \A c \in Ccy : /\ MarkCost(t, c) \in Int /\ HeldBack(c) \in Int
                     /\ (\A a \in Futures : Home[a] # c) => MarkCost(t, c) = 0
                     /\ terms.lag = 0 => HeldBack(c) = 0
  BY <1>1, MarkCostInt, HeldBackIs
<1>3. u = [t EXCEPT !.cash = cash2, !.last = last2, !.settle = settle2, !.since = since2]
  BY <1>1 DEF Marked, AccountRecords
<1> HIDE DEF u
<1>4. /\ cash2 \in Money /\ last2 \in [Asset -> Nat] /\ settle2 \in [Asset -> Int \cup {NA}]
      /\ since2 \in [Asset -> Int \cup {NA}]
  <2>1. now \in Int
    BY <1>1 DEF Clock
  <2> QED
    BY <1>1, <1>2, <2>1 DEF AccountRecords, Money
<1>5. /\ u \in AccountRecords /\ u.cash = cash2 /\ u.last = last2 /\ u.settle = settle2
      /\ u.units = t.units /\ u.accrued = t.accrued /\ u.unsettled = t.unsettled
  <2> HIDE DEF t, cash2, last2, settle2, since2
  <2> QED
    BY <1>1, <1>3, <1>4 DEF AccountRecords
<1>6. Account(u)
  <2>1. \A a \in Asset : u.units[a] # 0 => u.last[a] > 0
    BY <1>1, <1>5 DEF Account
  <2>2. \A a \in Futures : u.last[a] > 0 => u.settle[a] # NA
    BY <1>1, <1>5 DEF Account
  <2> QED
    BY <1>1, <1>5, <2>1, <2>2 DEF Account
<1>7. /\ cash3 \in Money /\ unsettled3 \in Money
      /\ \A c \in Ccy : cash3[c] = t.cash[c] - MarkCost(t, c) - HeldBack(c)
      /\ \A c \in Ccy : unsettled3[c] = t.unsettled[c] + HeldBack(c)
  BY <1>1, <1>2, <1>5 DEF AccountRecords, Money
<1> DEFINE v == Committed
<1>8. v = [u EXCEPT !.cash = cash3, !.unsettled = unsettled3]
  BY <1>5 DEF Committed, u, AccountRecords
<1> HIDE DEF v, t, cash2, last2, settle2, since2
<1>9. /\ v \in AccountRecords /\ v.cash = cash3 /\ v.unsettled = unsettled3 /\ v.units = u.units
      /\ v.last = u.last /\ v.settle = u.settle /\ v.accrued = u.accrued
  <2> HIDE DEF cash3, unsettled3
  <2> QED
    BY <1>5, <1>7, <1>8 DEF AccountRecords
<1>10. Account(v)
  BY <1>6, <1>9 DEF Account
<1>11. Solvent(v)
  <2> SUFFICES ASSUME NoClawback, FeeNum <= Den, terms.lag = 0, NEW c \in Ccy,
                      \A b \in Futures : Home[b] # c
               PROVE  v.cash[c] >= 0
    BY DEF Solvent
  <2>1. t.cash[c] >= 0 /\ t.cash[c] \in Int
    BY <1>1 DEF Solvent, AccountRecords, Money
  <2>2. v.cash[c] = t.cash[c] - MarkCost(t, c) - HeldBack(c)
    BY <1>7, <1>9
  <2> QED
    BY <1>2, <2>1, <2>2
<1> QED
  BY <1>5, <1>7, <1>9, <1>10, <1>11 DEF v, t

LEMMA JudgedFine ==
  ASSUME NEW t, Account(t), Solvent(t)
  PROVE  /\ Account(Judged(t)) /\ Solvent(Judged(t)) /\ Judged(t).units = t.units
         /\ Survives(t) => Judged(t) = t
<1> DEFINE zero == [c \in Ccy |-> 0]
           u == [t EXCEPT !.cash = zero, !.unsettled = zero]
<1>1. t \in AccountRecords /\ zero \in Money /\ \A c \in Ccy : zero[c] = 0
  BY DEF Account, Money
<1> HIDE DEF zero
<1>2. /\ u \in AccountRecords /\ u.cash = zero /\ u.units = t.units
      /\ u.last = t.last /\ u.settle = t.settle /\ u.accrued = t.accrued
  BY <1>1 DEF AccountRecords
<1>3. Judged(t) = IF Survives(t) THEN t ELSE u
  BY DEF Judged, zero
<1> HIDE DEF u
<1>4. Account(u)
  BY <1>2 DEF Account
<1>5. Solvent(u)
  BY <1>1, <1>2 DEF Solvent
<1> QED
  BY <1>2, <1>3, <1>4, <1>5

-----------------------------------------------------------------------------
(* What the sums over legs keep. *)

LEMMA ExplainKept ==
  ASSUME NEW legs, NEW more, legs \subseteq more, IsFiniteSet(more),
         NEW t, NEW b, NEW paid, NEW bought, NEW F, NEW F2, NEW U, NEW U2,
         \A c \in Ccy : \A l \in legs : F[c][l] \in Int /\ F2[c][l] = F[c][l],
         \A a \in Spot : \A l \in legs : U[a][l] \in Int /\ U2[a][l] = U[a][l],
         \A c \in Ccy : \A l \in more \ legs : F2[c][l] = 0,
         \A a \in Spot : \A l \in more \ legs : U2[a][l] = 0,
         Explain(t, legs, b, paid, F, U, bought)
  PROVE  Explain(t, more, b, paid, F2, U2, bought)
<1>1. IsFiniteSet(legs)
  BY FS_Subset
<1>2. ASSUME NEW f, NEW f2, \A l \in legs : f[l] \in Int /\ f2[l] = f[l],
             \A l \in more \ legs : f2[l] = 0
      PROVE  Sum(f2, more) = Sum(f, legs)
  <2>1. Sum(f2, more) = Sum(f2, legs)
    BY <1>2, SumSub
  <2>2. Sum(f, legs) = Sum(f2, legs)
    BY <1>1, <1>2, SumSame
  <2> QED
    BY <2>1, <2>2
<1>3. \A c \in Ccy : Sum(F2[c], more) = Sum(F[c], legs)
  BY <1>2
<1>4. \A a \in Spot : Sum(U2[a], more) = Sum(U[a], legs)
  BY <1>2
<1> QED
  BY <1>3, <1>4 DEF Explain

LEMMA SumMore ==
  ASSUME NEW legs, IsFiniteSet(legs), NEW l, l \notin legs, NEW f, NEW f2,
         \A m \in legs : f[m] \in Int /\ f2[m] = f[m], f2[l] \in Int
  PROVE  Sum(f2, legs \cup {l}) = Sum(f, legs) + f2[l] /\ Sum(f, legs) \in Int
<1>1. Sum(f2, legs \cup {l}) = Sum(f2, legs) + f2[l]
  BY SumAdd
<1>2. Sum(f, legs) = Sum(f2, legs) /\ Sum(f, legs) \in Int
  BY SumSame, SumInt
<1> QED
  BY <1>1, <1>2

(* The flows G of the keys in S are F and a number for one more leg. *)
Extends(G, F, S, legs, l) ==
  \A k \in S : /\ \A m \in legs : F[k][m] \in Int /\ G[k][m] = F[k][m]
               /\ G[k][l] \in Int

LEMMA ExtendsSum ==
  ASSUME NEW legs, IsFiniteSet(legs), NEW l, l \notin legs, NEW S, NEW F, NEW G,
         Extends(G, F, S, legs, l), NEW k \in S
  PROVE  /\ Sum(G[k], legs \cup {l}) = Sum(F[k], legs) + G[k][l]
         /\ Sum(F[k], legs) \in Int /\ G[k][l] \in Int
<1> DEFINE f == F[k]
           g == G[k]
<1>1. \A m \in legs : f[m] \in Int /\ g[m] = f[m]
  BY DEF Extends
<1>2. g[l] \in Int
  BY DEF Extends
<1> HIDE DEF f, g
<1>3. Sum(g, legs \cup {l}) = Sum(f, legs) + g[l]
  BY <1>1, <1>2, SumMore
<1>4. Sum(f, legs) \in Int
  BY <1>1, SumInt
<1> QED
  BY <1>2, <1>3, <1>4 DEF f, g

(* One more leg is answered, and the account follows. *)
LEMMA ExplainMore ==
  ASSUME NEW legs, IsFiniteSet(legs), NEW l, l \notin legs,
         NEW t, NEW u, NEW b, NEW paid, NEW bought, NEW F, NEW F2, NEW U, NEW U2,
         Extends(F2, F, Ccy, legs, l), Extends(U2, U, Spot, legs, l),
         \A c \in Ccy : u.cash[c] = t.cash[c] + F2[c][l] /\ b.cash[c] \in Int,
         \A a \in Spot : /\ u.units[a] = t.units[a] + U2[a][l]
                         /\ t.units[a] \in Int /\ bought[a] \in Int,
         paid \in Int, u.unsettled = t.unsettled, Explain(t, legs, b, paid, F, U, bought)
  PROVE  Explain(u, legs \cup {l}, b, paid, F2, U2, bought)
<1>1. ASSUME NEW c \in Ccy
      PROVE  u.cash[c] = b.cash[c] + (IF c = Home[Bond] THEN paid ELSE 0)
                         + Sum(F2[c], legs \cup {l})
  <2>1. t.cash[c] = b.cash[c] + (IF c = Home[Bond] THEN paid ELSE 0) + Sum(F[c], legs)
    BY DEF Explain
  <2>2. /\ Sum(F2[c], legs \cup {l}) = Sum(F[c], legs) + F2[c][l]
        /\ Sum(F[c], legs) \in Int /\ F2[c][l] \in Int
    BY ExtendsSum
  <2>3. u.cash[c] = t.cash[c] + F2[c][l] /\ b.cash[c] \in Int
    OBVIOUS
  <2> QED
    BY <2>1, <2>2, <2>3
<1>2. ASSUME NEW a \in Spot
      PROVE  Covers(u.units[a], bought[a] + Sum(U2[a], legs \cup {l}), a)
  <2>1. Covers(t.units[a], bought[a] + Sum(U[a], legs), a)
    BY DEF Explain
  <2>2. /\ Sum(U2[a], legs \cup {l}) = Sum(U[a], legs) + U2[a][l]
        /\ Sum(U[a], legs) \in Int /\ U2[a][l] \in Int
    BY ExtendsSum
  <2>3. u.units[a] = t.units[a] + U2[a][l] /\ bought[a] \in Int /\ t.units[a] \in Int
    OBVIOUS
  <2> QED
    BY <2>1, <2>2, <2>3 DEF Covers
<1> QED
  BY <1>1, <1>2 DEF Explain

LEMMA BoughtInt ==
  ASSUME Shape, Fates, NEW g, NEW a
  PROVE  Bought(g, a) \in Int
<1>1. Orders(g, a) \subseteq Legs /\ IsFiniteSet(Orders(g, a))
  BY FiniteLegs, FS_Subset DEF Orders
<1>2. \A l \in Orders(g, a) : BoughtOf[l] \in Int
  BY <1>1 DEF BoughtOf, Fates
<1> QED
  BY <1>1, <1>2, SumInt DEF Bought

-----------------------------------------------------------------------------
(* What only the orders, the accounts and the clock say is kept by the     *)
(* steps of a call.                                                        *)

LEMMA SameOrders ==
  ASSUME UNCHANGED <<placed, fate>>
  PROVE  /\ Legs' = Legs /\ BoughtOf' = BoughtOf
         /\ \A l : Leg(l)' = Leg(l) /\ Answer(l)' = Answer(l)
         /\ \A g, a : Orders(g, a)' = Orders(g, a) /\ Bought(g, a)' = Bought(g, a)
         /\ \A g : SoldFlat(g)' = SoldFlat(g)
<1>1. Legs' = Legs
  BY DEF Legs
<1>2. \A l : Leg(l)' = Leg(l) /\ Answer(l)' = Answer(l)
  BY DEF Leg, Answer
<1>3. BoughtOf' = BoughtOf
  BY <1>1, <1>2 DEF BoughtOf, Leg, Answer
<1>4. \A g, a : Orders(g, a)' = Orders(g, a)
  BY <1>1 DEF Orders, Leg, Answer
<1>5. \A g : SoldFlat(g)' = SoldFlat(g)
  BY <1>1 DEF SoldFlat, Leg, Answer
<1>6. \A g, a : Bought(g, a)' = Bought(g, a)
  BY <1>3, <1>4, Zenon DEF Bought
<1> QED
  BY <1>1, <1>2, <1>3, <1>4, <1>5, <1>6

LEMMA SameAccounts ==
  ASSUME Accounts, UNCHANGED <<terms, placed, fate, book, settlements, ledger, ruined>>
  PROVE  Accounts'
<1>1. \A g, c : PendingOf(g, c)' = PendingOf(g, c)
  BY DEF PendingOf
<1>2. Amounts' = Amounts
  BY DEF Amounts
<1> QED
  BY <1>1, <1>2, SameOrders DEF Accounts, Solvent

LEMMA SameWorld ==
  ASSUME World,
         UNCHANGED <<terms, now, bars, todo, stage, placed, fate, settlements, schedule, cursor,
                     notice, ruined>>,
         call' # NA => stage = "agents"
  PROVE  World'
<1>1. Shape'
  BY DEF World, Shape
<1>2. Batch' = Batch
  BY DEF Batch
<1>3. Printing' /\ Clock'
  BY <1>2 DEF World, Printing, Clock
<1>4. Fates' /\ Pending'
  BY SameOrders DEF World, Fates, Pending
<1> QED
  BY <1>1, <1>3, <1>4 DEF World

(* The steps inside a call leave all but the call as it is. *)
LEMMA QuietWorld ==
  ASSUME World, Accounts, Quiet, call # NA, UNCHANGED terms
  PROVE  World' /\ Accounts' /\ Legs' = Legs /\ Batch' = Batch
<1>1. stage = "agents"
  BY DEF World, Printing
<1>2. UNCHANGED <<terms, now, bars, todo, stage, placed, fate, book, settlements, schedule, cursor,
                  notice, ledger, ruined>>
  BY DEF Quiet
<1>3. World'
  BY <1>1, <1>2, SameWorld
<1>4. Accounts'
  BY <1>2, SameAccounts
<1>5. Legs' = Legs /\ Batch' = Batch
  BY <1>2 DEF Legs, Batch
<1> QED
  BY <1>3, <1>4, <1>5

LEMMA FlowsInt ==
  ASSUME Answering, NEW l \in Answered
  PROVE  /\ \A c \in Ccy : CashFlows[c][l] \in Int
         /\ \A a \in Spot : UnitFlows[a][l] \in Int
<1>1. FillCash(l, call.rows[l]) \in Int /\ FillUnits(l, call.rows[l]) \in Int
  BY ProceedsInt
<1> QED
  BY <1>1 DEF CashFlows, UnitFlows

(* Rows that stay as they are give what they gave. *)
LEMMA FlowsKept ==
  ASSUME UNCHANGED <<placed, bars>>, NEW l \in Answered, l \in Answered',
         call'.rows[l] = call.rows[l]
  PROVE  /\ \A c \in Ccy : CashFlows'[c][l] = CashFlows[c][l]
         /\ \A a \in Spot : UnitFlows'[a][l] = UnitFlows[a][l]
<1>1. Leg(l)' = Leg(l) /\ Price(l)' = Price(l) /\ IsFilled(l)' = IsFilled(l)
  BY DEF Leg, Price, IsFilled
<1>2. FillCash(l, call.rows[l])' = FillCash(l, call.rows[l])
  BY DEF FillCash, Leg, Price
<1>3. FillUnits(l, call.rows[l])' = FillUnits(l, call.rows[l])
  BY DEF FillUnits, Leg
<1>4. \A c \in Ccy : CashFlows'[c][l] = CashFlows[c][l]
  BY <1>1, <1>2 DEF CashFlows
<1>5. \A a \in Spot : UnitFlows'[a][l] = UnitFlows[a][l]
  BY <1>1, <1>3 DEF UnitFlows
<1> QED
  BY <1>4, <1>5

(* Rows that are no fill give nothing. *)
LEMMA FlowsIdle ==
  ASSUME NEW l \in Answered', call'.rows[l].status # "filled"
  PROVE  /\ \A c \in Ccy : CashFlows'[c][l] = 0
         /\ \A a \in Spot : UnitFlows'[a][l] = 0
BY DEF CashFlows, UnitFlows, IsFilled

LEMMA LedgerAnswering ==
  ASSUME LedgerInv, call # NA
  PROVE  Answering /\ CallFrame /\ CallMoney /\ World /\ Accounts
BY DEF LedgerInv, Answering, World, CallFrame, CallMoney

(* Answers that execute nothing leave an explained account explained. *)
LEMMA ExplainsUnexecuted ==
  ASSUME Answering, UNCHANGED <<placed, fate, bars, book, call.agent, call.paid>>,
         NEW legs \in SUBSET Answered, NEW more, more \subseteq Answered',
         legs \subseteq more, IsFiniteSet(more),
         \A l \in legs : call'.rows[l] = call.rows[l],
         \A l \in more \ legs : call'.rows[l].status # "filled",
         NEW t, Explains(t, legs)
  PROVE  Explain(t, more, book'[call'.agent], call'.paid, CashFlows', UnitFlows',
                 BoughtBy(call.agent)')
<1>1. \A c \in Ccy : \A l \in legs : CashFlows[c][l] \in Int /\ CashFlows'[c][l] = CashFlows[c][l]
  BY FlowsInt, FlowsKept
<1>2. \A a \in Spot : \A l \in legs : UnitFlows[a][l] \in Int /\ UnitFlows'[a][l] = UnitFlows[a][l]
  BY FlowsInt, FlowsKept
<1>3. \A c \in Ccy : \A l \in more \ legs : CashFlows'[c][l] = 0
  BY FlowsIdle
<1>4. \A a \in Spot : \A l \in more \ legs : UnitFlows'[a][l] = 0
  BY FlowsIdle
<1>5. BoughtBy(call.agent)' = BoughtBy(call.agent)
  BY SameOrders DEF BoughtBy
<1>6. Explain(t, legs, book[call.agent], call.paid, CashFlows, UnitFlows, BoughtBy(call.agent))
  BY DEF Explains
<1> DEFINE F == CashFlows
           F2 == CashFlows'
           U == UnitFlows
           U2 == UnitFlows'
           b == book[call.agent]
           bought == BoughtBy(call.agent)
           paid == call.paid
<1> HIDE DEF F, F2, U, U2, b, bought, paid
<1>7. Explain(t, more, b, paid, F2, U2, bought)
  BY <1>1, <1>2, <1>3, <1>4, <1>6, ExplainKept DEF F, F2, U, U2, b, bought, paid
<1> QED
  BY <1>5, <1>7 DEF F2, U2, b, bought, paid

(* How a call goes on: the accounts of the rows are those of before.       *)
LEMMA OpenGroupLedger ==
  ASSUME LedgerInv, NEW l \in Legs, OpenGroup(l), UNCHANGED terms
  PROVE  LedgerInv'
<1>1. Quiet /\ call # NA /\ IsNext(l) /\ l[1] # call.open
  BY DEF OpenGroup
<1>2. Answering /\ CallFrame /\ CallMoney /\ World /\ Accounts
  BY <1>1, LedgerAnswering
<1>3. CallShape /\ OneOpen /\ Owned /\ CallRows /\ Shape
  BY <1>2 DEF CallFrame, Answering
<1>4. World' /\ Accounts' /\ Legs' = Legs /\ Batch' = Batch
  BY <1>1, <1>2, QuietWorld
<1>5. UNCHANGED <<placed, fate, bars, book>>
  BY <1>1 DEF Quiet
<1>6. /\ DOMAIN call' = CallFields /\ call'.open = l[1] /\ call'.saved = call.acct
      /\ UNCHANGED <<call.agent, call.acct, call.todo, call.qty, call.rows, call.paid>>
  BY <1>3 DEF OpenGroup, CallShape, CallFields
<1>7. /\ \A r \in Answered : r[1] # l[1]
      /\ \A m \in call.todo : m[1] # call.open /\ m[1] >= l[1] /\ l[1] \in Int
  BY <1>1, <1>3, FreshGroup, NextIsFirst
<1>8. Answered' = Answered /\ Touched' = Touched /\ Earlier' = Answered
  BY <1>6, <1>7 DEF Answered, Touched, Earlier
<1>9. CallShape'
  BY <1>1, <1>3, <1>4, <1>6, <1>7, <1>8 DEF CallShape, IsNext
<1>10. OneOpen' /\ Owned'
  <2>1. OneOpen'
    BY <1>3, <1>6, <1>7, <1>8 DEF OneOpen
  <2>2. Owned'
    BY <1>3, <1>5, <1>6, <1>8 DEF Owned
  <2> QED
    BY <2>1, <2>2
<1>11. CallRows'
  BY <1>3, <1>4, <1>5, <1>6, <1>8 DEF CallRows, Answer, Leg
<1>12. Fine(call.acct)' /\ Fine(call.saved)'
  BY <1>2, <1>4, <1>6 DEF CallMoney, Fine, Solvent, Showing
<1>13. IsFiniteSet(Answered)
  BY <1>3, FiniteAnswers
<1>14. Explain(call.acct, Answered, book'[call'.agent], call'.paid, CashFlows', UnitFlows',
               BoughtBy(call.agent)')
  BY <1>2, <1>5, <1>6, <1>8, <1>13, ExplainsUnexecuted DEF CallMoney
<1>15. CallMoney'
  BY <1>6, <1>8, <1>12, <1>14 DEF CallMoney, Explains
<1> QED
  BY <1>4, <1>9, <1>10, <1>11, <1>15 DEF LedgerInv, CallFrame

LEMMA SkipGroupLedger ==
  ASSUME LedgerInv, NEW l \in Legs, SkipGroup(l), UNCHANGED terms
  PROVE  LedgerInv'
<1>1. Quiet /\ call # NA /\ IsNext(l) /\ l[1] # call.open
  BY DEF SkipGroup
<1>2. Answering /\ CallFrame /\ CallMoney /\ World /\ Accounts
  BY <1>1, LedgerAnswering
<1>3. CallShape /\ OneOpen /\ Owned /\ CallRows /\ Shape
  BY <1>2 DEF CallFrame, Answering
<1>4. World' /\ Accounts' /\ Legs' = Legs /\ Batch' = Batch
  BY <1>1, <1>2, QuietWorld
<1>5. UNCHANGED <<placed, fate, bars, book>>
  BY <1>1 DEF Quiet
<1>6. PICK status \in {"accepted", "rejected", "cancelled"} :
        call' = [call EXCEPT !.rows = Unexecuted(Peers(l), status), !.todo = @ \ Peers(l)]
  BY DEF SkipGroup
<1>7. /\ DOMAIN call' = CallFields /\ call'.todo = call.todo \ Peers(l)
      /\ call'.rows = Unexecuted(Peers(l), status)
      /\ UNCHANGED <<call.agent, call.acct, call.saved, call.open, call.qty, call.paid>>
  BY <1>3, <1>6 DEF CallShape, CallFields
<1>8. /\ Peers(l) \subseteq call.todo /\ \A m \in Peers(l) : m[1] = l[1]
      /\ Peers(l) \cap Answered = {}
  BY <1>3, PeersOfGroup DEF Owned
<1>9. /\ Answered' = Answered \cup Peers(l)
      /\ \A r \in Answered : call'.rows[r] = call.rows[r]
      /\ \A r \in Peers(l) : call'.rows[r] = Row(status, 0, 0)
  BY <1>7, <1>8 DEF Unexecuted, Answered
<1>10. Row(status, 0, 0) \in RowTypes /\ Row(status, 0, 0).status # "filled"
  BY DEF Row, RowTypes, Statuses
<1>11. Touched' = Touched
  BY <1>7, <1>8, <1>9 DEF Touched
<1>12. CallShape' /\ Owned'
  BY <1>3, <1>4, <1>5, <1>7, <1>8, <1>9, <1>11 DEF CallShape, Owned
<1>13. OneOpen'
  <2> SUFFICES ASSUME NEW r \in Answered', NEW m \in call'.todo, r[1] = m[1]
               PROVE  r[1] = call'.open /\ call'.rows[r].status \in {"filled", "no_op"}
    BY DEF OneOpen
  <2>1. m \in call.todo /\ m[1] # l[1]
    BY <1>7, PeersOfGroup
  <2>2. r \in Answered /\ call'.rows[r] = call.rows[r]
    BY <1>8, <1>9, <2>1
  <2> QED
    BY <1>3, <1>7, <2>1, <2>2 DEF OneOpen
<1>14. CallRows'
  <2>1. \A r \in Answered' : call'.rows[r] \in RowTypes
    BY <1>3, <1>9, <1>10 DEF CallRows, RowTypes
  <2> QED
    BY <1>3, <1>4, <1>5, <1>7, <1>11, <2>1 DEF CallRows, Answer, Leg, RowTypes
<1>15. Fine(call.acct)' /\ Fine(call.saved)'
  BY <1>2, <1>4, <1>7 DEF CallMoney, Fine, Solvent, Showing
<1>16. IsFiniteSet(Answered')
  <2>1. Answered' \subseteq Legs /\ IsFiniteSet(Legs)
    BY <1>3, <1>8, <1>9, FiniteAnswers DEF CallShape, Touched
  <2> QED
    BY <2>1, FS_Subset
<1>17. Explain(call.acct, Answered', book'[call'.agent], call'.paid, CashFlows', UnitFlows',
               BoughtBy(call.agent)')
  <2>1. \A r \in Answered' \ Answered : call'.rows[r].status # "filled"
    BY <1>9, <1>10
  <2> QED
    BY <1>2, <1>5, <1>7, <1>9, <1>16, <2>1, ExplainsUnexecuted DEF CallMoney
<1>18. Explain(call.saved, Earlier', book'[call'.agent], call'.paid, CashFlows', UnitFlows',
               BoughtBy(call.agent)')
  <2>1. Earlier \subseteq Earlier' /\ Earlier' \subseteq Answered' /\ Earlier \subseteq Answered
    BY <1>7, <1>9 DEF Earlier
  <2>2. IsFiniteSet(Earlier')
    BY <1>16, <2>1, FS_Subset
  <2>3. \A r \in Earlier' \ Earlier : call'.rows[r].status # "filled"
    BY <1>7, <1>9, <1>10 DEF Earlier
  <2>4. \A r \in Earlier : call'.rows[r] = call.rows[r]
    BY <1>9, <2>1
  <2> QED
    BY <1>2, <1>5, <1>7, <2>1, <2>2, <2>3, <2>4, ExplainsUnexecuted DEF CallMoney
<1>19. CallMoney'
  BY <1>7, <1>15, <1>17, <1>18 DEF CallMoney, Explains
<1> QED
  BY <1>4, <1>12, <1>13, <1>14, <1>19 DEF LedgerInv, CallFrame

LEMMA RollBackLedger ==
  ASSUME LedgerInv, NEW l \in Legs, RollBack(l), UNCHANGED terms
  PROVE  LedgerInv'
<1>1. Quiet /\ call # NA /\ IsNext(l) /\ l[1] = call.open
  BY DEF RollBack
<1>2. Answering /\ CallFrame /\ CallMoney /\ World /\ Accounts
  BY <1>1, LedgerAnswering
<1>3. CallShape /\ OneOpen /\ Owned /\ CallRows /\ Shape
  BY <1>2 DEF CallFrame, Answering
<1>4. World' /\ Accounts' /\ Legs' = Legs /\ Batch' = Batch
  BY <1>1, <1>2, QuietWorld
<1>5. UNCHANGED <<placed, fate, bars, book>>
  BY <1>1 DEF Quiet
<1> DEFINE group == Peers(l) \cup {m \in Answered : m[1] = l[1]}
<1>6. /\ DOMAIN call' = CallFields /\ call'.todo = call.todo \ group
      /\ call'.rows = Unexecuted(group, "rejected") /\ call'.acct = call.saved
      /\ UNCHANGED <<call.agent, call.saved, call.open, call.qty, call.paid>>
  BY <1>3 DEF RollBack, CallShape, CallFields, Answered
<1>7. /\ group \subseteq Touched /\ \A m \in Touched : m \in group <=> m[1] = call.open
  BY <1>1, PeersOfGroup DEF Touched
<1> HIDE DEF group
<1>8. /\ Answered' = Answered \cup group
      /\ \A r \in Answered \ group : call'.rows[r] = call.rows[r]
      /\ \A r \in group : call'.rows[r] = Row("rejected", 0, 0)
  BY <1>6 DEF Unexecuted, Answered
<1>9. Row("rejected", 0, 0) \in RowTypes /\ Row("rejected", 0, 0).status # "filled"
  BY DEF Row, RowTypes, Statuses
<1>10. Touched' = Touched
  BY <1>6, <1>7, <1>8 DEF Touched
<1>11. CallShape' /\ Owned'
  BY <1>3, <1>4, <1>5, <1>6, <1>8, <1>10 DEF CallShape, Owned
<1>12. \A m \in call'.todo : m[1] # call.open /\ m \in call.todo
  BY <1>6, <1>7 DEF Touched
<1>13. Earlier' = Earlier /\ Earlier = Answered \ group /\ Earlier \subseteq Answered'
  BY <1>6, <1>7, <1>8 DEF Earlier, Touched
<1>14. OneOpen'
  BY <1>3, <1>6, <1>8, <1>12, <1>13 DEF OneOpen, Earlier
<1>15. CallRows'
  <2>1. \A r \in Answered' : call'.rows[r] \in RowTypes
    BY <1>3, <1>8, <1>9 DEF CallRows, RowTypes
  <2> QED
    BY <1>3, <1>4, <1>5, <1>6, <1>10, <2>1 DEF CallRows, Answer, Leg, RowTypes
<1>16. Fine(call.acct)' /\ Fine(call.saved)'
  BY <1>2, <1>4, <1>6 DEF CallMoney, Fine, Solvent, Showing
<1>17. IsFiniteSet(Answered') /\ IsFiniteSet(Earlier)
  <2>1. Answered' \subseteq Legs /\ IsFiniteSet(Legs)
    BY <1>3, <1>7, <1>8, FiniteAnswers DEF CallShape, Touched
  <2> QED
    BY <1>13, <2>1, FS_Subset
<1>18. \A r \in Earlier : call'.rows[r] = call.rows[r]
  BY <1>8, <1>13
<1>19. Explain(call.saved, Answered', book'[call'.agent], call'.paid, CashFlows', UnitFlows',
               BoughtBy(call.agent)')
  <2>1. \A r \in Answered' \ Earlier : call'.rows[r].status # "filled"
    BY <1>8, <1>9, <1>13
  <2>2. Earlier \in SUBSET Answered /\ Earlier \subseteq Answered'
    BY <1>13
  <2> QED
    BY <1>2, <1>5, <1>6, <1>17, <1>18, <2>1, <2>2, ExplainsUnexecuted DEF CallMoney
<1>20. Explain(call.saved, Earlier', book'[call'.agent], call'.paid, CashFlows', UnitFlows',
               BoughtBy(call.agent)')
  BY <1>2, <1>5, <1>6, <1>13, <1>17, <1>18, ExplainsUnexecuted DEF CallMoney
<1>21. CallMoney'
  BY <1>6, <1>16, <1>19, <1>20 DEF CallMoney, Explains
<1> QED
  BY <1>4, <1>11, <1>14, <1>15, <1>21 DEF LedgerInv, CallFrame

LEMMA FillInt ==
  ASSUME Shape, Clock, NEW l \in Legs, Leg(l).asset \in Batch, NEW row \in RowTypes
  PROVE  FillCash(l, row) \in Int /\ FillUnits(l, row) \in Int
<1>1. row.qty \in Nat /\ row.fee \in Nat /\ Price(l) \in Nat /\ Den \in Nat
  BY PricePositive, AccountAssumption DEF AccountAssumption, RowTypes
<1>2. Den * row.qty * Price(l) \in Int
  BY <1>1
<1> QED
  BY <1>1, <1>2 DEF FillCash, FillUnits

(* A leg that is not refused moves the account by its row.                 *)
LEMMA ExecuteLegLedger ==
  ASSUME LedgerInv, NEW l \in Legs, ExecuteLeg(l), UNCHANGED terms
  PROVE  LedgerInv'
<1>1. Quiet /\ call # NA /\ l \in call.todo /\ l[1] = call.open
  BY DEF ExecuteLeg, IsNext
<1>2. Answering /\ CallFrame /\ CallMoney /\ World /\ Accounts
  BY <1>1, LedgerAnswering
<1>3. CallShape /\ OneOpen /\ Owned /\ CallRows /\ Shape /\ Clock
  BY <1>2 DEF CallFrame, Answering
<1>4. World' /\ Accounts' /\ Legs' = Legs /\ Batch' = Batch
  BY <1>1, <1>2, QuietWorld
<1>5. UNCHANGED <<placed, fate, bars, book>>
  BY <1>1 DEF Quiet
<1> DEFINE out == Outcome(call.acct, l, call.qty[l])
           t == call.acct
<1>6. Leg(l).asset \in Batch /\ call.qty[l] \in Nat /\ l \notin Answered
  BY <1>1, <1>3 DEF CallRows, Owned, Touched
<1>7. Effect(t, l, out)
  BY <1>2, <1>3, <1>6, OutcomeEffect DEF CallMoney
<1>8. out.row.status \in {"filled", "no_op"}
  BY Answers DEF ExecuteLeg
<1>9. /\ DOMAIN call' = CallFields /\ call'.todo = call.todo \ {l} /\ call'.acct = out.acct
      /\ call'.rows = [m \in Answered \cup {l} |-> IF m = l THEN out.row ELSE call.rows[m]]
      /\ UNCHANGED <<call.agent, call.saved, call.open, call.qty, call.paid>>
  BY <1>3 DEF ExecuteLeg, CallShape, CallFields, Answered
<1> HIDE DEF out, t
<1>10. /\ Answered' = Answered \cup {l} /\ call'.rows[l] = out.row
       /\ \A r \in Answered : call'.rows[r] = call.rows[r]
  BY <1>6, <1>9 DEF Answered
<1>11. Touched' = Touched
  BY <1>1, <1>9, <1>10 DEF Touched
<1>12. CallShape' /\ Owned'
  BY <1>3, <1>4, <1>5, <1>9, <1>10, <1>11 DEF CallShape, Owned
<1>13. OneOpen'
  BY <1>1, <1>3, <1>8, <1>9, <1>10 DEF OneOpen
<1>14. CallRows'
  <2>1. \A r \in Answered' : call'.rows[r] \in RowTypes
    BY <1>3, <1>7, <1>10 DEF CallRows, RowTypes, Effect
  <2> QED
    BY <1>3, <1>4, <1>5, <1>9, <1>11, <2>1 DEF CallRows, Answer, Leg, RowTypes
<1>15. Fine(call.acct)' /\ Fine(call.saved)'
  BY <1>2, <1>4, <1>7, <1>9 DEF CallMoney, Fine, Solvent, Showing, Effect
<1>16. IsFiniteSet(Answered) /\ IsFiniteSet(Earlier)
  <2>1. IsFiniteSet(Answered) /\ Earlier \subseteq Answered
    BY <1>3, FiniteAnswers DEF Earlier
  <2> QED
    BY <2>1, FS_Subset
<1>17. Explain(call.saved, Earlier', book'[call'.agent], call'.paid, CashFlows', UnitFlows',
               BoughtBy(call.agent)')
  <2>1. Earlier' = Earlier /\ Earlier \in SUBSET Answered /\ Earlier \subseteq Answered'
        /\ \A r \in Earlier : call'.rows[r] = call.rows[r]
    BY <1>1, <1>9, <1>10 DEF Earlier
  <2> QED
    BY <1>2, <1>5, <1>9, <1>16, <2>1, ExplainsUnexecuted DEF CallMoney
<1> DEFINE row == out.row
           F == CashFlows
           F2 == CashFlows'
           U == UnitFlows
           U2 == UnitFlows'
           b == book[call.agent]
           bought == BoughtBy(call.agent)
<1>18. row \in RowTypes /\ FillCash(l, row) \in Int /\ FillUnits(l, row) \in Int
  <2>1. row \in RowTypes
    BY <1>7 DEF Effect
  <2> HIDE DEF row
  <2> QED
    BY <1>3, <1>6, <2>1, FillInt
<1>19. /\ \A c \in Ccy : F2[c][l] = IF row.status = "filled" /\ Home[Leg(l).asset] = c
                                    THEN FillCash(l, row) ELSE 0
       /\ \A a \in Spot : U2[a][l] = IF row.status = "filled" /\ Leg(l).asset = a
                                     THEN FillUnits(l, row) ELSE 0
  <2>1. Leg(l)' = Leg(l) /\ Price(l)' = Price(l) /\ call'.rows[l] = row
    BY <1>5, <1>10 DEF Leg, Price
  <2>2. FillCash(l, call.rows[l])' = FillCash(l, row)
    BY <2>1 DEF FillCash
  <2>3. FillUnits(l, call.rows[l])' = FillUnits(l, row)
    BY <2>1 DEF FillUnits
  <2>4. l \in Answered' /\ (IsFilled(l)' <=> row.status = "filled")
    BY <1>10 DEF IsFilled
  <2>5. \A c \in Ccy : F2[c][l] = IF IsFilled(l)' /\ Home[Leg(l)'.asset] = c
                                  THEN FillCash(l, call.rows[l])' ELSE 0
    BY <2>4 DEF CashFlows
  <2>6. \A a \in Spot : U2[a][l] = IF IsFilled(l)' /\ Leg(l)'.asset = a
                                   THEN FillUnits(l, call.rows[l])' ELSE 0
    BY <2>4 DEF UnitFlows
  <2> HIDE DEF row, F2, U2
  <2> QED
    BY <2>1, <2>2, <2>3, <2>4, <2>5, <2>6
<1>20. Explain(t, Answered, b, call.paid, F, U, bought)
  BY <1>2 DEF CallMoney, Explains, t
<1>21. /\ \A c \in Ccy : \A m \in Answered : F[c][m] \in Int /\ F2[c][m] = F[c][m]
       /\ \A a \in Spot : \A m \in Answered : U[a][m] \in Int /\ U2[a][m] = U[a][m]
  BY <1>2, <1>5, <1>10, FlowsInt, FlowsKept
<1>22. BoughtBy(call.agent)' = bought /\ \A a \in Spot : bought[a] \in Int
  <2>1. Fates
    BY <1>2 DEF World
  <2> QED
    BY <1>3, <1>5, <1>9, <2>1, SameOrders, BoughtInt DEF BoughtBy
<1>23. \A c \in Ccy : b.cash[c] \in Int
  BY <1>2, <1>3 DEF Accounts, Account, AccountRecords, Money, Owned
<1>24. /\ \A a \in Spot : t.units[a] \in Int
       /\ \A c \in Ccy : t.cash[c] \in Int
  <2>1. Spot \subseteq Asset
    BY DEF Asset
  <2> QED
    BY <1>2, <2>1 DEF CallMoney, Fine, Account, AccountRecords, Money, t
<1> HIDE DEF row, F, F2, U, U2, b, bought
<1>25. Extends(F2, F, Ccy, Answered, l) /\ Extends(U2, U, Spot, Answered, l)
  BY <1>18, <1>19, <1>21 DEF Extends
<1> DEFINE u == out.acct
<1>26. /\ u.unsettled = t.unsettled
       /\ \A c \in Ccy : u.cash[c] = t.cash[c] + F2[c][l]
       /\ \A a \in Spot : u.units[a] = t.units[a] + U2[a][l]
  BY <1>7, <1>19, <1>24 DEF Effect, row
<1> HIDE DEF u
<1>27. call.paid \in Int
  BY <1>3 DEF CallRows
<1>28. Explain(u, Answered \cup {l}, b, call.paid, F2, U2, bought)
  BY <1>6, <1>16, <1>20, <1>22, <1>23, <1>24, <1>25, <1>26, <1>27, ExplainMore
<1>29. CallMoney'
  BY <1>5, <1>9, <1>10, <1>15, <1>17, <1>22, <1>28 DEF CallMoney, Explains, F2, U2, b, u
<1> QED
  BY <1>4, <1>12, <1>13, <1>14, <1>29 DEF LedgerInv, CallFrame

(* The accounts the calls start from. *)
LEMMA BeginCallLedger ==
  ASSUME LedgerInv, NEW agent \in Agents, BeginCall(agent), UNCHANGED terms
  PROVE  LedgerInv'
<1> DEFINE start == BeforeOrders(book[agent])
           u == start.acct
           batch == Accepted(agent)
<1>1. World /\ Accounts /\ Shape /\ Clock /\ stage = "agents" /\ call = NA
  BY DEF LedgerInv, World, BeginCall
<1>2. /\ UNCHANGED <<terms, now, bars, stage, placed, fate, book, settlements, schedule, notice,
                     ledger, ruined>>
      /\ todo' = todo \ {agent}
      /\ cursor' = IF start.accrues THEN Max({cursor, Cutoff}) ELSE cursor
  BY DEF BeginCall
<1>3. /\ DOMAIN call' = CallFields /\ call'.agent = agent /\ call'.acct = u /\ call'.saved = u
      /\ call'.open = 0 /\ call'.todo = batch /\ DOMAIN call'.rows = {}
      /\ call'.qty = [l \in batch |-> NormalQty(l, batch)] /\ call'.paid = start.paid
  BY DEF BeginCall, CallFields
<1>4. Pays(book[agent], u, start.paid)
  BY <1>1, BeforeOrdersPays DEF Accounts
<1>5. start.accrues => cursor # NA
  BY DEF BeforeOrders, Scheduled
<1> HIDE DEF start, u
<1>6. Answered' = {} /\ Touched' = batch /\ Earlier' = {}
  BY <1>3 DEF Answered, Touched, Earlier
<1>7. Legs' = Legs /\ Batch' = Batch /\ Shape'
  BY <1>1, <1>2 DEF Legs, Batch, Shape
<1>8. Clock'
  <2>1. start.accrues => Max({cursor, Cutoff}) \in Nat
    <3>1. Cutoff \in Nat
      BY <1>1, CouponsNat
    <3>2. cursor # NA => cursor \in Nat
      BY <1>1 DEF Clock
    <3> QED
      BY <1>5, <3>1, <3>2, MaxPair
  <2> QED
    BY <1>1, <1>2, <1>7, <2>1 DEF Clock
<1>9. Printing' /\ Fates' /\ Pending' /\ Accounts'
  BY <1>1, <1>2, <1>7, SameOrders, SameAccounts DEF World, Printing, Fates, Pending
<1>10. \A l \in batch : /\ l \in Legs /\ placed[l[1]].agent = agent
                        /\ Answer(l).status = "accepted" /\ Leg(l).asset \in Batch
  BY DEF Accepted, Answer
<1>11. \A l \in batch : l[1] >= 0
  BY <1>1, <1>10, LegsOf, GroupNumbers
<1>12. CallShape' /\ OneOpen' /\ Owned'
  BY <1>2, <1>3, <1>6, <1>7, <1>10, <1>11 DEF CallShape, OneOpen, Owned
<1>13. \A l \in batch : NormalQty(l, batch) \in Nat
  <2>1. Funded
    BY <1>1 DEF Funded, Accounts, Account, AccountRecords
  <2>2. batch \in SUBSET Legs /\ \A l \in batch : Leg(l).asset \in Batch
    BY <1>10
  <2> HIDE DEF batch
  <2> QED
    BY <1>1, <2>1, <2>2, NormalQtyNat
<1>14. CallRows'
  <2>1. start.paid \in Int
    BY <1>4 DEF Pays
  <2> HIDE DEF batch
  <2> QED
    BY <1>2, <1>3, <1>6, <1>7, <1>10, <1>13, <2>1 DEF CallRows, Answer, Leg
<1>15. Fine(call.acct)' /\ Fine(call.saved)'
  BY <1>2, <1>3, <1>4, <1>7 DEF Fine, Solvent, Showing, Pays
<1>16. Explain(u, {}, book[agent], start.paid, CashFlows', UnitFlows', BoughtBy(agent))
  <2>1. /\ \A c \in Ccy : Sum(CashFlows'[c], {}) = 0
        /\ \A a \in Spot : Sum(UnitFlows'[a], {}) = 0
    BY SumEmpty
  <2>2. Account(book[agent]) /\ \A a \in Spot : Covers(book[agent].units[a], Bought(agent, a), a)
    BY <1>1 DEF Accounts
  <2>3. /\ \A c \in Ccy : book[agent].cash[c] \in Int
        /\ \A a \in Spot : book[agent].units[a] \in Int /\ book[agent].units[a] >= 0
    BY <2>2 DEF Account, AccountRecords, Money, Asset
  <2>4. \A a \in Spot : Bought(agent, a) \in Int
    BY <1>1, BoughtInt DEF World
  <2>5. start.paid \in Int
    BY <1>4 DEF Pays
  <2>6. ASSUME NEW a \in Spot
        PROVE  Covers(u.units[a], BoughtBy(agent)[a] + Sum(UnitFlows'[a], {}), a)
    <3>1. BoughtBy(agent)[a] = Bought(agent, a)
      BY DEF BoughtBy
    <3>2. u.units[a] = book[agent].units[a] \/ (a = Bond /\ u.units[a] = 0)
      BY <1>4 DEF Pays
    <3> QED
      BY <2>1, <2>2, <2>3, <2>4, <3>1, <3>2 DEF Covers
  <2>7. ASSUME NEW c \in Ccy
        PROVE  u.cash[c] = book[agent].cash[c] + (IF c = Home[Bond] THEN start.paid ELSE 0)
                           + Sum(CashFlows'[c], {})
    BY <1>4, <2>1, <2>3, <2>5 DEF Pays
  <2> QED
    BY <1>4, <2>6, <2>7 DEF Explain, Pays
<1>17. BoughtBy(agent)' = BoughtBy(agent)
  BY <1>2, SameOrders DEF BoughtBy
<1>18. CallMoney'
  BY <1>2, <1>3, <1>6, <1>15, <1>16, <1>17 DEF CallMoney, Explains, BoughtBy
<1> QED
  BY <1>7, <1>8, <1>9, <1>12, <1>14, <1>18 DEF LedgerInv, World, CallFrame

-----------------------------------------------------------------------------
(* What happens between the calls. *)

LEMMA AnnounceLedger ==
  ASSUME LedgerInv, NEW n \in Notices, Announce(n), UNCHANGED terms
  PROVE  LedgerInv'
<1>1. /\ UNCHANGED <<terms, now, bars, todo, stage, placed, fate, book, settlements, schedule,
                     cursor, call, ledger, ruined>>
      /\ notice' = [type |-> n.type, amount |-> n.amount, applied |-> FALSE]
      /\ World /\ Accounts /\ stage = "between"
  BY DEF Announce, LedgerInv
<1>2. call = NA
  BY <1>1 DEF World, Printing
<1>3. Clock'
  BY <1>1, AccountAssumption DEF World, Clock, Batch, NoClawback, AccountAssumption
<1>4. Shape' /\ Printing' /\ Fates' /\ Pending' /\ Accounts'
  BY <1>1, SameOrders, SameAccounts DEF World, Shape, Printing, Fates, Pending, Batch
<1> QED
  BY <1>1, <1>2, <1>3, <1>4 DEF LedgerInv, World

LEMMA EndBoundaryLedger ==
  ASSUME LedgerInv, EndBoundary, UNCHANGED terms
  PROVE  LedgerInv'
<1>1. /\ UNCHANGED <<terms, now, todo, placed, fate, book, settlements, call, ledger, ruined>>
      /\ call = NA /\ stage' = "between" /\ cursor' = NA
      /\ World /\ Accounts
  BY DEF EndBoundary, LedgerInv
<1>2. Batch' = {}
  BY DEF EndBoundary, Batch
<1>3. notice' # NA => notice # NA /\ notice'.amount = notice.amount
  <2>1. notice' # NA => notice # NA /\ notice'.amount = notice.amount
    BY DEF EndBoundary, Announced
  <2> QED
    BY <2>1
<1>4. schedule'.last \in Nat /\ schedule'.next \in Nat
  <2>1. Cutoff \in Nat /\ Coupons \in Nat /\ Period \in Nat
    BY <1>1, CouponsNat, AccountAssumption DEF World, AccountAssumption
  <2>2. Coupons * Period \in Nat
    BY <2>1, ProductNat
  <2> QED
    BY <1>1, <2>1, <2>2 DEF EndBoundary, World, Clock
<1>5. Clock'
  BY <1>1, <1>2, <1>3, <1>4 DEF World, Clock
<1>6. Shape' /\ Printing' /\ Fates' /\ Pending' /\ Accounts'
  BY <1>1, SameOrders, SameAccounts DEF World, Shape, Printing, Fates, Pending
<1> QED
  BY <1>1, <1>5, <1>6 DEF LedgerInv, World

LEMMA SubmitShape ==
  ASSUME Shape, NEW r \in Requests, Submit(r)
  PROVE  /\ Shape' /\ DOMAIN placed \subseteq DOMAIN placed'
         /\ \A g \in DOMAIN placed : placed'[g] = placed[g] /\ fate'[g] = fate[g]
         /\ \A g \in DOMAIN placed' \ DOMAIN placed : \A k \in DOMAIN fate'[g] :
              fate'[g][k] = NoRow
<1> DEFINE row == [k \in DOMAIN r.legs |-> NoRow]
           n == Len(placed)
<1>1. placed' = Append(placed, r) /\ fate' = Append(fate, row)
  BY DEF Submit
<1>2. /\ IsSeq(placed) /\ IsSeq(fate) /\ DOMAIN fate = DOMAIN placed
      /\ DOMAIN placed = 1 .. n /\ n \in Nat
      /\ DOMAIN fate = 1 .. Len(fate) /\ Len(fate) \in Nat
  BY SeqLength DEF Shape
<1>3. Len(fate) = n
  BY <1>2
<1> HIDE DEF n
<1>4. /\ IsSeq(placed') /\ DOMAIN placed' = 1 .. n + 1
      /\ \A g \in DOMAIN placed : placed'[g] = placed[g]
      /\ placed'[n + 1] = r
  BY <1>1, <1>2, AppendAny DEF n
<1>5. /\ IsSeq(fate') /\ DOMAIN fate' = 1 .. n + 1
      /\ \A g \in DOMAIN fate : fate'[g] = fate[g]
      /\ fate'[n + 1] = row
  BY <1>1, <1>2, <1>3, AppendAny
<1>6. \A g \in DOMAIN placed' : g \in DOMAIN placed \/ g = n + 1
  BY <1>2, <1>4
<1>7. IsSeq(placed)' /\ IsSeq(fate)'
  BY <1>4, <1>5 DEF IsSeq
<1>8. DOMAIN row = DOMAIN r.legs /\ \A k \in DOMAIN row : row[k] = NoRow
  OBVIOUS
<1> HIDE DEF row
<1>9. ASSUME NEW g \in DOMAIN placed'
      PROVE  placed'[g] \in Requests /\ DOMAIN fate'[g] = DOMAIN placed'[g].legs
  <2>1. CASE g \in DOMAIN placed
    BY <1>2, <1>4, <1>5, <2>1 DEF Shape
  <2>2. CASE g = n + 1
    BY <1>4, <1>5, <1>8, <2>2
  <2> QED
    BY <1>6, <2>1, <2>2
<1>10. Shape'
  BY <1>4, <1>5, <1>7, <1>9 DEF Shape
<1>11. DOMAIN placed \subseteq DOMAIN placed'
  BY <1>2, <1>4
<1> QED
  BY <1>2, <1>4, <1>5, <1>6, <1>8, <1>10, <1>11

(* New orders wait: what was bought stays what it was.                     *)
LEMMA SubmitOrders ==
  ASSUME Shape, Fates, NEW r \in Requests, Submit(r)
  PROVE  /\ Legs \subseteq Legs'
         /\ \A l \in Legs : Leg(l)' = Leg(l) /\ Answer(l)' = Answer(l)
                           /\ placed'[l[1]] = placed[l[1]]
         /\ \A l \in Legs' \ Legs : Answer(l)' = NoRow
         /\ \A g, a : Orders(g, a)' = Orders(g, a) /\ Bought(g, a)' = Bought(g, a)
<1>1. /\ Shape' /\ DOMAIN placed \subseteq DOMAIN placed'
      /\ \A g \in DOMAIN placed : placed'[g] = placed[g] /\ fate'[g] = fate[g]
      /\ \A g \in DOMAIN placed' \ DOMAIN placed : \A k \in DOMAIN fate'[g] :
           fate'[g][k] = NoRow
  BY SubmitShape
<1>2. /\ Legs \subseteq Legs'
      /\ \A l \in Legs : Leg(l)' = Leg(l) /\ Answer(l)' = Answer(l)
                        /\ placed'[l[1]] = placed[l[1]]
  BY <1>1, LegsOf DEF Legs, Leg, Answer
<1>3. \A l \in Legs' \ Legs : Answer(l)' = NoRow
  <2> SUFFICES ASSUME NEW l \in Legs', l \notin Legs
               PROVE  Answer(l)' = NoRow
    OBVIOUS
  <2>1. l = <<l[1], l[2]>> /\ l[1] \in DOMAIN placed' /\ l[2] \in DOMAIN placed'[l[1]].legs
    BY DEF Legs
  <2>2. l[1] \notin DOMAIN placed
    BY <1>1, <2>1 DEF Legs
  <2>3. l[2] \in DOMAIN fate'[l[1]]
    BY <1>1, <2>1 DEF Shape
  <2> QED
    BY <1>1, <2>1, <2>2, <2>3 DEF Answer
<1>4. ASSUME NEW g, NEW a
      PROVE  Orders(g, a)' = Orders(g, a) /\ Bought(g, a)' = Bought(g, a)
  <2>1. Orders(g, a)' = Orders(g, a)
    BY <1>2, <1>3 DEF Orders, NoRow
  <2>2. IsFiniteSet(Orders(g, a)) /\ Orders(g, a) \subseteq Legs
    BY FiniteLegs, FS_Subset DEF Orders
  <2>3. \A l \in Orders(g, a) : BoughtOf[l] \in Int /\ BoughtOf[l] = BoughtOf'[l]
    BY <1>2, <2>2 DEF BoughtOf, Fates
  <2>4. Sum(BoughtOf, Orders(g, a)) = Sum(BoughtOf', Orders(g, a))
    BY <2>2, <2>3, SumSame
  <2> QED
    BY <2>1, <2>4 DEF Bought
<1> QED
  BY <1>2, <1>3, <1>4

LEMMA SubmitLedger ==
  ASSUME LedgerInv, NEW r \in Requests, Submit(r), UNCHANGED terms
  PROVE  LedgerInv'
<1>1. /\ UNCHANGED <<terms, now, bars, todo, stage, book, settlements, schedule, cursor, notice,
                     call, ledger, ruined>>
      /\ World /\ Accounts /\ stage = "between"
  BY DEF Submit, LedgerInv
<1>2. Shape /\ Fates /\ Pending /\ call = NA
  BY <1>1 DEF World, Printing
<1>3. Shape'
  BY <1>2, SubmitShape
<1>4. /\ Legs \subseteq Legs'
      /\ \A l \in Legs : Leg(l)' = Leg(l) /\ Answer(l)' = Answer(l)
                        /\ placed'[l[1]] = placed[l[1]]
      /\ \A l \in Legs' \ Legs : Answer(l)' = NoRow
      /\ \A g, a : Orders(g, a)' = Orders(g, a) /\ Bought(g, a)' = Bought(g, a)
  BY <1>2, SubmitOrders
<1>5. NoRow.status = "accepted" /\ NoRow.qty = 0
  BY DEF NoRow
<1>6. Fates'
  BY <1>2, <1>4, <1>5 DEF Fates, Statuses
<1>7. Pending'
  BY <1>1, <1>2, <1>4 DEF Pending
<1>8. Printing' /\ Clock'
  BY <1>1 DEF World, Printing, Clock, Batch
<1>9. \A g : SoldFlat(g) => SoldFlat(g)'
  BY <1>4 DEF SoldFlat
<1>10. \A g, c : PendingOf(g, c)' = PendingOf(g, c)
  BY <1>1 DEF PendingOf
<1>11. Amounts' = Amounts
  BY <1>1 DEF Amounts
<1>12. Accounts'
  BY <1>1, <1>4, <1>9, <1>10, <1>11 DEF Accounts, Solvent
<1> QED
  BY <1>1, <1>2, <1>3, <1>6, <1>7, <1>8, <1>12 DEF LedgerInv, World

LEMMA DueSum ==
  ASSUME NEW T, IsFiniteSet(T), \A e \in T : e.amount \in Int
  PROVE  MapThenSumSet(LAMBDA e : e.amount, T) = Sum([e \in T |-> e.amount], T)
<1> DEFINE F == [e \in T |-> e.amount]
           Eq(h) == h = [s \in SUBSET T |->
                          IF s = {} THEN 0
                          ELSE (CHOOSE x \in s : TRUE).amount
                               + h[s \ {CHOOSE x \in s : TRUE}]]
           h == CHOOSE h : Eq(h)
<1>1. \A s \in SUBSET T : s # {} => (CHOOSE x \in s : TRUE) \in T
  OBVIOUS
<1>2. \A x \in T : F[x] = x.amount /\ F[x] \in Int
  OBVIOUS
<1>3. MapThenSumSet(LAMBDA e : e.amount, T) = h[T]
  BY DEF MapThenSumSet, MapThenFoldSet
<1> HIDE DEF F
<1>4. PICK g : IsSum(g, F, T)
  BY <1>2, SumExists
<1>5. Eq(g)
  BY <1>1, <1>2, <1>4 DEF IsSum, AnyOf
<1>6. Eq(h)
  BY <1>5
<1> HIDE DEF h
<1>7. IsSum(h, F, T)
  BY <1>1, <1>2, <1>6 DEF IsSum, AnyOf
<1>8. Sum(F, T) = h[T]
  BY <1>7, SumIs
<1> QED
  BY <1>3, <1>8 DEF F

(* What is due to an agent is its part of the pending proceeds.            *)
LEMMA DueToIs ==
  ASSUME Pending, NEW g, NEW c, NEW time
  PROVE  LET due == PendingOf(g, c) \cap Due(time)
         IN  /\ DueTo(g, c, time) = Sum(Amounts, due)
             /\ DueTo(g, c, time) \in Int
             /\ Sum(Amounts, PendingOf(g, c))
                  = DueTo(g, c, time) + Sum(Amounts, PendingOf(g, c) \ Due(time))
             /\ Sum(Amounts, PendingOf(g, c) \ Due(time)) \in Int
             /\ terms.lag = 0 => DueTo(g, c, time) = 0
<1> DEFINE all == PendingOf(g, c)
           due == {e \in Due(time) : e.agent = g /\ e.ccy = c}
           later == all \ Due(time)
           G == [e \in due |-> e.amount]
<1>1. /\ due = all \cap Due(time) /\ all = due \cup later /\ due \cap later = {}
      /\ all \subseteq settlements
  BY DEF PendingOf, Due
<1>2. IsFiniteSet(due) /\ IsFiniteSet(later)
  BY <1>1, FS_Subset DEF Pending
<1>3. \A e \in all : Amounts[e] = e.amount /\ e.amount \in Int
  BY <1>1 DEF Amounts, Pending
<1>4. DueTo(g, c, time) = MapThenSumSet(LAMBDA e : e.amount, due)
  BY DEF DueTo
<1>5. terms.lag = 0 => due = {}
  BY <1>1 DEF Pending
<1> HIDE DEF due, later, all
<1>6. DueTo(g, c, time) = Sum(G, due)
  BY <1>1, <1>2, <1>3, <1>4, DueSum
<1>7. \A e \in due : G[e] \in Int /\ G[e] = Amounts[e]
  BY <1>1, <1>3
<1> HIDE DEF G
<1>8. Sum(G, due) = Sum(Amounts, due)
  BY <1>2, <1>7, SumSame
<1>9. /\ \A e \in due \cup later : Amounts[e] \in Int
      /\ \A e \in due : Amounts[e] \in Int
      /\ \A e \in later : Amounts[e] \in Int
  BY <1>1, <1>3
<1>10. /\ Sum(Amounts, due) \in Int /\ Sum(Amounts, later) \in Int
       /\ Sum(Amounts, due \cup later) = Sum(Amounts, due) + Sum(Amounts, later)
  BY <1>1, <1>2, <1>9, SumInt, SumUnion
<1>11. due = {} => Sum(Amounts, due) = 0
  BY SumEmpty
<1> QED
  BY <1>1, <1>5, <1>6, <1>8, <1>10, <1>11 DEF all, later

(* Between two boundaries what is due moves to the cash.                   *)
LEMMA NewBoundaryLedger ==
  ASSUME LedgerInv, NEW batch \in Batches, NEW print \in Prints, NEW gap \in Gaps,
         NewBoundary(batch, print, gap), UNCHANGED terms
  PROVE  LedgerInv'
<1>1. /\ UNCHANGED <<terms, placed, fate, schedule, notice, call, ruined>>
      /\ stage = "between" /\ stage' = "agents" /\ now' = now + gap /\ now + gap <= MaxTime
      /\ bars' = [a \in Asset |-> IF a \in batch THEN print[a] ELSE NA]
      /\ settlements' = settlements \ Due(now')
      /\ cursor' = IF schedule.active /\ Bond \in batch THEN schedule.last ELSE NA
      /\ todo' = Stepped(batch)
      /\ World /\ Accounts
  BY DEF NewBoundary, LedgerInv
<1>2. Shape /\ Clock /\ Fates /\ Pending /\ call = NA
  BY <1>1 DEF World, Printing
<1>3. Batch' = batch
  <2>1. \A a \in Asset : print[a] # NA
    BY AccountAssumption DEF AccountAssumption, Prints
  <2>2. batch \subseteq Asset
    BY AccountAssumption DEF AccountAssumption
  <2> QED
    BY <1>1, <2>1, <2>2 DEF Batch
<1>4. Clock'
  <2>1. now' \in 0 .. MaxTime
    <3>1. now \in 0 .. MaxTime /\ gap \in Nat /\ MaxTime \in Nat
      BY <1>2, AccountAssumption DEF Clock, AccountAssumption
    <3> QED
      BY <1>1, <3>1
  <2>2. todo' \subseteq Agents
    BY <1>1 DEF Stepped
  <2>3. \A a \in Batch' : bars'[a].open \in Nat \ {0} /\ bars'[a].close \in Nat \ {0}
    <3>1. \A a \in batch : a \in Asset /\ bars'[a] = print[a] /\ print[a] \in Bars[a]
      BY <1>1, AccountAssumption DEF AccountAssumption, Prints
    <3>2. \A a \in Asset : \A b \in Bars[a] : b.open \in Nat \ {0} /\ b.close \in Nat \ {0}
      BY AccountAssumption DEF AccountAssumption
    <3> QED
      BY <1>3, <3>1, <3>2
  <2>4. cursor' \in Nat \cup {NA}
    BY <1>1, <1>2 DEF Clock
  <2> QED
    BY <1>1, <1>2, <2>1, <2>2, <2>3, <2>4 DEF Clock
<1>5. Shape' /\ Printing' /\ Fates'
  BY <1>1, <1>2, <1>3, SameOrders DEF Shape, Printing, Fates
<1>6. Pending'
  <2>1. IsFiniteSet(settlements')
    BY <1>1, <1>2, FS_Subset DEF Pending
  <2> QED
    BY <1>1, <1>2, <2>1, SameOrders DEF Pending
<1>7. /\ DOMAIN book' = Agents /\ DOMAIN ledger' = Agents
      /\ \A g \in Agents :
           /\ book'[g] = [book[g] EXCEPT
                            !.cash = [c \in Ccy |-> book[g].cash[c] + DueTo(g, c, now')],
                            !.unsettled = [c \in Ccy |-> book[g].unsettled[c] - DueTo(g, c, now')]]
           /\ ledger'[g] = [c \in Ccy |-> ledger[g][c] + DueTo(g, c, now')]
  BY DEF NewBoundary
<1>8. \A g, c : PendingOf(g, c)' = PendingOf(g, c) \ Due(now')
  BY <1>1 DEF PendingOf
<1>9. ASSUME NEW g \in Agents
      PROVE  /\ Account(book'[g]) /\ Solvent(book[g])' /\ ledger'[g] \in Money
             /\ g \notin ruined =>
                  \A c \in Ccy : book'[g].unsettled[c] = Sum(Amounts', PendingOf(g, c)')
             /\ book'[g].units = book[g].units
             /\ ledger[g] = book[g].cash => ledger'[g] = book'[g].cash
  <2> DEFINE t == book[g]
             due == [c \in Ccy |-> DueTo(g, c, now')]
             cash2 == [c \in Ccy |-> t.cash[c] + due[c]]
             unsettled2 == [c \in Ccy |-> t.unsettled[c] - due[c]]
             u == book'[g]
  <2>1. t \in AccountRecords /\ Account(t) /\ Solvent(t) /\ ledger[g] \in Money
    BY <1>1 DEF Accounts, Account
  <2>2. \A c : /\ DueTo(g, c, now') \in Int
               /\ Sum(Amounts, PendingOf(g, c))
                    = DueTo(g, c, now') + Sum(Amounts, PendingOf(g, c) \ Due(now'))
               /\ Sum(Amounts, PendingOf(g, c) \ Due(now')) \in Int
               /\ terms.lag = 0 => DueTo(g, c, now') = 0
    BY <1>2, DueToIs
  <2>3. /\ u = [t EXCEPT !.cash = cash2, !.unsettled = unsettled2]
        /\ ledger'[g] = [c \in Ccy |-> ledger[g][c] + due[c]]
    BY <1>7
  <2>4. due \in Money /\ \A c \in Ccy : due[c] = DueTo(g, c, now')
    <3>1. \A c \in Ccy : DueTo(g, c, now') \in Int
      BY <2>2
    <3> QED
      BY <3>1 DEF Money
  <2> HIDE DEF due
  <2>5. cash2 \in Money /\ unsettled2 \in Money
    BY <2>1, <2>4 DEF AccountRecords, Money
  <2>6. ledger'[g] \in Money /\ (ledger[g] = t.cash => ledger'[g] = cash2)
    BY <2>1, <2>3, <2>4 DEF AccountRecords, Money
  <2>7. \A c \in Ccy : cash2[c] = t.cash[c] + due[c] /\ unsettled2[c] = t.unsettled[c] - due[c]
    OBVIOUS
  <2> HIDE DEF cash2, unsettled2, u, t
  <2>8. /\ u \in AccountRecords /\ u.cash = cash2 /\ u.unsettled = unsettled2
        /\ u.units = t.units /\ u.last = t.last /\ u.settle = t.settle /\ u.accrued = t.accrued
    BY <2>1, <2>3, <2>5 DEF AccountRecords
  <2>9. Account(u)
    BY <2>1, <2>8 DEF Account
  <2>10. \A c \in Ccy : terms.lag = 0 => cash2[c] = t.cash[c]
    <3>1. \A c \in Ccy : terms.lag = 0 => due[c] = 0
      BY <2>2, <2>4
    <3> QED
      BY <2>1, <2>7, <3>1 DEF AccountRecords, Money
  <2>11. Solvent(book[g])'
    BY <1>1, <2>1, <2>8, <2>10 DEF Solvent, u
  <2>12. ASSUME g \notin ruined, NEW c \in Ccy
         PROVE  u.unsettled[c] = Sum(Amounts', PendingOf(g, c)')
    <3> DEFINE later == PendingOf(g, c) \ Due(now')
    <3>1. t.unsettled[c] = Sum(Amounts, PendingOf(g, c))
      BY <1>1, <2>12 DEF Accounts, t
    <3>2. \A e \in later : Amounts[e] \in Int /\ Amounts[e] = Amounts'[e]
      BY <1>1, <1>2 DEF Amounts, PendingOf, Pending
    <3>3. IsFiniteSet(later)
      BY <1>2, FS_Subset DEF PendingOf, Pending
    <3> HIDE DEF later
    <3>4. Sum(Amounts, later) = Sum(Amounts', later)
      BY <3>2, <3>3, SumSame
    <3>5. u.unsettled[c] = Sum(Amounts, later)
      BY <2>2, <2>7, <2>8, <2>4, <3>1 DEF later
    <3> QED
      BY <1>8, <3>4, <3>5 DEF later
  <2> QED
    BY <2>6, <2>8, <2>9, <2>11, <2>12 DEF u, t
<1>10. Accounts'
  <2>1. \A g \in Agents : \A a \in Spot : Covers(book'[g].units[a], Bought(g, a)', a)
    BY <1>1, <1>9, SameOrders DEF Accounts
  <2>2. \A g \in Agents : g \in ruined' \/ SoldFlat(g)' \/ ledger'[g] = book'[g].cash
    BY <1>1, <1>9, SameOrders DEF Accounts
  <2> QED
    BY <1>1, <1>7, <1>9, <2>1, <2>2 DEF Accounts
<1> QED
  BY <1>1, <1>2, <1>4, <1>5, <1>6, <1>10 DEF LedgerInv, World

LEMMA InitLedger ==
  ASSUME Init
  PROVE  LedgerInv
<1>1. /\ terms \in Terms /\ now = 0 /\ bars = [a \in Asset |-> NA] /\ todo = {} /\ stage = "between"
      /\ placed = <<>> /\ fate = <<>> /\ call = NA /\ book = [g \in Agents |-> Unopened]
      /\ settlements = {} /\ ruined = {} /\ cursor = NA /\ notice = NA
      /\ schedule = [last |-> 0, next |-> Period, active |-> TRUE]
      /\ ledger = [g \in Agents |-> InitCash]
  BY DEF Init
<1>2. Legs = {} /\ Batch = {}
  BY <1>1 DEF Legs, Batch
<1>3. Shape
  BY InitGroups DEF GroupInv
<1>4. Clock /\ Printing
  BY <1>1, <1>2, AccountAssumption DEF AccountAssumption, Clock, Printing
<1>5. Fates /\ Pending
  BY <1>1, <1>2, FS_EmptySet DEF Fates, Pending
<1>6. InitCash \in Money /\ \A c \in Ccy : InitCash[c] >= 0
  BY AccountAssumption DEF AccountAssumption, Money
<1>7. /\ Unopened.cash = InitCash /\ Account(Unopened) /\ Solvent(Unopened)
      /\ \A a \in Spot : Unopened.units[a] = 0
      /\ \A c \in Ccy : Unopened.unsettled[c] = 0
  <2>1. NA \notin Int /\ Bond \in Asset /\ Spot \subseteq Asset /\ Futures \subseteq Asset
    BY AccountAssumption DEF AccountAssumption, Asset
  <2>2. Unopened \in AccountRecords
    BY <1>6 DEF Unopened, AccountRecords, Money
  <2> QED
    BY <1>6, <2>1, <2>2 DEF Unopened, Account, Solvent
<1>8. \A g, a : Bought(g, a) = 0
  <2>1. \A g, a : Orders(g, a) = {}
    BY <1>2 DEF Orders
  <2> QED
    BY <2>1, SumEmpty DEF Bought
<1>9. \A g, c : Sum(Amounts, PendingOf(g, c)) = 0
  <2>1. \A g, c : PendingOf(g, c) = {}
    BY <1>1 DEF PendingOf
  <2> QED
    BY <2>1, SumEmpty
<1>10. Accounts
  <2>1. ASSUME NEW g \in Agents
        PROVE  /\ Account(book[g]) /\ Solvent(book[g]) /\ ledger[g] = book[g].cash
               /\ \A c \in Ccy : book[g].unsettled[c] = Sum(Amounts, PendingOf(g, c))
               /\ \A a \in Spot : Covers(book[g].units[a], Bought(g, a), a)
    <3>1. book[g] = Unopened /\ ledger[g] = InitCash
      BY <1>1
    <3>2. Account(book[g]) /\ Solvent(book[g]) /\ ledger[g] = book[g].cash
      BY <1>7, <3>1
    <3>3. \A c \in Ccy : book[g].unsettled[c] = Sum(Amounts, PendingOf(g, c))
      BY <1>7, <1>9, <3>1
    <3>4. \A a \in Spot : Covers(book[g].units[a], Bought(g, a), a)
      BY <1>7, <1>8, <3>1 DEF Covers
    <3> QED
      BY <3>2, <3>3, <3>4
  <2> QED
    BY <1>1, <1>6, <1>7, <2>1 DEF Accounts
<1> QED
  BY <1>1, <1>3, <1>4, <1>5, <1>10 DEF LedgerInv, World

-----------------------------------------------------------------------------
(* What is committed at the end of a call. *)

(* The fate of a leg is its row, if it was answered at all. *)
LEMMA FatesCommitted ==
  ASSUME Shape, FinishCall
  PROVE  /\ Shape' /\ Legs' = Legs
         /\ \A l \in Legs :
              /\ Leg(l)' = Leg(l) /\ placed'[l[1]] = placed[l[1]]
              /\ IF l \in Answered /\ call.rows[l].status # "accepted"
                 THEN Answer(l)' = [status |-> call.rows[l].status, qty |-> call.rows[l].qty,
                                    at |-> now]
                 ELSE Answer(l)' = Answer(l)
<1>1. /\ UNCHANGED placed
      /\ fate' = [g \in DOMAIN fate |-> [k \in DOMAIN fate[g] |-> Fate(g, k)]]
  BY DEF FinishCall
<1>2. DOMAIN fate = 1 .. Len(placed) /\ Len(placed) \in Nat
  BY GroupNumbers DEF Shape
<1>3. IsSeq(fate')
  <2>1. fate' = [g \in 1 .. Len(placed) |-> fate'[g]]
    BY <1>1, <1>2
  <2> QED
    BY <1>2, <2>1, FunctionIsSeq
<1>4. Shape'
  BY <1>1, <1>3 DEF Shape, IsSeq
<1>5. Legs' = Legs
  BY <1>1 DEF Legs
<1>6. ASSUME NEW l \in Legs
      PROVE  /\ Leg(l)' = Leg(l)
             /\ IF l \in Answered /\ call.rows[l].status # "accepted"
                THEN Answer(l)' = [status |-> call.rows[l].status, qty |-> call.rows[l].qty,
                                   at |-> now]
                ELSE Answer(l)' = Answer(l)
  <2>1. l = <<l[1], l[2]>> /\ l[1] \in DOMAIN fate /\ l[2] \in DOMAIN fate[l[1]]
    BY LegsOf DEF Shape
  <2>2. Answer(l)' = Fate(l[1], l[2])
    BY <1>1, <2>1 DEF Answer
  <2>3. Leg(l)' = Leg(l)
    BY <1>1 DEF Leg
  <2> QED
    BY <2>1, <2>2, <2>3 DEF Fate, Answer, Answered
<1> QED
  BY <1>1, <1>4, <1>5, <1>6

(* The fills of the call are all new.                                      *)
FilledBy(a) == {l \in Answered : IsFilled(l) /\ Leg(l).asset = a}

LEMMA OrdersCommitted ==
  ASSUME LedgerInv, FinishCall, NEW g \in Agents, NEW a
  PROVE  /\ Orders(g, a) \cap Answered = {}
         /\ Orders(g, a)' = Orders(g, a) \cup (IF g = call.agent THEN FilledBy(a) ELSE {})
         /\ SoldFlat(g) => SoldFlat(g)'
         /\ \A l \in FilledBy(a) : l \in Legs /\ Answer(l)'.status = "filled"
                                   /\ Answer(l)'.qty = call.rows[l].qty
<1>1. call # NA /\ call.todo = {}
  BY DEF FinishCall
<1>2. Shape /\ CallShape /\ CallRows /\ Owned
  BY <1>1, LedgerAnswering DEF Answering, CallFrame
<1>3. \A l \in Answered : /\ l \in Legs /\ Answer(l).status = "accepted"
                          /\ placed[l[1]].agent = call.agent
  BY <1>2 DEF CallShape, CallRows, Owned, Touched
<1>4. /\ Legs' = Legs
      /\ \A l \in Legs :
           /\ Leg(l)' = Leg(l) /\ placed'[l[1]] = placed[l[1]]
           /\ IF l \in Answered /\ call.rows[l].status # "accepted"
              THEN Answer(l)' = [status |-> call.rows[l].status, qty |-> call.rows[l].qty,
                                 at |-> now]
              ELSE Answer(l)' = Answer(l)
  BY <1>2, FatesCommitted
<1>5. \A l \in Legs : Answer(l)'.status = "filled" <=>
                        Answer(l).status = "filled" \/ (l \in Answered /\ IsFilled(l))
  BY <1>3, <1>4 DEF IsFilled
<1>6. Orders(g, a) \cap Answered = {}
  BY <1>3 DEF Orders
<1>7. Orders(g, a)' = Orders(g, a) \cup (IF g = call.agent THEN FilledBy(a) ELSE {})
  BY <1>3, <1>4, <1>5 DEF Orders, FilledBy
<1>8. SoldFlat(g) => SoldFlat(g)'
  BY <1>4, <1>5 DEF SoldFlat
<1>9. \A l \in FilledBy(a) : l \in Legs /\ Answer(l)'.status = "filled"
                             /\ Answer(l)'.qty = call.rows[l].qty
  BY <1>3, <1>4 DEF FilledBy, IsFilled
<1> QED
  BY <1>6, <1>7, <1>8, <1>9

(* What was bought less what was sold grows by the fills.                  *)
LEMMA BoughtCommitted ==
  ASSUME LedgerInv, FinishCall, NEW g \in Agents, NEW a \in Spot
  PROVE  /\ Bought(g, a) \in Int
         /\ Bought(g, a)' = Bought(g, a)
                            + (IF g = call.agent THEN Sum(UnitFlows[a], Answered) ELSE 0)
<1> DEFINE old == Orders(g, a)
           new == FilledBy(a)
           V == UnitFlows[a]
<1>1. Answering /\ Shape /\ CallShape /\ Fates /\ call # NA
  BY LedgerAnswering DEF FinishCall, Answering, LedgerInv, World
<1>2. IsFiniteSet(Answered) /\ IsFiniteSet(Legs)
  BY <1>1, FiniteAnswers
<1>3. /\ old \cap Answered = {} /\ old' = old \cup (IF g = call.agent THEN new ELSE {})
      /\ \A l \in new : l \in Legs /\ Answer(l)'.status = "filled"
                        /\ Answer(l)'.qty = call.rows[l].qty
  BY OrdersCommitted
<1>4. old \subseteq Legs /\ new \subseteq Answered
  BY DEF Orders, FilledBy
<1>5. IsFiniteSet(old) /\ IsFiniteSet(new)
  BY <1>2, <1>4, FS_Subset
<1>6. \A l \in old : BoughtOf[l] \in Int /\ BoughtOf[l] = BoughtOf'[l]
  <2>1. ASSUME NEW l \in old
        PROVE  l \in Legs /\ l \in Legs' /\ Leg(l)' = Leg(l) /\ Answer(l)' = Answer(l)
    BY <1>1, <1>3, <1>4, FatesCommitted
  <2> QED
    BY <1>1, <2>1 DEF BoughtOf, Fates
<1>7. \A l \in new : V[l] \in Int /\ V[l] = BoughtOf'[l]
  <2>1. ASSUME NEW l \in new
        PROVE  /\ l \in Answered /\ V[l] = FillUnits(l, call.rows[l]) /\ V[l] \in Int
               /\ l \in Legs' /\ Leg(l)' = Leg(l) /\ Answer(l)'.qty = call.rows[l].qty
    BY <1>1, <1>3, <1>4, FatesCommitted, FlowsInt DEF UnitFlows, FilledBy
  <2> QED
    BY <2>1 DEF BoughtOf, FillUnits
<1>8. \A l \in Answered \ new : V[l] = 0
  BY DEF UnitFlows, FilledBy
<1>9. Bought(g, a) = Sum(BoughtOf, old) /\ Bought(g, a)' = Sum(BoughtOf', old')
  BY DEF Bought
<1> HIDE DEF old, new, V
<1>10. Sum(BoughtOf, old) = Sum(BoughtOf', old) /\ Sum(BoughtOf, old) \in Int
  BY <1>5, <1>6, SumSame, SumInt
<1>11. Sum(V, Answered) = Sum(V, new)
  <2>1. new \in SUBSET Answered /\ \A l \in new : V[l] \in Int
    BY <1>4, <1>7
  <2> QED
    BY <1>2, <1>8, <2>1, SumSub
<1>12. Sum(V, new) = Sum(BoughtOf', new)
  BY <1>5, <1>7, SumSame
<1>13. Sum(BoughtOf', old \cup new) = Sum(BoughtOf', old) + Sum(BoughtOf', new)
  <2>1. old \cap new = {} /\ \A l \in old \cup new : BoughtOf'[l] \in Int
    BY <1>3, <1>4, <1>6, <1>7
  <2> QED
    BY <1>5, <2>1, SumUnion
<1>14. CASE g = call.agent
  <2>1. old' = old \cup new
    BY <1>3, <1>14
  <2> QED
    BY <1>9, <1>10, <1>11, <1>12, <1>13, <1>14, <2>1 DEF V
<1>15. CASE g # call.agent
  <2>1. old' = old
    BY <1>3, <1>15
  <2> QED
    BY <1>9, <1>10, <1>15, <2>1
<1> QED
  BY <1>14, <1>15

(* The proceeds a call holds back, as settlements still to come.           *)
Held == UNION {OnHold(c) : c \in Ccy}

Entry == [l \in Answered |->
            [leg |-> l, agent |-> call.agent, ccy |-> Home[Leg(l).asset], amount |-> Proceeds(l),
             due |-> now + terms.lag]]

LEMMA HeldEntries ==
  ASSUME LedgerInv, FinishCall
  PROVE  /\ Held \in SUBSET Answered /\ IsFiniteSet(Held)
         /\ settlements' = settlements \cup {Entry[l] : l \in Held}
         /\ terms.lag = 0 => Held = {}
         /\ \A l \in Held : /\ Entry[l].leg = l /\ Entry[l].agent = call.agent
                            /\ Entry[l].amount = Receipts[l] /\ Receipts[l] \in Int
                            /\ IsFilled(l) /\ Entry[l] \notin settlements
         /\ \A c \in Ccy : \A l \in Held : l \in OnHold(c) <=> Entry[l].ccy = c
<1>1. Answering /\ CallFrame /\ Pending
  BY LedgerAnswering DEF FinishCall, World
<1>2. Held \in SUBSET Answered
  BY DEF Held, OnHold, Filled, Answered
<1>3. IsFiniteSet(Held)
  BY <1>1, <1>2, FiniteAnswers, FS_Subset DEF Answering
<1>4. settlements' = settlements \cup {Entry[l] : l \in Held}
  <2>1. settlements' = settlements \cup
           {[leg |-> l, agent |-> call.agent, ccy |-> Home[Leg(l).asset], amount |-> Proceeds(l),
             due |-> now + terms.lag] : l \in Held}
    BY DEF FinishCall, Held
  <2> QED
    BY <1>2, <2>1 DEF Entry
<1>5. terms.lag = 0 => Held = {}
  BY DEF Held, OnHold
<1>6. \A l \in Held : IsFilled(l)
  BY DEF Held, OnHold, Filled, IsFilled
<1>7. \A l \in Held : /\ Entry[l].leg = l /\ Entry[l].agent = call.agent
                      /\ Entry[l].amount = Receipts[l] /\ Receipts[l] \in Int
  BY <1>1, <1>2, ProceedsInt DEF Entry, Receipts
<1>8. \A l \in Held : Entry[l] \notin settlements
  <2>1. \A l \in Answered : Answer(l).status = "accepted"
    BY <1>1 DEF CallFrame, CallRows, Touched
  <2> QED
    BY <1>1, <1>2, <1>7, <2>1 DEF Pending
<1>9. \A c \in Ccy : \A l \in Held : l \in OnHold(c) <=> Entry[l].ccy = c
  BY <1>2 DEF Held, OnHold, Entry
<1> QED
  BY <1>2, <1>3, <1>4, <1>5, <1>6, <1>7, <1>8, <1>9

LEMMA PendingCommitted ==
  ASSUME LedgerInv, FinishCall, UNCHANGED terms
  PROVE  Pending'
<1>1. Answering /\ Pending /\ CallFrame /\ Shape
  BY LedgerAnswering DEF FinishCall, World, Answering
<1>2. Held \in SUBSET Answered /\ Answered \subseteq Legs
  BY <1>1, HeldEntries DEF Answering, CallShape, Touched
<1>3. IsFiniteSet(settlements')
  <2> DEFINE new == {Entry[l] : l \in Held}
  <2>1. IsFiniteSet(new)
    BY HeldEntries, ImageFinite
  <2>2. IsFiniteSet(settlements) /\ settlements' = settlements \cup new
    BY <1>1, HeldEntries DEF Pending
  <2> HIDE DEF new
  <2> QED
    BY <2>1, <2>2, FS_Union
<1>4. \A l \in Answered : Answer(l).status = "accepted"
  BY <1>1 DEF CallFrame, CallRows, Touched
<1>5. /\ Legs' = Legs
      /\ \A l \in Legs : IF l \in Answered /\ call.rows[l].status # "accepted"
                         THEN Answer(l)' = [status |-> call.rows[l].status,
                                            qty |-> call.rows[l].qty, at |-> now]
                         ELSE Answer(l)' = Answer(l)
  BY <1>1, FatesCommitted
<1>6. ASSUME NEW e \in settlements'
      PROVE  e.leg \in Legs' /\ Answer(e.leg)'.status = "filled" /\ e.amount \in Int
  <2>1. CASE e \in settlements
    <3>1. e.leg \in Legs /\ Answer(e.leg).status = "filled" /\ e.amount \in Int
      BY <1>1, <2>1 DEF Pending
    <3> QED
      BY <1>4, <1>5, <3>1
  <2>2. CASE e \in {Entry[l] : l \in Held}
    <3>1. PICK l \in Held : e = Entry[l]
      BY <2>2
    <3>2. e.leg = l /\ e.amount \in Int /\ IsFilled(l) /\ l \in Legs /\ l \in Answered
      BY <1>2, <3>1, HeldEntries
    <3> QED
      BY <1>5, <3>2 DEF IsFilled
  <2> QED
    BY <2>1, <2>2, HeldEntries
<1>7. terms'.lag = 0 => settlements' = {}
  BY <1>1, HeldEntries DEF Pending
<1>8. \A e \in settlements' :
        e.leg \in Legs' /\ (Answer(e.leg).status = "filled")' /\ e.amount \in Int
  BY <1>6
<1> QED
  BY <1>3, <1>7, <1>8 DEF Pending

(* What is pending grows by what is held back.                             *)
LEMMA HeldMoves ==
  ASSUME LedgerInv, FinishCall, NEW g \in Agents, NEW c \in Ccy
  PROVE  /\ Sum(Amounts, PendingOf(g, c)) \in Int
         /\ Sum(Amounts', PendingOf(g, c)')
              = Sum(Amounts, PendingOf(g, c)) + (IF g = call.agent THEN HeldBack(c) ELSE 0)
<1> DEFINE old == PendingOf(g, c)
           hold == OnHold(c)
           new == {Entry[l] : l \in hold}
<1>1. Answering /\ Pending
  BY LedgerAnswering DEF FinishCall, World
<1>2. /\ hold \subseteq Held /\ Held \in SUBSET Answered /\ IsFiniteSet(hold)
      /\ HeldBack(c) = Sum(Receipts, hold) /\ HeldBack(c) \in Int
  BY <1>1, HeldEntries, HeldBackIs DEF Held
<1>3. \A l \in Held : l \in hold <=> Entry[l].ccy = c
  BY HeldEntries
<1>4. old \subseteq settlements /\ IsFiniteSet(old)
  BY <1>1, FS_Subset DEF PendingOf, Pending
<1>5. PendingOf(g, c)' = old \cup (IF g = call.agent THEN new ELSE {})
  <2>1. PendingOf(g, c)' = {e \in settlements' : e.agent = g /\ e.ccy = c}
    BY DEF PendingOf
  <2>2. \A l \in Held : Entry[l].agent = call.agent
    BY HeldEntries
  <2> QED
    BY <1>2, <1>3, <2>1, <2>2, HeldEntries DEF PendingOf
<1>6. /\ old \cap new = {} /\ new \subseteq settlements'
      /\ \A e \in old : e \in settlements'
  BY <1>2, <1>4, HeldEntries
<1>7. \A e \in old : Amounts[e] \in Int /\ Amounts[e] = Amounts'[e]
  BY <1>1, <1>4, <1>6 DEF Amounts, Pending
<1>8. \A l \in hold : Receipts[l] \in Int /\ Amounts'[Entry[l]] = Receipts[l]
  <2>1. \A l \in hold : Entry[l] \in settlements'
    BY <1>6
  <2> QED
    BY <1>2, <2>1, HeldEntries DEF Amounts
<1>9. \A l, m \in hold : Entry[l] = Entry[m] => l = m
  BY <1>2, HeldEntries
<1> DEFINE before == Amounts
           B == Amounts'
<1> HIDE DEF before, B, old, hold
<1>10. Sum(B, new) = Sum(Receipts, hold)
  BY <1>2, <1>8, <1>9, SumImage DEF B
<1>11. Sum(before, old) = Sum(B, old) /\ Sum(before, old) \in Int
  BY <1>4, <1>7, SumSame, SumInt DEF before, B
<1>12. IsFiniteSet(new)
  BY <1>2, ImageFinite
<1>13. \A e \in old \cup new : B[e] \in Int
  BY <1>7, <1>8 DEF B
<1> HIDE DEF new
<1>14. Sum(B, old \cup new) = Sum(B, old) + Sum(B, new)
  BY <1>4, <1>6, <1>12, <1>13, SumUnion
<1>15. CASE g = call.agent
  BY <1>2, <1>5, <1>10, <1>11, <1>14, <1>15 DEF before, B, old
<1>16. CASE g # call.agent
  BY <1>5, <1>11, <1>16 DEF before, B, old
<1> QED
  BY <1>15, <1>16

(* The flow of an answered leg is what the ledger books and what is held   *)
(* back, unless inventory was sold with a "flat" order.                    *)
FlatFill(l) == IsFilled(l) /\ Leg(l).asset \in Spot /\ Leg(l).side = "flat"

LEMMA FlowSplit ==
  ASSUME Answering, NEW c \in Ccy, NEW l \in Answered, ~FlatFill(l)
  PROVE  CashFlows[c][l]
           = (IF l \in Filled /\ Home[Leg(l).asset] = c THEN LedgerRow(l) ELSE 0)
             + (IF l \in OnHold(c) THEN Receipts[l] ELSE 0)
<1>1. /\ l \in Legs /\ call.rows[l] \in RowTypes /\ Proceeds(l) \in Int
      /\ Proceeds(l) = Den * call.rows[l].qty * Price(l) - call.rows[l].fee
      /\ LedgerRow(l) \in Int /\ FillCash(l, call.rows[l]) \in Int
  BY ProceedsInt
<1>2. /\ Leg(l).side \in {"buy", "sell", "flat"}
      /\ Leg(l).asset \in Spot \/ Leg(l).asset \in Futures
      /\ Leg(l).asset \in Futures => Leg(l).asset \notin Spot
      /\ terms.lag \in Nat
  BY <1>1, LegTypes, AccountAssumption DEF AccountAssumption, Answering, Asset, Clock
<1>3. Receipts[l] = Proceeds(l)
  BY DEF Receipts
<1>4. l \in Filled <=> IsFilled(l)
  BY DEF Filled, IsFilled, Answered
<1>5. l \in OnHold(c) <=> /\ IsFilled(l) /\ terms.lag > 0 /\ Leg(l).asset \in Spot
                          /\ Leg(l).side = "sell" /\ Home[Leg(l).asset] = c
  BY <1>4 DEF OnHold
<1>6. CashFlows[c][l] = IF IsFilled(l) /\ Home[Leg(l).asset] = c
                        THEN FillCash(l, call.rows[l]) ELSE 0
  BY DEF CashFlows
<1>7. CASE ~(IsFilled(l) /\ Home[Leg(l).asset] = c)
  BY <1>4, <1>5, <1>6, <1>7
<1>8. CASE IsFilled(l) /\ Home[Leg(l).asset] = c
  <2>1. CASE Leg(l).asset \in Futures
    <3>1. FillCash(l, call.rows[l]) = -call.rows[l].fee /\ LedgerRow(l) = -call.rows[l].fee
      BY <1>2, <2>1 DEF FillCash, LedgerRow
    <3> QED
      BY <1>1, <1>2, <1>4, <1>5, <1>6, <1>8, <2>1, <3>1
  <2>2. CASE Leg(l).asset \in Spot /\ Leg(l).side = "buy"
    <3>1. FillCash(l, call.rows[l]) = LedgerRow(l)
      BY <1>2, <2>2 DEF FillCash, LedgerRow
    <3> QED
      BY <1>1, <1>2, <1>4, <1>5, <1>6, <1>8, <2>2, <3>1
  <2>3. CASE Leg(l).asset \in Spot /\ Leg(l).side = "sell"
    <3>1. FillCash(l, call.rows[l]) = Proceeds(l)
      BY <1>1, <1>2, <2>3 DEF FillCash
    <3>2. LedgerRow(l) = IF terms.lag > 0 THEN 0 ELSE Proceeds(l)
      BY <1>2, <2>3 DEF LedgerRow
    <3> QED
      BY <1>1, <1>2, <1>3, <1>4, <1>5, <1>6, <1>8, <2>3, <3>1, <3>2
  <2> QED
    BY <1>2, <1>8, <2>1, <2>2, <2>3 DEF FlatFill
<1> QED
  BY <1>7, <1>8

LEMMA RecordedInt ==
  ASSUME Answering, NEW c \in Ccy
  PROVE  LET T == {l \in Filled : Home[Leg(l).asset] = c}
             R == [l \in Answered |-> LedgerRow(l)]
         IN  /\ T \in SUBSET Answered /\ IsFiniteSet(T)
             /\ Sum(R, T) \in Int /\ MarkCost(call.acct, c) \in Int
             /\ Recorded(c) = Sum(R, T) + (IF c = Home[Bond] THEN call.paid ELSE 0)
                              - MarkCost(call.acct, c)
<1> DEFINE T == {l \in Filled : Home[Leg(l).asset] = c}
           R == [l \in Answered |-> LedgerRow(l)]
           G == [l \in T |-> LedgerRow(l)]
<1>1. T \in SUBSET Answered
  BY DEF Filled, Answered
<1>2. IsFiniteSet(T)
  BY <1>1, FiniteAnswers, FS_Subset DEF Answering
<1>3. \A l \in Answered : LedgerRow(l) \in Int
  BY ProceedsInt
<1>4. MarkCost(call.acct, c) \in Int
  BY MarkCostInt DEF Answering, Fine
<1>5. Recorded(c) = MapThenSumSet(LedgerRow, T) + (IF c = Home[Bond] THEN call.paid ELSE 0)
                    - MarkCost(call.acct, c)
  BY DEF Recorded
<1> HIDE DEF T
<1>6. MapThenSumSet(LedgerRow, T) = Sum(G, T)
  BY <1>1, <1>2, <1>3, LedgerSum
<1>7. \A l \in T : G[l] \in Int /\ G[l] = R[l]
  BY <1>1, <1>3
<1> HIDE DEF G, R
<1>8. Sum(G, T) = Sum(R, T) /\ Sum(G, T) \in Int
  BY <1>2, <1>7, SumSame, SumInt
<1> QED
  BY <1>1, <1>2, <1>4, <1>5, <1>6, <1>8 DEF T, R

(* The cash that is committed is what the ledger records.                  *)
LEMMA CashCommitted ==
  ASSUME LedgerInv, FinishCall, \A l \in Answered : ~FlatFill(l), NEW c \in Ccy
  PROVE  Committed.cash[c] = book[call.agent].cash[c] + Recorded(c)
<1> DEFINE T == {l \in Filled : Home[Leg(l).asset] = c}
           R == [l \in Answered |-> LedgerRow(l)]
           hold == OnHold(c)
           RT == [l \in Answered |-> IF l \in T THEN R[l] ELSE 0]
           HT == [l \in Answered |-> IF l \in hold THEN Receipts[l] ELSE 0]
           F == CashFlows[c]
           b == book[call.agent].cash[c]
           paid == IF c = Home[Bond] THEN call.paid ELSE 0
           cost == MarkCost(call.acct, c)
<1>1. Answering /\ CallFrame /\ CallMoney /\ Accounts
  BY LedgerAnswering DEF FinishCall
<1>2. /\ T \in SUBSET Answered /\ IsFiniteSet(T) /\ Sum(R, T) \in Int /\ cost \in Int
      /\ Recorded(c) = Sum(R, T) + paid - cost
  BY <1>1, RecordedInt
<1>3. hold \in SUBSET Answered /\ IsFiniteSet(hold) /\ HeldBack(c) = Sum(Receipts, hold)
  BY <1>1, HeldBackIs
<1>4. \A l \in Answered : R[l] \in Int /\ Receipts[l] \in Int /\ F[l] \in Int
  BY <1>1, ProceedsInt, FlowsInt DEF Receipts
<1>5. \A l \in Answered : F[l] = RT[l] + HT[l]
  BY <1>1, FlowSplit
<1>6. b \in Int /\ paid \in Int
  <2>1. call.agent \in Agents /\ call.paid \in Int
    BY <1>1 DEF CallFrame, Owned, CallRows
  <2> QED
    BY <1>1, <2>1 DEF Accounts, Account, AccountRecords, Money
<1>7. call.acct.cash[c] = b + paid + Sum(F, Answered)
  BY <1>1 DEF CallMoney, Explains, Explain
<1>8. Committed.cash[c] = call.acct.cash[c] - cost - HeldBack(c)
  BY <1>1, CommittedFine
<1>9. IsFiniteSet(Answered)
  BY <1>1, FiniteAnswers DEF Answering
<1> HIDE DEF T, R, hold, F, b, paid, cost
<1>10. /\ \A l \in Answered : RT[l] \in Int /\ HT[l] \in Int
       /\ \A l \in T : RT[l] \in Int /\ RT[l] = R[l]
       /\ \A l \in hold : HT[l] \in Int /\ HT[l] = Receipts[l]
       /\ \A l \in Answered \ T : RT[l] = 0
       /\ \A l \in Answered \ hold : HT[l] = 0
  BY <1>2, <1>3, <1>4
<1> HIDE DEF RT, HT
<1>11. Sum(F, Answered) = Sum(RT, Answered) + Sum(HT, Answered)
  BY <1>5, <1>9, <1>10, SumPlus
<1>12. Sum(RT, Answered) = Sum(R, T)
  <2>1. Sum(RT, Answered) = Sum(RT, T)
    BY <1>2, <1>9, <1>10, SumSub
  <2>2. Sum(RT, T) = Sum(R, T)
    BY <1>2, <1>10, SumSame
  <2> QED
    BY <2>1, <2>2
<1>13. Sum(HT, Answered) = Sum(Receipts, hold) /\ Sum(HT, Answered) \in Int
  <2>1. Sum(HT, Answered) = Sum(HT, hold)
    BY <1>3, <1>9, <1>10, SumSub
  <2>2. Sum(HT, hold) = Sum(Receipts, hold) /\ Sum(HT, hold) \in Int
    BY <1>3, <1>10, SumSame, SumInt
  <2> QED
    BY <2>1, <2>2
<1>14. Committed.cash[c] = b + Recorded(c)
  BY <1>2, <1>3, <1>6, <1>7, <1>8, <1>11, <1>12, <1>13
<1> QED
  BY <1>14 DEF b

(* A proposal is committed.                                                *)
LEMMA FinishCallLedger ==
  ASSUME LedgerInv, FinishCall, UNCHANGED terms
  PROVE  LedgerInv'
<1> DEFINE t == Committed
           u == Judged(t)
<1>0. PICK h \in Agents : h = call.agent
  BY LedgerAnswering DEF FinishCall, CallFrame, Owned
<1>1. /\ UNCHANGED <<terms, now, bars, todo, stage, placed, schedule, cursor, notice>>
      /\ call # NA /\ call' = NA
      /\ book' = [book EXCEPT ![h] = u]
      /\ ruined' = IF Survives(t) THEN ruined ELSE ruined \cup {h}
      /\ ledger' = [ledger EXCEPT ![h] = [c \in Ccy |-> ledger[h][c] + Recorded(c)]]
  BY <1>0 DEF FinishCall
<1>2. Answering /\ CallFrame /\ CallMoney /\ World /\ Accounts
  BY <1>1, LedgerAnswering
<1>3. Shape /\ Clock /\ Printing /\ Fates /\ CallRows
  BY <1>2 DEF World, CallFrame
<1>4. /\ Shape' /\ Legs' = Legs
      /\ \A l \in Legs :
           IF l \in Answered /\ call.rows[l].status # "accepted"
           THEN Answer(l)' = [status |-> call.rows[l].status, qty |-> call.rows[l].qty, at |-> now]
           ELSE Answer(l)' = Answer(l)
  BY <1>3, FatesCommitted
<1>5. Fates'
  <2>1. \A l \in Answered : call.rows[l].status \in Statuses /\ call.rows[l].qty \in Nat
    BY <1>3 DEF CallRows
  <2>2. \A l \in Legs : Answer(l)'.status \in Statuses /\ Answer(l)'.qty \in Nat
    BY <1>3, <1>4, <2>1 DEF Fates
  <2> QED
    BY <1>4, <2>2 DEF Fates
<1>6. Clock'
  <2>1. Batch' = Batch
    BY <1>1 DEF Batch
  <2> QED
    BY <1>1, <1>3, <2>1 DEF Clock
<1>7. Printing' /\ Pending'
  <2>1. Batch' = Batch
    BY <1>1 DEF Batch
  <2> QED
    BY <1>1, <1>3, <2>1, PendingCommitted DEF Printing
<1>8. /\ Account(t) /\ Solvent(t) /\ t.units = call.acct.units
      /\ Account(u) /\ Solvent(u) /\ u.units = t.units
      /\ Survives(t) => u = t
      /\ \A c \in Ccy : t.unsettled[c] = call.acct.unsettled[c] + HeldBack(c)
  BY <1>2, CommittedFine, JudgedFine
<1>9. /\ DOMAIN book = Agents /\ DOMAIN ledger = Agents /\ book'[h] = u
      /\ ledger'[h] = [c \in Ccy |-> ledger[h][c] + Recorded(c)]
      /\ \A g \in Agents : g # h => book'[g] = book[g] /\ ledger'[g] = ledger[g]
  BY <1>1, <1>2, <1>3 DEF Accounts
<1>10. ruined \subseteq ruined' /\ (h \notin ruined' => Survives(t) /\ u = t)
  BY <1>1, <1>8
<1> HIDE DEF t, u
<1>11. \A c \in Ccy : Recorded(c) \in Int
  <2> SUFFICES ASSUME NEW c \in Ccy PROVE Recorded(c) \in Int
    OBVIOUS
  <2>1. call.paid \in Int
    BY <1>3 DEF CallRows
  <2> DEFINE paid == IF c = Home[Bond] THEN call.paid ELSE 0
             cost == MarkCost(call.acct, c)
  <2>2. PICK r \in Int : Recorded(c) = r + paid - cost /\ cost \in Int
    BY <1>2, RecordedInt
  <2>3. paid \in Int
    BY <2>1
  <2> HIDE DEF paid, cost
  <2> QED
    BY <2>2, <2>3
<1>12. ASSUME NEW g \in Agents
       PROVE  /\ Account(book'[g]) /\ Solvent(book[g])' /\ ledger'[g] \in Money
              /\ \A a \in Spot : Covers(book'[g].units[a], Bought(g, a)', a)
  <2>1. CASE g # h
    <3>1. \A a \in Spot : Bought(g, a) \in Int /\ Bought(g, a)' = Bought(g, a)
      <4>1. \A a \in Spot : Bought(g, a)' = Bought(g, a) + 0 /\ Bought(g, a) \in Int
        BY <1>0, <2>1, BoughtCommitted
      <4> QED
        BY <4>1
    <3> QED
      BY <1>1, <1>2, <1>9, <2>1, <3>1 DEF Accounts, Solvent
  <2>2. CASE g = h
    <3>1. \A a \in Spot : Bought(h, a)' = Bought(h, a) + Sum(UnitFlows[a], Answered)
      BY <1>0, BoughtCommitted
    <3>2. \A a \in Spot : Covers(call.acct.units[a], Bought(h, a) + Sum(UnitFlows[a], Answered), a)
      BY <1>0, <1>2 DEF CallMoney, Explains, Explain, BoughtBy
    <3>3. \A a \in Spot : Covers(u.units[a], Bought(h, a)', a)
      BY <1>8, <3>1, <3>2
    <3>4. ledger'[h] \in Money
      BY <1>2, <1>3, <1>9, <1>11 DEF Accounts, Money
    <3> QED
      BY <1>1, <1>8, <1>9, <2>2, <3>3, <3>4 DEF Solvent
  <2> QED
    BY <2>1, <2>2
<1>13. ASSUME NEW g \in Agents, g \notin ruined', NEW c \in Ccy
       PROVE  book'[g].unsettled[c] = Sum(Amounts', PendingOf(g, c)')
  <2>1. /\ Sum(Amounts, PendingOf(g, c)) \in Int
        /\ Sum(Amounts', PendingOf(g, c)')
             = Sum(Amounts, PendingOf(g, c)) + (IF g = h THEN HeldBack(c) ELSE 0)
    BY <1>0, HeldMoves
  <2>2. book[g].unsettled[c] = Sum(Amounts, PendingOf(g, c))
    BY <1>2, <1>10, <1>13 DEF Accounts
  <2>3. CASE g = h
    <3>1. u.unsettled[c] = book[h].unsettled[c] + HeldBack(c)
      BY <1>0, <1>2, <1>8, <1>10, <1>13, <2>3 DEF CallMoney, Explains, Explain
    <3> QED
      BY <1>9, <2>1, <2>2, <2>3, <3>1
  <2>4. CASE g # h
    BY <1>9, <2>1, <2>2, <2>4
  <2> QED
    BY <2>3, <2>4
<1>14. ASSUME NEW g \in Agents, g \notin ruined', ~SoldFlat(g)'
       PROVE  ledger'[g] = book'[g].cash
  <2>1. ~SoldFlat(g)
    BY <1>14, OrdersCommitted
  <2>2. ledger[g] = book[g].cash
    BY <1>2, <1>10, <1>14, <2>1 DEF Accounts
  <2>3. CASE g # h
    BY <1>9, <2>2, <2>3
  <2>4. CASE g = h
    <3>1. ASSUME NEW l \in Answered, FlatFill(l)
          PROVE  FALSE
      <4>1. l \in Legs /\ placed[l[1]].agent = h
        BY <1>0, <1>2 DEF CallFrame, CallShape, Owned, Touched
      <4>2. Answer(l)'.status = "filled" /\ placed'[l[1]].agent = h /\ Leg(l)' = Leg(l)
        BY <1>1, <1>4, <3>1, <4>1 DEF FlatFill, IsFilled, Leg
      <4>3. SoldFlat(h)'
        BY <1>4, <3>1, <4>1, <4>2 DEF SoldFlat, FlatFill
      <4> QED
        BY <1>14, <2>4, <4>3
    <3>2. \A c \in Ccy : t.cash[c] = book[h].cash[c] + Recorded(c)
      BY <1>0, <3>1, CashCommitted DEF t
    <3>3. t.cash \in Money
      BY <1>8 DEF Account, AccountRecords
    <3>4. t.cash = [c \in Ccy |-> ledger[h][c] + Recorded(c)]
      BY <2>2, <2>4, <3>2, <3>3 DEF Money
    <3> QED
      BY <1>9, <1>10, <1>14, <2>4, <3>4
  <2> QED
    BY <2>3, <2>4
<1>15. DOMAIN book' = Agents /\ DOMAIN ledger' = Agents
  BY <1>1, <1>9
<1>16. Accounts'
  BY <1>12, <1>13, <1>14, <1>15 DEF Accounts
<1> QED
  BY <1>1, <1>4, <1>5, <1>6, <1>7, <1>16 DEF LedgerInv, World

LEMMA UnchangedLedger ==
  ASSUME LedgerInv, UNCHANGED vars
  PROVE  LedgerInv'
<1>1. UNCHANGED <<terms, now, bars, todo, stage, placed, fate, book, settlements, schedule, cursor,
                  notice, call, ledger, ruined>>
  BY DEF vars
<1>2. World' /\ Accounts'
  <2>1. call # NA => stage = "agents"
    BY DEF LedgerInv, World, Printing
  <2> QED
    BY <1>1, <2>1, SameWorld, SameAccounts DEF LedgerInv
<1>3. ASSUME call' # NA
      PROVE  CallFrame' /\ CallMoney'
  <2>1. Answering /\ CallFrame /\ CallMoney
    BY <1>1, <1>3, LedgerAnswering
  <2>2. CallFrame'
    BY <1>1, <2>1 DEF CallFrame, CallShape, OneOpen, Owned, CallRows, Touched, Answered, Legs,
                      Batch, Leg, Answer
  <2>3. /\ Answered' = Answered /\ Earlier' = Earlier /\ Earlier \subseteq Answered
        /\ IsFiniteSet(Answered) /\ IsFiniteSet(Earlier)
    <3>1. IsFiniteSet(Answered) /\ Earlier \subseteq Answered
      BY <2>1, FiniteAnswers DEF Answering, Earlier
    <3> QED
      BY <1>1, <3>1, FS_Subset DEF Answered, Earlier
  <2>4. Explain(call.acct, Answered', book'[call'.agent], call'.paid, CashFlows', UnitFlows',
                BoughtBy(call.agent)')
    BY <1>1, <2>1, <2>3, ExplainsUnexecuted DEF CallMoney
  <2>5. Explain(call.saved, Earlier', book'[call'.agent], call'.paid, CashFlows', UnitFlows',
                BoughtBy(call.agent)')
    BY <1>1, <2>1, <2>3, ExplainsUnexecuted DEF CallMoney
  <2>6. Fine(call.acct)' /\ Fine(call.saved)'
    BY <1>1, <2>1 DEF CallMoney, Fine, Solvent, Showing, Batch
  <2> QED
    BY <1>1, <2>2, <2>4, <2>5, <2>6 DEF CallMoney, Explains
<1> QED
  BY <1>2, <1>3 DEF LedgerInv

LEMMA StepLedger == LedgerInv /\ [Next]_vars => LedgerInv'
<1> SUFFICES ASSUME LedgerInv, [Next]_vars
             PROVE  LedgerInv'
  OBVIOUS
<1>1. CASE UNCHANGED vars
  BY <1>1, UnchangedLedger
<1>2. CASE Next
  <2> USE <1>2
  <2>1. UNCHANGED terms
    BY DEF Next
  <2>2. CASE \E r \in Requests : Submit(r)
    BY <2>1, <2>2, SubmitLedger
  <2>3. CASE \E n \in Notices : Announce(n)
    BY <2>1, <2>3, AnnounceLedger
  <2>4. CASE \E batch \in Batches, print \in Prints, gap \in Gaps : NewBoundary(batch, print, gap)
    BY <2>1, <2>4, NewBoundaryLedger
  <2>5. CASE \E agent \in Agents : BeginCall(agent)
    BY <2>1, <2>5, BeginCallLedger
  <2>6. ASSUME NEW l \in Legs, OpenGroup(l) \/ SkipGroup(l) \/ ExecuteLeg(l) \/ RollBack(l)
        PROVE  LedgerInv'
    BY <2>1, <2>6, OpenGroupLedger, SkipGroupLedger, ExecuteLegLedger, RollBackLedger
  <2>7. CASE FinishCall
    BY <2>1, <2>7, FinishCallLedger
  <2>8. CASE EndBoundary
    BY <2>1, <2>8, EndBoundaryLedger
  <2> QED
    BY <2>2, <2>3, <2>4, <2>5, <2>6, <2>7, <2>8 DEF Next
<1> QED
  BY <1>1, <1>2

LEMMA LedgerInvariant == Spec => []LedgerInv
<1>1. Init => LedgerInv
  BY InitLedger
<1> QED
  BY <1>1, StepLedger, PTL DEF Spec

-----------------------------------------------------------------------------
(* The properties. *)

Signed(l) == IF Leg(l).side = "buy" THEN fate[l[1]][l[2]].qty ELSE -fate[l[1]][l[2]].qty

LEMMA BoughtSum ==
  ASSUME NEW T, IsFiniteSet(T), \A l \in T : Signed(l) \in Int
  PROVE  MapThenSumSet(Signed, T) = Sum([l \in T |-> Signed(l)], T)
<1> DEFINE F == [l \in T |-> Signed(l)]
           Eq(h) == h = [s \in SUBSET T |->
                          IF s = {} THEN 0
                          ELSE Signed((CHOOSE x \in s : TRUE))
                               + h[s \ {CHOOSE x \in s : TRUE}]]
           h == CHOOSE h : Eq(h)
<1>1. \A s \in SUBSET T : s # {} => (CHOOSE x \in s : TRUE) \in T
  OBVIOUS
<1>2. \A x \in T : F[x] = Signed(x) /\ F[x] \in Int
  OBVIOUS
<1>3. MapThenSumSet(Signed, T) = h[T]
  BY DEF MapThenSumSet, MapThenFoldSet
<1> HIDE DEF F
<1>4. PICK g : IsSum(g, F, T)
  BY <1>2, SumExists
<1>5. Eq(g)
  BY <1>1, <1>2, <1>4 DEF IsSum, AnyOf
<1>6. Eq(h)
  BY <1>5
<1> HIDE DEF h
<1>7. IsSum(h, F, T)
  BY <1>1, <1>2, <1>6 DEF IsSum, AnyOf
<1>8. Sum(F, T) = h[T]
  BY <1>7, SumIs
<1> QED
  BY <1>3, <1>8 DEF F

LEMMA LedgerPending == LedgerInv => PendingIsUnsettled
<1> SUFFICES ASSUME LedgerInv, NEW g \in Agents, NEW c \in Ccy, g \notin ruined
             PROVE  book[g].unsettled[c] =
                      MapThenSumSet(LAMBDA e : e.amount,
                                    {e \in settlements : e.agent = g /\ e.ccy = c})
  BY DEF PendingIsUnsettled
<1> DEFINE T == PendingOf(g, c)
           G == [e \in T |-> e.amount]
<1>1. T = {e \in settlements : e.agent = g /\ e.ccy = c} /\ T \subseteq settlements
  BY DEF PendingOf
<1>2. IsFiniteSet(T) /\ \A e \in T : e.amount \in Int /\ Amounts[e] = e.amount
  BY <1>1, FS_Subset DEF LedgerInv, World, Pending, Amounts
<1>3. book[g].unsettled[c] = Sum(Amounts, T)
  BY DEF LedgerInv, Accounts
<1> HIDE DEF T
<1>4. MapThenSumSet(LAMBDA e : e.amount, T) = Sum(G, T)
  BY <1>2, DueSum
<1>5. \A e \in T : G[e] \in Int /\ G[e] = Amounts[e]
  BY <1>2
<1> HIDE DEF G
<1>6. Sum(G, T) = Sum(Amounts, T)
  BY <1>2, <1>5, SumSame
<1> QED
  BY <1>1, <1>3, <1>4, <1>6

LEMMA LedgerHoldings == LedgerInv => FillsExplainHoldings
<1> SUFFICES ASSUME LedgerInv, NEW g \in Agents, NEW a \in Spot
             PROVE  LET filled == {l \in Legs : /\ placed[l[1]].agent = g /\ Leg(l).asset = a
                                                /\ fate[l[1]][l[2]].status = "filled"}
                        bought == MapThenSumSet(
                                    LAMBDA l : IF Leg(l).side = "buy" THEN fate[l[1]][l[2]].qty
                                               ELSE -fate[l[1]][l[2]].qty, filled)
                    IN  /\ book[g].units[a] >= 0
                        /\ book[g].units[a] = bought \/ (a = Bond /\ book[g].units[a] <= bought)
  BY DEF FillsExplainHoldings
<1> DEFINE T == Orders(g, a)
           G == [l \in T |-> Signed(l)]
<1>1. /\ T = {l \in Legs : /\ placed[l[1]].agent = g /\ Leg(l).asset = a
                           /\ fate[l[1]][l[2]].status = "filled"}
      /\ T \subseteq Legs
  BY DEF Orders, Answer
<1>2. IsFiniteSet(T)
  BY <1>1, FiniteLegs, FS_Subset DEF LedgerInv, World
<1>3. \A l \in T : Signed(l) \in Int /\ BoughtOf[l] = Signed(l)
  BY <1>1 DEF LedgerInv, World, Fates, Signed, BoughtOf, Answer
<1>4. book[g].units[a] >= 0 /\ Covers(book[g].units[a], Sum(BoughtOf, T), a)
  BY DEF LedgerInv, Accounts, Account, Bought
<1> HIDE DEF T
<1>5. MapThenSumSet(Signed, T) = Sum(G, T)
  BY <1>2, <1>3, BoughtSum
<1>6. \A l \in T : G[l] \in Int /\ G[l] = BoughtOf[l]
  BY <1>3
<1> HIDE DEF G
<1>7. Sum(G, T) = Sum(BoughtOf, T)
  BY <1>2, <1>6, SumSame
<1>8. MapThenSumSet(LAMBDA l : IF Leg(l).side = "buy" THEN fate[l[1]][l[2]].qty
                               ELSE -fate[l[1]][l[2]].qty, T) = MapThenSumSet(Signed, T)
  BY DEF Signed
<1> QED
  BY <1>1, <1>4, <1>5, <1>7, <1>8 DEF Covers

LEMMA LedgerTypes == NoClawback /\ LedgerInv => TypeOK
<1> SUFFICES ASSUME NoClawback, LedgerInv PROVE TypeOK
  OBVIOUS
<1>1. Shape /\ Clock /\ Fates /\ Accounts
  BY DEF LedgerInv, World
<1>2. ASSUME NEW g \in DOMAIN placed, NEW k \in DOMAIN fate[g]
      PROVE  fate[g][k].status \in Statuses /\ fate[g][k].qty \in Nat
  <2> DEFINE l == <<g, k>>
  <2>1. l \in Legs
    BY <1>1 DEF Legs, Shape
  <2>2. Answer(l) = fate[g][k]
    BY DEF Answer
  <2> QED
    BY <1>1, <2>1, <2>2 DEF Fates
<1>3. ASSUME NEW g \in Agents
      PROVE  /\ book[g].cash \in [Ccy -> Int] /\ book[g].units \in [Asset -> Int]
             /\ \A a \in Futures : book[g].units[a] # 0 =>
                                     book[g].settle[a] # NA /\ book[g].last[a] > 0
             /\ \A a \in Spot : book[g].units[a] # 0 => book[g].last[a] > 0
             /\ book[g].accrued \in Nat
  <2>1. Account(book[g])
    BY <1>1 DEF Accounts
  <2> QED
    BY <2>1 DEF Account, AccountRecords, Money, Asset
<1>4. call # NA => call.agent \in Agents /\ DOMAIN call.rows \cap call.todo = {}
  BY DEF LedgerInv, CallFrame, Owned, Answered
<1> QED
  BY <1>1, <1>2, <1>3, <1>4 DEF TypeOK, Shape, Clock

(* Every account that the kernel, the commitment and the verdict produce   *)
(* is well formed, whatever the orders, prices and times: the rows have    *)
(* their types, what is held has been valued, a held future has been       *)
(* settled, and the accrued interest is not negative, unless an announced  *)
(* bond action takes money back.                                           *)
THEOREM AccountsAreWellFormed == ASSUME NoClawback PROVE Spec => []TypeOK
<1>1. LedgerInv => TypeOK
  BY LedgerTypes
<1> QED
  BY <1>1, LedgerInvariant, PTL

(* What the adapter keeps as pending settlements is, agent by agent and    *)
(* currency by currency, what the account rows call unsettled: the sales   *)
(* that a call holds back, minus what fell due, through every rollback.    *)
THEOREM PendingExplainsUnsettled == Spec => []PendingIsUnsettled
<1>1. LedgerInv => PendingIsUnsettled
  BY LedgerPending
<1> QED
  BY <1>1, LedgerInvariant, PTL

(* The fills that the order table records explain the inventory of every   *)
(* account: a group that was rolled back left nothing behind, no fill was  *)
(* applied twice, and nothing is sold short.                               *)
THEOREM FillsExplainInventory == Spec => []FillsExplainHoldings
<1>1. LedgerInv => FillsExplainHoldings
  BY LedgerHoldings
<1> QED
  BY <1>1, LedgerInvariant, PTL

(* The cash ledger, built from the answered rows, the bond and the marks,  *)
(* adds up to the settled cash of every account that is neither liquidated *)
(* nor has sold inventory with a "flat" order.                             *)
THEOREM LedgerAddsUp == Spec => []LedgerExplainsCash
<1>1. LedgerInv => LedgerExplainsCash
  BY DEF LedgerInv, Accounts, LedgerExplainsCash, SoldFlat, Answer
<1> QED
  BY <1>1, LedgerInvariant, PTL

(* Without a settlement lag no inventory is bought on credit in a currency *)
(* that no future is charged to, as long as the fee of a sale is at most   *)
(* its proceeds and no announced bond action takes money back.             *)
THEOREM InventoryIsPaidFor ==
  ASSUME NoClawback, FeeNum <= Den
  PROVE  Spec => []NeverOverdrawn
<1>1. LedgerInv => NeverOverdrawn
  BY DEF LedgerInv, Accounts, Solvent, NeverOverdrawn
<1> QED
  BY <1>1, LedgerInvariant, PTL

-----------------------------------------------------------------------------
(* The invariant behind the interest of a bond.  An account that has been  *)
(* stepped is ahead of the durable cursor: its interest runs to now, that  *)
(* of the others to the end of the last boundary with the bond.            *)

(* No announced bond action adds interest of its own.                      *)
NoAccruals == \A n \in Notices : n.type # "bond_accrual"

(* What stands for no call is not itself a call.                           *)
NoCall == DOMAIN NA # CallFields

(* The last coupon date.                                                   *)
CouponAt(time) == Period * (time \div Period)

(* The fills of the bond, and whether all of them are purchases of g.      *)
Trades == {l \in Legs : Leg(l).asset = Bond /\ Answer(l).status = "filled"}
OnlyBuys(g) == \A l \in Trades : placed[l[1]].agent = g /\ Leg(l).side = "buy"

Ahead(g) == cursor # NA /\ g \notin todo /\ (call = NA \/ call.agent # g)
Horizon(g) == IF Ahead(g) THEN now ELSE schedule.last

(* What the fills have earned since the last coupon date, per interest.    *)
Earnings(time) ==
  [l \in Legs |-> Answer(l).qty * (time - Max({CouponAt(time), Answer(l).at}))]
Earned(time) == Sum(Earnings(time), Trades)

(* The bond runs on after this boundary.                                   *)
Accrues == schedule.active /\ (cursor # NA => now < terms.maturity)

(* The durable cursor is within the running coupon period and no fill is   *)
(* later than the horizon of its agent; the shared cursor has not moved    *)
(* for an agent that is yet to be stepped and has made all the trades.     *)
Times ==
  /\ notice # NA => notice.type # "bond_accrual"
  /\ stage = "between" => cursor = NA
  /\ stage = "agents" /\ schedule.active => (cursor # NA <=> Bond \in Batch)
  /\ schedule.active => /\ schedule.last <= now
                        /\ schedule.next = CouponAt(schedule.last) + Period
  /\ \A l \in Trades :
       Answer(l).at \in Nat /\ (schedule.active => Answer(l).at <= Horizon(placed[l[1]].agent))
  /\ \A g \in todo : OnlyBuys(g) => cursor \in {NA, schedule.last}
  /\ call # NA => call.agent \notin todo

Interests ==
  \A g \in Agents :
    Accrues /\ OnlyBuys(g) /\ book[g].units[Bond] = Bought(g, Bond) =>
      book[g].accrued = Interest * Earned(Horizon(g))

(* A running call has the interest up to its time, as long as the bonds    *)
(* of t are what was bought before and by its legs.                        *)
CallTime == IF cursor = NA THEN schedule.last ELSE now

BondBuys(legs) == \A l \in legs : IsFilled(l) /\ Leg(l).asset = Bond => Leg(l).side = "buy"

CallInterest(t, legs) ==
  /\ Accrues /\ OnlyBuys(call.agent) /\ BondBuys(legs)
  /\ t.units[Bond] = Bought(call.agent, Bond) + Sum(UnitFlows[Bond], legs)
  => t.accrued = Interest * Earned(CallTime)

CallInterests == CallInterest(call.acct, Answered) /\ CallInterest(call.saved, Earlier)

InterestInv == LedgerInv /\ Times /\ Interests /\ (call # NA => CallInterests)

-----------------------------------------------------------------------------
(* Coupon dates. *)

LEMMA PeriodOf ==
  ASSUME NEW p \in Nat \ {0}, NEW t \in Nat
  PROVE  /\ t \div p \in Nat /\ p * (t \div p) \in Nat
         /\ p * (t \div p) <= t /\ t < p * (t \div p) + p
<1>1. t \div p \in Nat /\ t % p \in Nat /\ t % p < p /\ t = p * (t \div p) + (t % p)
  OBVIOUS
<1>2. p * (t \div p) \in Nat
  BY <1>1, ProductNat
<1> QED
  BY <1>1, <1>2

LEMMA QuotientIs ==
  ASSUME NEW p \in Nat \ {0}, NEW t \in Nat, NEW k \in Nat, p * k <= t, t < p * k + p
  PROVE  t \div p = k
<1> DEFINE q == t \div p
<1>1. q \in Nat /\ p * q \in Nat /\ p * q <= t /\ t < p * q + p
  BY PeriodOf
<1> HIDE DEF q
<1>2. ASSUME q < k PROVE FALSE
  <2>1. k = q + 1 + (k - q - 1) /\ k - q - 1 \in Nat
    BY <1>1, <1>2
  <2>2. PICK d \in Nat : k = q + 1 + d
    BY <2>1
  <2>3. p * k = p * q + p + p * d /\ p * d \in Nat
    BY <1>1, <2>2, ProductNat
  <2> QED
    BY <1>1, <2>3
<1>3. ASSUME k < q PROVE FALSE
  <2>1. q = k + 1 + (q - k - 1) /\ q - k - 1 \in Nat
    BY <1>1, <1>3
  <2>2. PICK d \in Nat : q = k + 1 + d
    BY <2>1
  <2>3. p * q = p * k + p + p * d /\ p * d \in Nat /\ p * k \in Nat
    BY <1>1, <2>2, ProductNat
  <2> QED
    BY <1>1, <2>3
<1> QED
  BY <1>1, <1>2, <1>3 DEF q

(* Where a later time is in the schedule that runs at last.                *)
LEMMA CouponsBetween ==
  ASSUME Clock, schedule.active, schedule.last <= now, now < terms.maturity,
         schedule.next = CouponAt(schedule.last) + Period
  PROVE  /\ Cutoff = now
         /\ CouponAt(now) \in Nat /\ CouponAt(schedule.last) \in Nat /\ CouponAt(now) <= now
         /\ CouponAt(schedule.last) <= schedule.last
         /\ Coupons = 0 => CouponAt(now) = CouponAt(schedule.last)
         /\ Coupons # 0 => /\ CouponAt(now) = schedule.next + (Coupons - 1) * Period
                           /\ CouponAt(now) > schedule.last
         /\ schedule.next + Coupons * Period = CouponAt(now) + Period
<1> DEFINE p == Period
           s == schedule.last
           n == now
           q == s \div p
           x == schedule.next
<1>1. p \in Nat \ {0} /\ s \in Nat /\ n \in Nat /\ terms.maturity \in Nat /\ x \in Nat
  BY AccountAssumption DEF AccountAssumption, Clock
<1>2. Cutoff = n
  BY <1>1, MinPair DEF Cutoff
<1>3. /\ q \in Nat /\ p * q \in Nat /\ p * q <= s /\ s < p * q + p /\ x = p * q + p
      /\ CouponAt(s) = p * q
  BY <1>1, PeriodOf DEF CouponAt
<1>4. n \div p \in Nat /\ CouponAt(n) = p * (n \div p) /\ CouponAt(n) \in Nat /\ CouponAt(n) <= n
  BY <1>1, PeriodOf DEF CouponAt
<1>5. s <= n
  OBVIOUS
<1>6. Coupons = IF x > n THEN 0 ELSE (n - x) \div p + 1
  BY <1>2 DEF Coupons
<1> HIDE DEF p, s, n, q, x
<1>7. CASE x > n
  <2>1. n \div p = q
    BY <1>1, <1>3, <1>5, <1>7, QuotientIs
  <2> QED
    BY <1>1, <1>2, <1>3, <1>4, <1>6, <1>7, <2>1 DEF p, s, n, x
<1>8. CASE ~(x > n)
  <2> DEFINE k == (n - x) \div p
  <2>1. n - x \in Nat
    BY <1>1, <1>8
  <2>2. k \in Nat /\ p * k \in Nat /\ p * k <= n - x /\ n - x < p * k + p
    BY <1>1, <2>1, PeriodOf
  <2> HIDE DEF k
  <2>3. p * (q + 1 + k) = p * q + p + p * k /\ q + 1 + k \in Nat
    BY <1>1, <1>3, <2>2
  <2> DEFINE m == q + 1 + k
  <2>4. n \div p = m
    <3>1. m \in Nat /\ p * m <= n /\ n < p * m + p
      BY <1>1, <1>3, <2>2, <2>3
    <3> HIDE DEF m
    <3> QED
      BY <1>1, <3>1, QuotientIs
  <2>5. CouponAt(n) = x + p * k /\ CouponAt(n) > s
    BY <1>1, <1>3, <1>4, <2>2, <2>3, <2>4
  <2>6. Coupons = k + 1
    BY <1>6, <1>8 DEF k
  <2>7. (Coupons - 1) * p = p * k /\ Coupons * p = p * k + p /\ Coupons # 0
    BY <1>1, <2>2, <2>6
  <2> QED
    BY <1>1, <1>2, <1>3, <1>4, <2>2, <2>5, <2>7 DEF p, s, n, x
<1> QED
  BY <1>7, <1>8

-----------------------------------------------------------------------------
(* Sums of earnings. *)

(* The fills of an account that made all of them and only buys.            *)
LEMMA TradesOf ==
  ASSUME Shape, Fates, NEW g, OnlyBuys(g)
  PROVE  /\ IsFiniteSet(Trades) /\ Trades \subseteq Legs /\ Orders(g, Bond) = Trades
         /\ \A l \in Trades : BoughtOf[l] = Answer(l).qty /\ BoughtOf[l] \in Nat
         /\ Bought(g, Bond) = Sum(BoughtOf, Trades) /\ Bought(g, Bond) \in Nat
<1>1. Trades \subseteq Legs /\ Orders(g, Bond) = Trades
  BY DEF Trades, Orders, OnlyBuys
<1>2. IsFiniteSet(Trades)
  BY <1>1, FiniteLegs, FS_Subset
<1>3. \A l \in Trades : BoughtOf[l] = Answer(l).qty /\ BoughtOf[l] \in Nat
  BY <1>1 DEF BoughtOf, Fates, OnlyBuys
<1>4. Bought(g, Bond) = Sum(BoughtOf, Trades) /\ Bought(g, Bond) \in Nat
  BY <1>1, <1>2, <1>3, SumNat DEF Bought
<1> QED
  BY <1>1, <1>2, <1>3, <1>4

LEMMA EarningsInt ==
  ASSUME Shape, Fates, Times, NEW l \in Trades, NEW time \in Nat
  PROVE  /\ l \in Legs /\ Answer(l).qty \in Nat /\ Answer(l).at \in Nat /\ CouponAt(time) \in Nat
         /\ Earnings(time)[l] = Answer(l).qty * (time - Max({CouponAt(time), Answer(l).at}))
         /\ Max({CouponAt(time), Answer(l).at}) =
              IF CouponAt(time) >= Answer(l).at THEN CouponAt(time) ELSE Answer(l).at
         /\ Earnings(time)[l] \in Int
<1>1. l \in Legs /\ Answer(l).qty \in Nat /\ Answer(l).at \in Nat
  BY DEF Trades, Fates, Times
<1>2. CouponAt(time) \in Nat
  BY PeriodOf, AccountAssumption DEF AccountAssumption, CouponAt
<1> DEFINE m == Max({CouponAt(time), Answer(l).at})
<1>3. m = IF CouponAt(time) >= Answer(l).at THEN CouponAt(time) ELSE Answer(l).at
  BY <1>1, <1>2, MaxPair
<1>4. Earnings(time)[l] = Answer(l).qty * (time - m)
  BY <1>1 DEF Earnings
<1> HIDE DEF m
<1>5. m \in Int
  BY <1>1, <1>2, <1>3
<1>6. Answer(l).qty * (time - m) \in Int
  BY <1>1, <1>5
<1> QED
  BY <1>1, <1>2, <1>3, <1>4, <1>6 DEF m

(* Who bought nothing earns nothing.                                       *)
LEMMA NothingEarned ==
  ASSUME Shape, Fates, Times, NEW g, OnlyBuys(g), Bought(g, Bond) = 0, NEW time \in Nat
  PROVE  Earned(time) = 0
<1>1. /\ IsFiniteSet(Trades) /\ \A l \in Trades : BoughtOf[l] = Answer(l).qty /\ BoughtOf[l] \in Nat
      /\ Sum(BoughtOf, Trades) = 0
  BY TradesOf
<1>2. ASSUME NEW l \in Trades
      PROVE  Earnings(time)[l] = 0
  <2>1. Sum(BoughtOf, Trades) = BoughtOf[l] + Sum(BoughtOf, Trades \ {l})
    BY <1>1, SumRemove
  <2>2. Sum(BoughtOf, Trades \ {l}) \in Nat
    <3>1. IsFiniteSet(Trades \ {l}) /\ \A x \in Trades \ {l} : BoughtOf[x] \in Nat
      BY <1>1, FS_Subset
    <3> HIDE DEF BoughtOf
    <3> QED
      BY <3>1, SumNat
  <2>3. Answer(l).qty = 0
    BY <1>1, <2>1, <2>2
  <2> DEFINE m == Max({CouponAt(time), Answer(l).at})
  <2>4. Earnings(time)[l] = Answer(l).qty * (time - m) /\ m \in Int
    BY EarningsInt
  <2> HIDE DEF m
  <2> QED
    BY <2>3, <2>4
<1> QED
  BY <1>1, <1>2, SumZero DEF Earned

(* What is earned from the last boundary with the bond to this one.        *)
LEMMA EarnedSince ==
  ASSUME Shape, Clock, Fates, Times, NEW g, OnlyBuys(g), schedule.active,
         now < terms.maturity, \A l \in Trades : Answer(l).at <= schedule.last
  PROVE  /\ Coupons = 0 => Earned(now) = Earned(schedule.last)
                                         + (now - schedule.last) * Bought(g, Bond)
         /\ Coupons # 0 => Earned(now) = (now - CouponAt(now)) * Bought(g, Bond)
         /\ Earned(schedule.last) \in Int /\ Earned(now) \in Int
<1> DEFINE s == schedule.last
           n == now
<1>1. s \in Nat /\ n \in Nat /\ s <= n /\ schedule.next = CouponAt(s) + Period
  BY DEF Clock, Times
<1>2. /\ CouponAt(n) \in Nat /\ CouponAt(s) \in Nat
      /\ CouponAt(s) <= s /\ CouponAt(n) <= n
      /\ Coupons = 0 => CouponAt(n) = CouponAt(s)
      /\ Coupons # 0 => CouponAt(n) > s
  BY <1>1, CouponsBetween
<1>3. /\ IsFiniteSet(Trades) /\ \A l \in Trades : BoughtOf[l] = Answer(l).qty /\ BoughtOf[l] \in Nat
      /\ Bought(g, Bond) = Sum(BoughtOf, Trades) /\ Bought(g, Bond) \in Nat
  BY TradesOf
<1>4. \A l \in Trades : Answer(l).at <= s
  OBVIOUS
<1> HIDE DEF s, n
<1>5. ASSUME NEW l \in Trades
      PROVE  /\ Earnings(s)[l] \in Int /\ Earnings(n)[l] \in Int
             /\ Coupons = 0 => Earnings(n)[l] = Earnings(s)[l] + (n - s) * BoughtOf[l]
             /\ Coupons # 0 => Earnings(n)[l] = (n - CouponAt(n)) * BoughtOf[l]
  <2> DEFINE q == Answer(l).qty
             at == Answer(l).at
             c == CouponAt(s)
             d == CouponAt(n)
             ms == Max({c, at})
             mn == Max({d, at})
  <2>1. /\ q \in Nat /\ at \in Nat /\ at <= s /\ q = BoughtOf[l]
        /\ Earnings(s)[l] = q * (s - ms) /\ ms = (IF c >= at THEN c ELSE at)
        /\ Earnings(s)[l] \in Int
    BY <1>1, <1>3, <1>4, EarningsInt
  <2>2. /\ Earnings(n)[l] = q * (n - mn) /\ mn = (IF d >= at THEN d ELSE at)
        /\ Earnings(n)[l] \in Int
    BY <1>1, EarningsInt
  <2> HIDE DEF q, at, ms, mn
  <2>3. ms \in Int /\ mn \in Int
    BY <1>2, <2>1, <2>2
  <2>4. CASE Coupons = 0
    <3>1. ms = mn
      BY <1>2, <2>1, <2>2, <2>4
    <3>2. q * (n - ms) = q * (s - ms) + (n - s) * q
      BY <1>1, <2>1, <2>3
    <3> QED
      BY <2>1, <2>2, <2>4, <3>1, <3>2
  <2>5. CASE Coupons # 0
    <3>1. mn = d
      BY <1>1, <1>2, <2>1, <2>2, <2>5
    <3>2. q * (n - d) = (n - d) * q
      BY <1>1, <1>2, <2>1
    <3> QED
      BY <2>1, <2>2, <2>5, <3>1, <3>2
  <2> QED
    BY <2>1, <2>2, <2>4, <2>5
<1>6. Earned(s) \in Int /\ Earned(n) \in Int
  BY <1>3, <1>5, SumInt DEF Earned
<1>7. ASSUME Coupons = 0
      PROVE  Earned(n) = Earned(s) + (n - s) * Bought(g, Bond)
  <2> DEFINE k == n - s
             More == [l \in Trades |-> k * BoughtOf[l]]
             E == Earnings(s)
             E2 == Earnings(n)
  <2>1. \A l \in Trades : BoughtOf[l] \in Int /\ More[l] = k * BoughtOf[l] /\ More[l] \in Int
    BY <1>1, <1>3
  <2>2. \A l \in Trades : E[l] \in Int /\ E2[l] = E[l] + More[l]
    BY <1>5, <1>7
  <2>3. k \in Int
    BY <1>1
  <2> HIDE DEF k, More, E, E2
  <2>4. Sum(More, Trades) = k * Sum(BoughtOf, Trades)
    BY <1>3, <2>1, <2>3, SumScale
  <2>5. Sum(E2, Trades) = Sum(E, Trades) + Sum(More, Trades)
    BY <1>3, <2>1, <2>2, SumPlus
  <2> QED
    BY <1>3, <2>4, <2>5 DEF Earned, E, E2, k
<1>8. ASSUME Coupons # 0
      PROVE  Earned(n) = (n - CouponAt(n)) * Bought(g, Bond)
  <2> DEFINE k == n - CouponAt(n)
             E2 == Earnings(n)
  <2>1. \A l \in Trades : BoughtOf[l] \in Int /\ E2[l] = k * BoughtOf[l]
    BY <1>3, <1>5, <1>8
  <2>2. k \in Int
    BY <1>1, <1>2
  <2> HIDE DEF k, E2
  <2>3. Sum(E2, Trades) = k * Sum(BoughtOf, Trades)
    BY <1>3, <2>1, <2>2, SumScale
  <2> QED
    BY <1>3, <2>3 DEF Earned, E2, k
<1> QED
  BY <1>6, <1>7, <1>8 DEF s, n

-----------------------------------------------------------------------------
(* What the interest is when the orders of an agent begin. *)

LEMMA SeededBond ==
  ASSUME NEW t, t \in AccountRecords
  PROVE  Seeded(t).units = t.units /\ Seeded(t).accrued = t.accrued
BY DEF Seeded, AccountRecords

LEMMA NoticeBond ==
  ASSUME NEW t, t \in AccountRecords, NEW n, n.type # "bond_accrual"
  PROVE  LET u == WithNotice(t, n).acct
         IN  IF n.type = "redemption" THEN u.units[Bond] = 0 /\ u.accrued = 0
             ELSE u.units[Bond] = t.units[Bond] /\ u.accrued = t.accrued
<1>1. Bond \in Asset
  BY AccountAssumption DEF AccountAssumption, Asset
<1> QED
  BY <1>1 DEF WithNotice, AccountRecords

(* The schedule adds what is earned from the cursor, or from a coupon.     *)
LEMMA ScheduleBond ==
  ASSUME Clock, Times, schedule.active, NEW t, t \in AccountRecords,
         cursor = schedule.last, now < terms.maturity
  PROVE  LET u == WithSchedule(t).acct
             b == t.units[Bond]
         IN  /\ u.units[Bond] = b
             /\ Coupons = 0 => u.accrued = t.accrued + b * Interest * (now - schedule.last)
             /\ Coupons # 0 => u.accrued = b * Interest * (now - CouponAt(now))
<1> DEFINE u == WithSchedule(t).acct
           b == t.units[Bond]
           s == schedule.last
           n == now
           x == schedule.next + (Coupons - 1) * Period
           begun == IF Coupons = 0 THEN cursor ELSE Max({cursor, x})
           late == Max({0, Cutoff - begun})
           kept == IF Coupons = 0 THEN t.accrued ELSE 0
<1>1. /\ s \in Nat /\ n \in Nat /\ s <= n /\ terms.maturity \in Nat
      /\ schedule.next = CouponAt(s) + Period
  BY AccountAssumption DEF AccountAssumption, Clock, Times
<1>2. /\ Cutoff = n /\ CouponAt(n) \in Nat /\ CouponAt(n) <= n
      /\ Coupons # 0 => CouponAt(n) = x /\ CouponAt(n) > s
  BY <1>1, CouponsBetween
<1>3. /\ b \in Int /\ t.accrued \in Int /\ Interest \in Nat
      /\ Bond \in Asset
  BY AccountAssumption DEF AccountRecords, AccountAssumption, Asset
<1>4. u.units[Bond] = b /\ u.accrued = kept + b * Interest * late
  <2>1. ~(now >= terms.maturity)
    BY <1>1
  <2>2. u.units[Bond] = IF now >= terms.maturity THEN 0 ELSE t.units[Bond]
    BY <1>3, <2>1 DEF WithSchedule, AccountRecords
  <2>3. u.accrued = kept + b * Interest * late
    BY <2>1 DEF WithSchedule, AccountRecords
  <2> QED
    BY <2>1, <2>2, <2>3
<1>5. Coupons = 0 => late = n - s
  <2> SUFFICES ASSUME Coupons = 0 PROVE late = n - s
    OBVIOUS
  <2>1. late = Max({0, n - s})
    BY <1>2
  <2>2. n - s \in Int /\ n - s >= 0
    BY <1>1
  <2> QED
    BY <2>1, <2>2, MaxPair
<1>6. Coupons # 0 => late = n - CouponAt(n)
  <2> SUFFICES ASSUME Coupons # 0 PROVE late = n - CouponAt(n)
    OBVIOUS
  <2> DEFINE c == CouponAt(n)
  <2>1. x = c /\ c > s /\ c \in Nat
    BY <1>2
  <2>2. Max({s, c}) = c
    BY <1>1, <2>1, MaxPair
  <2>3. begun = c
    BY <2>1, <2>2
  <2>4. late = Max({0, n - c})
    BY <1>2, <2>3
  <2>5. n - c \in Int /\ n - c >= 0
    BY <1>1, <1>2
  <2> QED
    BY <2>4, <2>5, MaxPair
<1>7. Coupons # 0 => b * Interest * (n - CouponAt(n)) \in Int
  BY <1>1, <1>2, <1>3
<1> HIDE DEF u, b, s, n, late
<1>8. Coupons = 0 => u.accrued = t.accrued + b * Interest * (n - s)
  BY <1>4, <1>5
<1>9. Coupons # 0 => u.accrued = b * Interest * (n - CouponAt(n))
  BY <1>4, <1>6, <1>7
<1> QED
  BY <1>4, <1>8, <1>9 DEF u, b, s, n

LEMMA InterestBegins ==
  ASSUME World, Accounts, Times, Interests, stage = "agents", NEW g \in Agents, g \in todo,
         Accrues, OnlyBuys(g), BeforeOrders(book[g]).acct.units[Bond] = Bought(g, Bond)
  PROVE  BeforeOrders(book[g]).acct.accrued = Interest * Earned(CallTime)
<1> DEFINE t == book[g]
           u == BeforeOrders(t).acct
           s == Seeded(t)
           n == IF Announced THEN WithNotice(s, notice) ELSE [acct |-> s, paid |-> 0]
           v == n.acct
           B == Bought(g, Bond)
<1>1. Shape /\ Clock /\ Fates /\ schedule.active /\ (cursor # NA => now < terms.maturity)
  BY DEF World, Accrues
<1>2. Account(t) /\ Solvent(t) /\ t \in AccountRecords
  BY DEF Accounts, Account
<1>3. /\ Interest \in Nat /\ Bond \in Spot /\ Bond \in Asset /\ NA \notin Int
      /\ now \in Nat /\ schedule.last \in Nat /\ schedule.last <= now
  BY <1>1, AccountAssumption DEF AccountAssumption, Asset, Clock, Times
<1>4. CallTime \in Nat
  BY <1>3 DEF CallTime
<1>5. Pays(t, u, BeforeOrders(t).paid)
  BY <1>1, <1>2, BeforeOrdersPays
<1>6. Account(u) /\ (u.units[Bond] = t.units[Bond] \/ u.units[Bond] = 0)
  BY <1>3, <1>5 DEF Pays
<1>7. CASE u.units[Bond] = 0
  <2>1. u.accrued = 0
    BY <1>6, <1>7 DEF Account
  <2>2. Earned(CallTime) = 0
    BY <1>1, <1>4, <1>7, NothingEarned
  <2> QED
    BY <1>3, <2>1, <2>2
<1>8. CASE u.units[Bond] # 0
  <2>1. t.units[Bond] = B /\ B # 0 /\ B \in Int
    BY <1>1, <1>6, <1>8, TradesOf
  <2>2. t.accrued = Interest * Earned(schedule.last)
    BY <2>1 DEF Interests, Horizon, Ahead
  <2>3. s.units = t.units /\ s.accrued = t.accrued /\ Fine(s) /\ s \in AccountRecords
    BY <1>1, <1>2, SeededBond, SeededPays DEF Pays, Fine, Account
  <2>4. u = IF Scheduled(v) THEN WithSchedule(v).acct ELSE v
    BY DEF BeforeOrders
  <2>5. v \in AccountRecords /\ (v.units[Bond] = 0 \/ (v.units[Bond] = B /\ v.accrued = t.accrued))
    <3>1. CASE ~Announced
      BY <2>1, <2>3, <3>1
    <3>2. CASE Announced
      <4>1. notice.type # "bond_accrual"
        BY <3>2 DEF Announced, Times
      <4>2. Pays(s, v, n.paid)
        BY <1>1, <2>3, <3>2, NoticePays
      <4> QED
        BY <2>1, <2>3, <3>2, <4>1, <4>2, NoticeBond DEF Pays, Account
    <3> QED
      BY <3>1, <3>2
  <2>6. CASE cursor = NA
    <3>1. Bond \notin Batch /\ CallTime = schedule.last
      BY <1>1, <2>6 DEF Times, CallTime
    <3>2. v = s
      BY <3>1 DEF Announced
    <3>3. ~Scheduled(v)
      BY <2>6 DEF Scheduled
    <3> QED
      BY <2>2, <2>3, <2>4, <3>1, <3>2, <3>3
  <2>7. CASE cursor # NA
    <3> HIDE DEF n
    <3>1. v.units[Bond] = B /\ v.accrued = t.accrued
      <4> SUFFICES ASSUME v.units[Bond] = 0 PROVE FALSE
        BY <2>5
      <4> QED
        BY <1>8, <2>4 DEF Scheduled
    <3>2. Scheduled(v)
      BY <2>1, <2>7, <3>1 DEF Scheduled
    <3>3. cursor = schedule.last /\ CallTime = now
      BY <2>7 DEF Times, CallTime
    <3> HIDE DEF v, u, s, t
    <3>4. /\ Coupons = 0 => u.accrued = t.accrued + B * Interest * (now - schedule.last)
          /\ Coupons # 0 => u.accrued = B * Interest * (now - CouponAt(now))
      BY <1>1, <2>4, <2>5, <2>7, <3>1, <3>2, <3>3, ScheduleBond
    <3>5. \A l \in Trades : Answer(l).at <= schedule.last
      BY <1>1 DEF Times, OnlyBuys, Horizon, Ahead
    <3>6. /\ Coupons = 0 => Earned(now) = Earned(schedule.last) + (now - schedule.last) * B
          /\ Coupons # 0 => Earned(now) = (now - CouponAt(now)) * B
          /\ Earned(schedule.last) \in Int
      BY <1>1, <2>7, <3>5, EarnedSince
    <3> DEFINE e == Earned(schedule.last)
               k == now - schedule.last
               d == now - CouponAt(now)
    <3>7. k \in Int /\ d \in Int /\ e \in Int
      <4>1. CouponAt(now) \in Nat
        BY <1>3, PeriodOf, AccountAssumption DEF AccountAssumption, CouponAt
      <4> QED
        BY <1>3, <3>6, <4>1
    <3> HIDE DEF k, d, e, B
    <3>8. /\ Interest * (e + k * B) = Interest * e + B * Interest * k
          /\ Interest * (d * B) = B * Interest * d
      BY <1>3, <2>1, <3>7
    <3> QED
      BY <2>2, <3>3, <3>4, <3>6, <3>8 DEF k, d, e, u, t, B
  <2> QED
    BY <2>6, <2>7
<1> QED
  BY <1>7, <1>8

-----------------------------------------------------------------------------
(* The interest of a running call. *)

LEMMA SameTrades ==
  ASSUME UNCHANGED <<placed, fate>>
  PROVE  /\ Trades' = Trades
         /\ \A g : OnlyBuys(g)' = OnlyBuys(g)
         /\ \A time : Earned(time)' = Earned(time)
<1>1. Legs' = Legs /\ \A l : Leg(l)' = Leg(l) /\ Answer(l)' = Answer(l)
  BY SameOrders
<1>2. Trades' = Trades
  BY <1>1 DEF Trades
<1>3. \A g : OnlyBuys(g)' = OnlyBuys(g)
  BY <1>1, <1>2 DEF OnlyBuys
<1>4. \A time : Earnings(time)' = Earnings(time)
  BY <1>1 DEF Earnings, CouponAt, Answer
<1>5. \A time : Earned(time)' = Earned(time)
  BY <1>2, <1>4, Zenon DEF Earned
<1> QED
  BY <1>2, <1>3, <1>5

(* The accounts and the times stay as they are if the same agent is called *)
(* and the clock, the cursors and the orders do not change.                *)
LEMMA SameTimes ==
  ASSUME Times, Interests, UNCHANGED <<terms, now, bars, todo, stage, placed, fate, book,
                                       schedule, cursor, notice>>,
         call = NA <=> call' = NA, call # NA => call'.agent = call.agent
  PROVE  Times' /\ Interests'
<1>1. /\ Trades' = Trades /\ Legs' = Legs
      /\ \A g : OnlyBuys(g)' = OnlyBuys(g)
      /\ \A time : Earned(time)' = Earned(time)
      /\ \A l : Leg(l)' = Leg(l) /\ Answer(l)' = Answer(l)
      /\ \A g, a : Bought(g, a)' = Bought(g, a)
  BY SameTrades, SameOrders
<1>2. Batch' = Batch /\ \A g : Ahead(g)' = Ahead(g)
  BY DEF Batch, Ahead
<1>3. \A g : Horizon(g)' = Horizon(g)
  BY <1>2 DEF Horizon
<1>4. \A time : CouponAt(time)' = CouponAt(time)
  BY DEF CouponAt
<1>5. Times'
  BY <1>1, <1>2, <1>3, <1>4 DEF Times
<1>6. Interests'
  <2> SUFFICES ASSUME NEW g \in Agents, Accrues', OnlyBuys(g)',
                      book'[g].units[Bond] = Bought(g, Bond)'
               PROVE  book'[g].accrued = Interest * Earned(Horizon(g))'
    BY DEF Interests
  <2>1. Accrues /\ OnlyBuys(g) /\ book[g].units[Bond] = Bought(g, Bond)
    BY <1>1 DEF Accrues
  <2>2. book[g].accrued = Interest * Earned(Horizon(g))
    BY <2>1 DEF Interests
  <2>3. Earned(Horizon(g))' = Earned(Horizon(g))
    BY <1>1, <1>3
  <2> QED
    BY <2>2, <2>3
<1> QED
  BY <1>5, <1>6

(* Answers that fill nothing leave the interest of an account as it was.   *)
LEMMA InterestUnexecuted ==
  ASSUME Answering, UNCHANGED <<terms, now, bars, placed, fate, schedule, cursor, call.agent>>,
         NEW legs \in SUBSET Answered, NEW more, more \subseteq Answered',
         legs \subseteq more, IsFiniteSet(more),
         \A l \in legs : call'.rows[l] = call.rows[l],
         \A l \in more \ legs : call'.rows[l].status # "filled",
         NEW t, CallInterest(t, legs),
         Accrues', OnlyBuys(call.agent)',
         \A l \in more : IsFilled(l)' /\ Leg(l)'.asset = Bond => Leg(l)'.side = "buy",
         t.units[Bond] = Bought(call.agent, Bond)' + Sum(UnitFlows'[Bond], more)
  PROVE  t.accrued = Interest * Earned(CallTime)'
<1>1. /\ OnlyBuys(call.agent)' = OnlyBuys(call.agent)
      /\ \A l : Leg(l)' = Leg(l)
      /\ Bought(call.agent, Bond)' = Bought(call.agent, Bond)
  BY SameTrades, SameOrders
<1>2. Accrues
  BY DEF Accrues
<1>3. BondBuys(legs)
  BY <1>1 DEF BondBuys, IsFilled
<1> DEFINE U == UnitFlows[Bond]
           U2 == UnitFlows'[Bond]
<1>4. Bond \in Spot
  BY AccountAssumption DEF AccountAssumption
<1>5. \A l \in legs : U[l] \in Int /\ U2[l] = U[l]
  BY <1>4, FlowsInt, FlowsKept
<1>6. \A l \in more \ legs : U2[l] = 0
  BY <1>4, FlowsIdle
<1>7. IsFiniteSet(legs)
  BY FS_Subset
<1> HIDE DEF U, U2
<1>8. Sum(U2, more) = Sum(U2, legs)
  <2>1. legs \in SUBSET more /\ \A l \in legs : U2[l] \in Int
    BY <1>5
  <2> QED
    BY <1>6, <2>1, SumSub
<1>9. Sum(U, legs) = Sum(U2, legs)
  BY <1>5, <1>7, SumSame
<1>10. t.units[Bond] = Bought(call.agent, Bond) + Sum(U, legs)
  BY <1>1, <1>8, <1>9 DEF U2
<1>11. t.accrued = Interest * Earned(CallTime)
  BY <1>1, <1>2, <1>3, <1>10 DEF CallInterest, U
<1>12. CallTime' = CallTime
  BY DEF CallTime
<1>13. Earned(CallTime)' = Earned(CallTime)
  BY <1>12, SameTrades
<1> QED
  BY <1>11, <1>13

LEMMA InterestCalled ==
  ASSUME InterestInv, call # NA
  PROVE  /\ Answering /\ CallShape /\ CallRows /\ OneOpen /\ Owned
         /\ Times /\ Interests /\ CallInterests
         /\ IsFiniteSet(Answered) /\ IsFiniteSet(Earlier) /\ Earlier \in SUBSET Answered
<1>1. Answering /\ CallFrame
  BY LedgerAnswering DEF InterestInv
<1>2. CallShape /\ CallRows /\ OneOpen /\ Owned
  BY <1>1 DEF CallFrame
<1>3. IsFiniteSet(Answered) /\ Earlier \in SUBSET Answered
  BY <1>1, FiniteAnswers DEF Answering, Earlier
<1> QED
  BY <1>1, <1>2, <1>3, FS_Subset DEF InterestInv

(* What a step of a call has to show.                                      *)
LEMMA CallStep ==
  ASSUME NoCall, InterestInv, call # NA, Quiet, LedgerInv', UNCHANGED terms,
         DOMAIN call' = CallFields, call'.agent = call.agent, CallInterests'
  PROVE  InterestInv'
<1>1. call' # NA
  BY DEF NoCall
<1>2. Times' /\ Interests'
  BY <1>1, SameTimes DEF InterestInv, Quiet
<1> QED
  BY <1>2 DEF InterestInv

LEMMA OpenGroupInterest ==
  ASSUME NoCall, InterestInv, NEW l \in Legs, OpenGroup(l), UNCHANGED terms
  PROVE  InterestInv'
<1>1. call # NA /\ Quiet /\ LedgerInv' /\ IsNext(l) /\ l[1] # call.open
  BY OpenGroupLedger DEF OpenGroup, InterestInv
<1>2. /\ Answering /\ CallShape /\ OneOpen /\ CallInterest(call.acct, Answered)
      /\ IsFiniteSet(Answered) /\ Shape
  BY <1>1, InterestCalled DEF CallInterests, Answering
<1>3. /\ DOMAIN call' = CallFields /\ call'.open = l[1] /\ call'.saved = call.acct
      /\ UNCHANGED <<call.agent, call.acct, call.todo, call.rows>>
  BY <1>2 DEF OpenGroup, CallShape, CallFields
<1>4. Answered' = Answered /\ Earlier' = Answered
  <2>1. \A r \in Answered : r[1] # l[1]
    BY <1>1, <1>2, FreshGroup
  <2> QED
    BY <1>3, <2>1 DEF Answered, Earlier
<1>5. UNCHANGED <<terms, now, bars, placed, fate, schedule, cursor, call.agent>>
  BY <1>1, <1>3 DEF Quiet
<1>6. ASSUME Accrues', OnlyBuys(call.agent)',
             \A r \in Answered : IsFilled(r)' /\ Leg(r)'.asset = Bond => Leg(r)'.side = "buy",
             call.acct.units[Bond] = Bought(call.agent, Bond)' + Sum(UnitFlows'[Bond], Answered)
      PROVE  call.acct.accrued = Interest * Earned(CallTime)'
  <2>1. /\ Answered \in SUBSET Answered /\ Answered \subseteq Answered'
        /\ \A r \in Answered : call'.rows[r] = call.rows[r]
    BY <1>3, <1>4
  <2> QED
    BY <1>2, <1>5, <1>6, <2>1, InterestUnexecuted
<1>7. CallInterests'
  BY <1>3, <1>4, <1>6 DEF CallInterests, CallInterest, BondBuys
<1> QED
  BY <1>1, <1>3, <1>7, CallStep

LEMMA SkipGroupInterest ==
  ASSUME NoCall, InterestInv, NEW l \in Legs, SkipGroup(l), UNCHANGED terms
  PROVE  InterestInv'
<1>1. call # NA /\ Quiet /\ LedgerInv'
  BY SkipGroupLedger DEF SkipGroup, InterestInv
<1>2. /\ Answering /\ CallShape /\ Owned /\ CallInterests
      /\ IsFiniteSet(Answered) /\ Earlier \in SUBSET Answered /\ Shape
  BY <1>1, InterestCalled DEF Answering
<1>3. PICK status \in {"accepted", "rejected", "cancelled"} :
        call' = [call EXCEPT !.rows = Unexecuted(Peers(l), status), !.todo = @ \ Peers(l)]
  BY DEF SkipGroup
<1>4. /\ DOMAIN call' = CallFields /\ call'.rows = Unexecuted(Peers(l), status)
      /\ UNCHANGED <<call.agent, call.acct, call.saved, call.open>>
  BY <1>2, <1>3 DEF CallShape, CallFields
<1>5. Peers(l) \subseteq call.todo /\ Peers(l) \cap Answered = {}
  BY <1>2, PeersOfGroup DEF Owned
<1>6. /\ Answered' = Answered \cup Peers(l)
      /\ \A r \in Answered : call'.rows[r] = call.rows[r]
      /\ \A r \in Peers(l) : call'.rows[r].status # "filled"
  BY <1>4, <1>5 DEF Unexecuted, Answered, Row
<1>7. IsFiniteSet(Answered') /\ IsFiniteSet(Earlier')
  <2>1. Answered' \subseteq Legs /\ IsFiniteSet(Legs) /\ Earlier' \subseteq Answered'
    BY <1>2, <1>5, <1>6, FiniteAnswers DEF CallShape, Touched, Earlier
  <2> QED
    BY <2>1, FS_Subset
<1>8. UNCHANGED <<terms, now, bars, placed, fate, schedule, cursor, call.agent>>
  BY <1>1, <1>4 DEF Quiet
<1>9. ASSUME Accrues', OnlyBuys(call.agent)',
             \A r \in Answered' : IsFilled(r)' /\ Leg(r)'.asset = Bond => Leg(r)'.side = "buy",
             call.acct.units[Bond] = Bought(call.agent, Bond)' + Sum(UnitFlows'[Bond], Answered')
      PROVE  call.acct.accrued = Interest * Earned(CallTime)'
  <2>1. \A r \in Answered' \ Answered : call'.rows[r].status # "filled"
    BY <1>6
  <2> QED
    BY <1>2, <1>6, <1>7, <1>8, <1>9, <2>1, InterestUnexecuted DEF CallInterests
<1>10. ASSUME Accrues', OnlyBuys(call.agent)',
              \A r \in Earlier' : IsFilled(r)' /\ Leg(r)'.asset = Bond => Leg(r)'.side = "buy",
              call.saved.units[Bond] = Bought(call.agent, Bond)' + Sum(UnitFlows'[Bond], Earlier')
       PROVE  call.saved.accrued = Interest * Earned(CallTime)'
  <2>1. /\ Earlier \subseteq Earlier' /\ Earlier' \subseteq Answered'
        /\ \A r \in Earlier' \ Earlier : call'.rows[r].status # "filled"
        /\ \A r \in Earlier : call'.rows[r] = call.rows[r]
    BY <1>4, <1>6 DEF Earlier
  <2> QED
    BY <1>2, <1>7, <1>8, <1>10, <2>1, InterestUnexecuted DEF CallInterests
<1>11. CallInterests'
  BY <1>4, <1>9, <1>10 DEF CallInterests, CallInterest, BondBuys
<1> QED
  BY <1>1, <1>4, <1>11, CallStep

LEMMA RollBackInterest ==
  ASSUME NoCall, InterestInv, NEW l \in Legs, RollBack(l), UNCHANGED terms
  PROVE  InterestInv'
<1>1. call # NA /\ Quiet /\ LedgerInv' /\ IsNext(l) /\ l[1] = call.open
  BY RollBackLedger DEF RollBack, InterestInv
<1>2. /\ Answering /\ CallShape /\ Owned /\ CallInterest(call.saved, Earlier)
      /\ IsFiniteSet(Earlier) /\ Earlier \in SUBSET Answered /\ Shape
  BY <1>1, InterestCalled DEF CallInterests, Answering
<1> DEFINE group == Peers(l) \cup {m \in Answered : m[1] = l[1]}
<1>3. /\ DOMAIN call' = CallFields
      /\ call'.rows = Unexecuted(group, "rejected") /\ call'.acct = call.saved
      /\ UNCHANGED <<call.agent, call.saved, call.open>>
  BY <1>2 DEF RollBack, CallShape, CallFields, Answered
<1>4. group \subseteq Touched /\ \A m \in Touched : m \in group <=> m[1] = call.open
  BY <1>1, PeersOfGroup DEF Touched
<1> HIDE DEF group
<1>5. /\ Answered' = Answered \cup group
      /\ \A r \in Answered \ group : call'.rows[r] = call.rows[r]
      /\ \A r \in group : call'.rows[r].status # "filled"
  BY <1>3 DEF Unexecuted, Answered, Row
<1>6. Earlier' = Earlier /\ Earlier = Answered \ group /\ Earlier \subseteq Answered'
  BY <1>3, <1>4, <1>5 DEF Earlier, Touched
<1>7. IsFiniteSet(Answered')
  <2>1. Answered' \subseteq Legs /\ IsFiniteSet(Legs)
    BY <1>2, <1>4, <1>5, FiniteAnswers DEF CallShape, Touched
  <2> QED
    BY <2>1, FS_Subset
<1>8. UNCHANGED <<terms, now, bars, placed, fate, schedule, cursor, call.agent>>
  BY <1>1, <1>3 DEF Quiet
<1>9. \A r \in Earlier : call'.rows[r] = call.rows[r]
  BY <1>5, <1>6
<1>10. ASSUME Accrues', OnlyBuys(call.agent)',
              \A r \in Answered' : IsFilled(r)' /\ Leg(r)'.asset = Bond => Leg(r)'.side = "buy",
              call.saved.units[Bond] = Bought(call.agent, Bond)' + Sum(UnitFlows'[Bond], Answered')
       PROVE  call.saved.accrued = Interest * Earned(CallTime)'
  <2>1. \A r \in Answered' \ Earlier : call'.rows[r].status # "filled"
    BY <1>5, <1>6
  <2> QED
    BY <1>2, <1>6, <1>7, <1>8, <1>9, <1>10, <2>1, InterestUnexecuted
<1>11. ASSUME Accrues', OnlyBuys(call.agent)',
              \A r \in Earlier : IsFilled(r)' /\ Leg(r)'.asset = Bond => Leg(r)'.side = "buy",
              call.saved.units[Bond] = Bought(call.agent, Bond)' + Sum(UnitFlows'[Bond], Earlier)
       PROVE  call.saved.accrued = Interest * Earned(CallTime)'
  BY <1>2, <1>6, <1>8, <1>9, <1>11, InterestUnexecuted
<1>12. CallInterests'
  BY <1>3, <1>6, <1>10, <1>11 DEF CallInterests, CallInterest, BondBuys
<1> QED
  BY <1>1, <1>3, <1>12, CallStep

(* Only a sale of the bond touches the interest.                           *)
LEMMA SpotAccrued ==
  ASSUME Shape, NEW l \in Legs, Leg(l).asset \in Spot, NEW t, Account(t), NEW q \in Nat,
         Leg(l).asset = Bond => Leg(l).side = "buy"
  PROVE  SpotLeg(t, l, q).acct.accrued = t.accrued
<1> DEFINE delta == SpotDelta(t, l, q)
           a == Leg(l).asset
           u == SpotTraded(t, l, delta)
<1>1. t \in AccountRecords /\ delta \in Int /\ (a = Bond => delta >= 0 /\ t.units[a] >= 0)
  BY SpotDeltaTypes DEF Account
<1>2. t.units[a] \in Int
  BY <1>1, LegTypes DEF AccountRecords
<1>3. u.accrued = IF a = Bond /\ t.units[a] + delta = 0 THEN 0 ELSE t.accrued
  BY <1>1 DEF SpotTraded, AccountRecords
<1> HIDE DEF delta, u, a
<1>4. delta # 0 => u.accrued = t.accrued
  BY <1>1, <1>2, <1>3
<1>5. SpotLeg(t, l, q).acct \in {t, u} /\ (SpotLeg(t, l, q).acct = t \/ delta # 0)
  BY DEF SpotLeg, Refused, NoChange, delta, u
<1> QED
  BY <1>4, <1>5

LEMMA FutureAccrued ==
  ASSUME NEW t, t \in AccountRecords, NEW l, NEW q
  PROVE  FutureLeg(t, l, q).acct.accrued = t.accrued
<1> DEFINE a == Leg(l).asset
           change == TargetUnits(l, t.units[a], q) - t.units[a]
           lots == Lots(t, l, change)
           u == FutureFilled(t, l, K!Sign(change) * lots)
<1>1. u.accrued = t.accrued
  BY DEF FutureFilled, Traded, AccountRecords
<1>2. FutureLeg(t, l, q).acct \in {t, u}
  BY DEF FutureLeg, Refused, NoChange
<1> HIDE DEF u
<1> QED
  BY <1>1, <1>2

LEMMA OutcomeAccrued ==
  ASSUME Shape, NEW l \in Legs, NEW t, Account(t), NEW q \in Nat,
         Leg(l).asset = Bond => Leg(l).side = "buy"
  PROVE  Outcome(t, l, q).acct.accrued = t.accrued
BY SpotAccrued, FutureAccrued DEF Outcome, Account

LEMMA ExecuteLegInterest ==
  ASSUME NoCall, InterestInv, NEW l \in Legs, ExecuteLeg(l), UNCHANGED terms
  PROVE  InterestInv'
<1>1. call # NA /\ Quiet /\ LedgerInv' /\ l \in call.todo /\ l[1] = call.open
  BY ExecuteLegLedger DEF ExecuteLeg, IsNext, InterestInv
<1>2. /\ Answering /\ CallShape /\ Owned /\ CallRows /\ CallInterests /\ IsFiniteSet(Answered)
      /\ IsFiniteSet(Earlier) /\ Earlier \in SUBSET Answered /\ Shape /\ Clock /\ Fine(call.acct)
  BY <1>1, InterestCalled DEF Answering
<1> DEFINE out == Outcome(call.acct, l, call.qty[l])
           t == call.acct
           row == out.row
           u == out.acct
<1>3. Leg(l).asset \in Batch /\ call.qty[l] \in Nat /\ l \notin Answered
  BY <1>1, <1>2 DEF CallRows, Owned, Touched
<1>4. Effect(t, l, out) /\ ((Leg(l).asset = Bond => Leg(l).side = "buy") => u.accrued = t.accrued)
  BY <1>2, <1>3, OutcomeEffect, OutcomeAccrued DEF Fine
<1>5. /\ DOMAIN call' = CallFields /\ call'.acct = u
      /\ call'.rows = [m \in Answered \cup {l} |-> IF m = l THEN row ELSE call.rows[m]]
      /\ UNCHANGED <<call.agent, call.saved, call.open>>
  BY <1>2 DEF ExecuteLeg, CallShape, CallFields, Answered
<1>6. /\ row.status \in Statuses
      /\ row.status # "filled" => u = t
      /\ row.status = "filled" =>
           \A a \in Spot : u.units[a] = t.units[a] + (IF Leg(l).asset = a
                                                      THEN FillUnits(l, row) ELSE 0)
      /\ FillUnits(l, row) \in Int
  BY <1>4, FillInt, <1>2, <1>3 DEF Effect, RowTypes
<1>7. (Leg(l).asset = Bond => Leg(l).side = "buy") => u.accrued = t.accrued
  BY <1>4
<1> HIDE DEF out, t, row, u
<1>8. /\ Answered' = Answered \cup {l} /\ call'.rows[l] = row
      /\ \A r \in Answered : call'.rows[r] = call.rows[r]
  BY <1>3, <1>5 DEF Answered
<1>9. UNCHANGED <<terms, now, bars, placed, fate, schedule, cursor, call.agent>>
  BY <1>1, <1>5 DEF Quiet
<1>10. ASSUME Accrues', OnlyBuys(call.agent)',
              \A r \in Earlier : IsFilled(r)' /\ Leg(r)'.asset = Bond => Leg(r)'.side = "buy",
              call.saved.units[Bond] = Bought(call.agent, Bond)' + Sum(UnitFlows'[Bond], Earlier)
       PROVE  call.saved.accrued = Interest * Earned(CallTime)'
  <2>1. /\ Earlier \subseteq Answered'
        /\ \A r \in Earlier : call'.rows[r] = call.rows[r]
    BY <1>2, <1>8
  <2> QED
    BY <1>2, <1>9, <1>10, <2>1, InterestUnexecuted DEF CallInterests
<1> DEFINE U == UnitFlows[Bond]
           U2 == UnitFlows'[Bond]
           B == Bought(call.agent, Bond)
<1>11. ASSUME Accrues', OnlyBuys(call.agent)',
              \A r \in Answered' : IsFilled(r)' /\ Leg(r)'.asset = Bond => Leg(r)'.side = "buy",
              u.units[Bond] = B' + Sum(U2, Answered')
       PROVE  u.accrued = Interest * Earned(CallTime)'
  <2>1. /\ OnlyBuys(call.agent)' = OnlyBuys(call.agent) /\ B' = B
        /\ \A r : Leg(r)' = Leg(r)
    BY <1>9, SameTrades, SameOrders
  <2>2. Bond \in Spot /\ Bond \in Asset
    BY AccountAssumption DEF AccountAssumption, Asset
  <2>3. \A r \in Answered : U[r] \in Int /\ U2[r] = U[r]
    BY <1>2, <1>8, <1>9, <2>2, FlowsInt, FlowsKept
  <2>4. U2[l] = IF row.status = "filled" /\ Leg(l).asset = Bond THEN FillUnits(l, row) ELSE 0
    <3>1. (IsFilled(l)' <=> row.status = "filled") /\ l \in Answered'
      BY <1>8 DEF IsFilled
    <3>2. FillUnits(l, call.rows[l])' = FillUnits(l, row)
      BY <1>8, <2>1 DEF FillUnits
    <3> QED
      BY <2>1, <2>2, <3>1, <3>2 DEF UnitFlows
  <2>5. u.units[Bond] = t.units[Bond] + U2[l] /\ U2[l] \in Int /\ t.units[Bond] \in Int
    <3>1. t.units[Bond] \in Int
      BY <1>2, <2>2 DEF Fine, Account, AccountRecords, t
    <3> QED
      BY <1>6, <2>2, <2>4, <3>1
  <2>6. B \in Int
    BY <1>1, BoughtInt DEF InterestInv, LedgerInv, World
  <2>7. u.units[Bond] = B + Sum(U2, Answered \cup {l})
    BY <1>8, <1>11, <2>1
  <2> HIDE DEF U, U2, B
  <2>8. t.units[Bond] = B + Sum(U, Answered)
    <3>1. Sum(U2, Answered \cup {l}) = Sum(U, Answered) + U2[l] /\ Sum(U, Answered) \in Int
      BY <1>2, <1>3, <2>3, <2>5, SumMore
    <3> DEFINE x == t.units[Bond]
               s == Sum(U, Answered)
               d == U2[l]
    <3>2. x + d = B + (s + d)
      BY <2>5, <2>7, <3>1
    <3>3. x \in Int /\ s \in Int /\ d \in Int
      BY <2>5, <3>1
    <3> HIDE DEF x, s, d
    <3>4. x = B + s
      BY <2>6, <3>2, <3>3
    <3> QED
      BY <3>4 DEF x, s
  <2>9. BondBuys(Answered)
    BY <1>8, <1>11, <2>1 DEF BondBuys, IsFilled
  <2>10. t.accrued = Interest * Earned(CallTime)
    <3>1. Accrues
      BY <1>9, <1>11 DEF Accrues
    <3> QED
      BY <1>2, <1>11, <2>1, <2>8, <2>9, <3>1 DEF CallInterests, CallInterest, t, U, B
  <2>11. u.accrued = t.accrued
    <3>1. row.status = "filled" => (Leg(l).asset = Bond => Leg(l).side = "buy")
      BY <1>8, <1>11, <2>1 DEF IsFilled
    <3> QED
      BY <1>6, <1>7, <3>1
  <2>12. CallTime' = CallTime
    BY <1>9 DEF CallTime
  <2>13. Earned(CallTime)' = Earned(CallTime)
    BY <1>9, <2>12, SameTrades
  <2> QED
    BY <2>10, <2>11, <2>13
<1>12. Earlier' = Earlier
  BY <1>1, <1>5, <1>8 DEF Earlier
<1>13. CallInterests'
  BY <1>5, <1>10, <1>11, <1>12 DEF CallInterests, CallInterest, BondBuys, U2, B
<1> QED
  BY <1>1, <1>5, <1>13, CallStep

LEMMA BeginCallInterest ==
  ASSUME NoCall, InterestInv, NEW agent \in Agents, BeginCall(agent), UNCHANGED terms
  PROVE  InterestInv'
<1> DEFINE start == BeforeOrders(book[agent])
           u == start.acct
<1>1. /\ LedgerInv' /\ World /\ Accounts /\ Shape /\ Clock /\ Times /\ Interests
      /\ stage = "agents" /\ call = NA /\ agent \in todo
  BY BeginCallLedger DEF InterestInv, LedgerInv, World, BeginCall
<1>2. /\ UNCHANGED <<terms, now, bars, stage, placed, fate, book, schedule, notice>>
      /\ todo' = todo \ {agent}
      /\ cursor' = IF start.accrues THEN Max({cursor, Cutoff}) ELSE cursor
      /\ DOMAIN call' = CallFields /\ call'.agent = agent /\ call'.acct = u /\ call'.saved = u
      /\ DOMAIN call'.rows = {}
  BY DEF BeginCall, CallFields
<1>3. call' # NA
  BY <1>2 DEF NoCall
<1>4. Answered' = {} /\ Earlier' = {}
  BY <1>2 DEF Answered, Earlier
<1>5. /\ start.accrues => cursor # NA
      /\ start.accrues => book[agent].units[Bond] # 0
  <2> DEFINE t == book[agent]
             s == Seeded(t)
             n == IF Announced THEN WithNotice(s, notice) ELSE [acct |-> s, paid |-> 0]
  <2>1. start.accrues <=> cursor # NA /\ n.acct.units[Bond] # 0
    BY DEF BeforeOrders, Scheduled
  <2>2. t \in AccountRecords
    BY <1>1 DEF Accounts, Account
  <2>3. s.units = t.units /\ s.accrued = t.accrued /\ s \in AccountRecords
    BY <1>1, <2>2, SeededBond, SeededPays DEF Accounts, Pays, Account
  <2>4. Announced => notice.type # "bond_accrual"
    BY <1>1 DEF Announced, Times
  <2>5. n.acct.units[Bond] # 0 => t.units[Bond] # 0
    BY <2>3, <2>4, NoticeBond
  <2> QED
    BY <2>1, <2>5
<1> HIDE DEF start, u
<1>6. cursor = NA <=> cursor' = NA
  <2>1. start.accrues => Max({cursor, Cutoff}) \in Nat /\ NA \notin Nat
    <3>1. Cutoff \in Nat /\ NA \notin Nat
      BY <1>1, CouponsNat, AccountAssumption DEF AccountAssumption
    <3>2. cursor # NA => cursor \in Nat
      BY <1>1 DEF Clock
    <3> QED
      BY <1>5, <3>1, <3>2, MaxPair
  <2> QED
    BY <1>2, <1>5, <2>1
<1>7. \A g : Horizon(g)' = Horizon(g)
  <2>1. \A g : Ahead(g)' <=> Ahead(g)
    BY <1>1, <1>2, <1>3, <1>6 DEF Ahead
  <2> QED
    BY <1>2, <2>1 DEF Horizon
<1>8. /\ Trades' = Trades /\ Legs' = Legs
      /\ \A g : OnlyBuys(g)' = OnlyBuys(g)
      /\ \A time : Earned(time)' = Earned(time)
      /\ \A l : Leg(l)' = Leg(l) /\ Answer(l)' = Answer(l)
      /\ \A g, a : Bought(g, a)' = Bought(g, a)
  BY <1>2, SameTrades, SameOrders
<1>9. \A time : CouponAt(time)' = CouponAt(time)
  BY DEF CouponAt
<1>10. ASSUME NEW g \in todo, g # agent, OnlyBuys(g)
       PROVE  ~start.accrues
  <2>1. Orders(agent, Bond) = {}
    BY <1>10 DEF OnlyBuys, Trades, Orders
  <2>2. Bought(agent, Bond) = 0
    BY <2>1, SumEmpty DEF Bought
  <2>3. Bond \in Spot /\ Bond \in Asset
    BY AccountAssumption DEF AccountAssumption, Asset
  <2>4. book[agent].units[Bond] = 0
    BY <1>1, <2>2, <2>3 DEF Accounts, Account, AccountRecords, Covers
  <2> QED
    BY <1>5, <2>4
<1>11. Times'
  <2>1. \A g \in todo' : OnlyBuys(g)' => cursor' \in {NA, schedule.last}
    BY <1>1, <1>2, <1>8, <1>10 DEF Times
  <2>2. Batch' = Batch
    BY <1>2 DEF Batch
  <2>3. \A l \in Trades :
          Answer(l).at \in Nat /\ (schedule.active => Answer(l).at <= Horizon(placed[l[1]].agent))
    BY <1>1 DEF Times
  <2>4. schedule.active => /\ schedule.last <= now
                           /\ schedule.next = CouponAt(schedule.last) + Period
    BY <1>1 DEF Times
  <2> QED
    BY <1>1, <1>2, <1>6, <1>7, <1>8, <1>9, <2>1, <2>2, <2>3, <2>4 DEF Times
<1>12. Interests'
  <2> SUFFICES ASSUME NEW g \in Agents, Accrues', OnlyBuys(g)',
                      book'[g].units[Bond] = Bought(g, Bond)'
               PROVE  book'[g].accrued = Interest * Earned(Horizon(g))'
    BY DEF Interests
  <2>1. Accrues /\ OnlyBuys(g) /\ book[g].units[Bond] = Bought(g, Bond)
    BY <1>2, <1>6, <1>8 DEF Accrues
  <2>2. book[g].accrued = Interest * Earned(Horizon(g))
    BY <1>1, <2>1 DEF Interests
  <2>3. Earned(Horizon(g))' = Earned(Horizon(g))
    BY <1>7, <1>8
  <2> QED
    BY <1>2, <2>2, <2>3
<1>13. ASSUME Accrues', OnlyBuys(agent)',
              u.units[Bond] = Bought(agent, Bond)' + Sum(UnitFlows'[Bond], {})
       PROVE  u.accrued = Interest * Earned(CallTime)'
  <2>1. Accrues /\ OnlyBuys(agent)
    BY <1>2, <1>6, <1>8, <1>13 DEF Accrues
  <2>2. u.units[Bond] = Bought(agent, Bond)
    <3>1. Sum(UnitFlows'[Bond], {}) = 0
      BY SumEmpty
    <3>2. Bought(agent, Bond) \in Int
      BY <1>1, BoughtInt DEF World
    <3> QED
      BY <1>8, <1>13, <3>1, <3>2
  <2>3. u.accrued = Interest * Earned(CallTime)
    BY <1>1, <2>1, <2>2, InterestBegins DEF u, start
  <2>4. CallTime' = CallTime
    BY <1>2, <1>6 DEF CallTime
  <2>5. Earned(CallTime)' = Earned(CallTime)
    BY <1>8, <2>4
  <2> QED
    BY <2>3, <2>5
<1>14. CallInterests'
  BY <1>2, <1>4, <1>13 DEF CallInterests, CallInterest
<1> QED
  BY <1>1, <1>11, <1>12, <1>14 DEF InterestInv

(* The new fills are at this boundary: they have not earned anything yet.  *)
LEMMA TradesCommitted ==
  ASSUME InterestInv, FinishCall
  PROVE  /\ Trades' = Trades \cup FilledBy(Bond) /\ Trades \cap Answered = {}
         /\ \A l \in Legs : Leg(l)' = Leg(l) /\ placed'[l[1]] = placed[l[1]]
         /\ \A l \in Trades : l \in Legs' /\ Answer(l)' = Answer(l)
         /\ \A l \in FilledBy(Bond) : /\ l \in Legs /\ l \in Legs' /\ l \in Answered
                                      /\ Answer(l)'.at = now /\ Answer(l)'.qty \in Nat
                                      /\ placed[l[1]].agent = call.agent
                                      /\ Leg(l).asset = Bond /\ Bond \in Batch
<1>1. call # NA
  BY DEF FinishCall
<1>2. Answering /\ Shape /\ CallShape /\ CallRows /\ Owned
  BY <1>1, LedgerAnswering DEF InterestInv, Answering, CallFrame
<1>3. \A l \in Answered : /\ l \in Legs /\ Answer(l).status = "accepted" /\ Leg(l).asset \in Batch
                          /\ placed[l[1]].agent = call.agent /\ call.rows[l].qty \in Nat
  BY <1>2 DEF CallShape, CallRows, Owned, Touched
<1>4. /\ Legs' = Legs
      /\ \A l \in Legs :
           /\ Leg(l)' = Leg(l) /\ placed'[l[1]] = placed[l[1]]
           /\ IF l \in Answered /\ call.rows[l].status # "accepted"
              THEN Answer(l)' = [status |-> call.rows[l].status, qty |-> call.rows[l].qty,
                                 at |-> now]
              ELSE Answer(l)' = Answer(l)
  BY <1>2, FatesCommitted
<1>5. \A l \in Legs : Answer(l)'.status = "filled" <=>
                        Answer(l).status = "filled" \/ (l \in Answered /\ IsFilled(l))
  BY <1>3, <1>4 DEF IsFilled
<1>6. Trades' = Trades \cup FilledBy(Bond) /\ Trades \cap Answered = {}
  BY <1>3, <1>4, <1>5 DEF Trades, FilledBy
<1>7. \A l \in Trades : l \in Legs' /\ Answer(l)' = Answer(l)
  BY <1>3, <1>4 DEF Trades
<1>8. \A l \in FilledBy(Bond) : /\ l \in Legs /\ l \in Answered
                                /\ Answer(l)'.at = now /\ Answer(l)'.qty = call.rows[l].qty
                                /\ Leg(l).asset = Bond
  BY <1>3, <1>4 DEF FilledBy, IsFilled
<1> QED
  BY <1>3, <1>4, <1>6, <1>7, <1>8

LEMMA EarnedCommitted ==
  ASSUME InterestInv, FinishCall, NEW time \in Nat, FilledBy(Bond) = {} \/ time = now
  PROVE  Earned(time)' = Earned(time)
<1> DEFINE F == FilledBy(Bond)
           E == Earnings(time)
           E2 == Earnings(time)'
<1>1. Shape /\ CallShape /\ Fates /\ Clock /\ Times /\ now \in Nat /\ now' = now
  BY LedgerAnswering, AccountAssumption
     DEF FinishCall, Answering, InterestInv, LedgerInv, World, Clock, AccountAssumption
<1>2. /\ Trades' = Trades \cup F /\ Trades \cap Answered = {}
      /\ \A l \in Trades : l \in Legs' /\ Answer(l)' = Answer(l)
      /\ \A l \in F : /\ l \in Legs' /\ l \in Answered
                      /\ Answer(l)'.at = now /\ Answer(l)'.qty \in Nat
  BY TradesCommitted
<1>3. IsFiniteSet(Trades) /\ IsFiniteSet(F)
  <2>1. IsFiniteSet(Answered) /\ IsFiniteSet(Legs) /\ Trades \subseteq Legs /\ F \subseteq Answered
    BY <1>1, <1>2, FiniteAnswers DEF Trades
  <2> QED
    BY <2>1, FS_Subset
<1>4. \A l \in Trades : E[l] \in Int /\ E[l] = E2[l]
  <2> SUFFICES ASSUME NEW l \in Trades PROVE E[l] \in Int /\ E[l] = E2[l]
    OBVIOUS
  <2>1. /\ E[l] = Answer(l).qty * (time - Max({CouponAt(time), Answer(l).at}))
        /\ E[l] \in Int
    BY <1>1, EarningsInt
  <2>2. E2[l] = Answer(l)'.qty * (time - Max({CouponAt(time), Answer(l)'.at}))
    BY <1>2 DEF Earnings, CouponAt
  <2> QED
    BY <1>2, <2>1, <2>2
<1>5. \A l \in F : E2[l] = 0
  <2> SUFFICES ASSUME NEW l \in F PROVE E2[l] = 0
    OBVIOUS
  <2> DEFINE q == Answer(l)'.qty
             m == Max({CouponAt(time), now})
  <2>1. E2[l] = Answer(l)'.qty * (time - Max({CouponAt(time), Answer(l)'.at}))
    BY <1>2 DEF Earnings, CouponAt
  <2>2. time = now
    OBVIOUS
  <2>3. CouponAt(time) \in Nat /\ CouponAt(time) <= time
    BY PeriodOf, AccountAssumption DEF AccountAssumption, CouponAt
  <2>4. m = now
    BY <1>1, <2>2, <2>3, MaxPair
  <2>5. E2[l] = q * (now - m) /\ q \in Nat
    BY <1>2, <2>1, <2>2
  <2> HIDE DEF q, m
  <2> QED
    BY <1>1, <2>4, <2>5
<1>6. Earned(time) = Sum(E, Trades) /\ Earned(time)' = Sum(E2, Trades')
  BY DEF Earned
<1> HIDE DEF E, E2, F
<1>7. Sum(E, Trades) = Sum(E2, Trades)
  BY <1>3, <1>4, SumSame
<1>8. Sum(E2, Trades \cup F) = Sum(E2, Trades)
  <2>1. Trades \in SUBSET (Trades \cup F) /\ IsFiniteSet(Trades \cup F)
    BY <1>3, FS_Union
  <2>2. \A l \in (Trades \cup F) \ Trades : E2[l] = 0
    BY <1>5
  <2>3. \A l \in Trades : E2[l] \in Int
    BY <1>4
  <2> QED
    BY <2>1, <2>2, <2>3, SumSub
<1> QED
  BY <1>2, <1>6, <1>7, <1>8

LEMMA FinishCallInterest ==
  ASSUME InterestInv, FinishCall, UNCHANGED terms
  PROVE  InterestInv'
<1> DEFINE u == Judged(Committed)
           F == FilledBy(Bond)
<1>0. PICK h \in Agents : h = call.agent
  BY LedgerAnswering DEF InterestInv, FinishCall, CallFrame, Owned
<1>1. /\ UNCHANGED <<terms, now, bars, todo, stage, placed, schedule, cursor, notice>>
      /\ call # NA /\ call' = NA /\ book' = [book EXCEPT ![h] = u]
  BY <1>0 DEF FinishCall
<1>2. /\ Answering /\ CallShape /\ CallRows /\ Owned /\ Times /\ Interests /\ CallInterests
      /\ Clock /\ Printing /\ LedgerInv'
  BY <1>1, InterestCalled, FinishCallLedger DEF InterestInv, LedgerInv, World
<1>3. DOMAIN book = Agents /\ stage = "agents" /\ Batch' = Batch /\ Bond \in Spot /\ Bond \in Asset
  BY <1>1, <1>2, AccountAssumption
     DEF Printing, InterestInv, LedgerInv, Accounts, Batch, AccountAssumption, Asset
<1>4. /\ now \in Nat /\ schedule.last \in Nat /\ \A g : Horizon(g) \in Nat
  BY <1>2, AccountAssumption DEF Clock, AccountAssumption, Horizon
<1>5. /\ Trades' = Trades \cup F
      /\ \A l \in Legs : Leg(l)' = Leg(l) /\ placed'[l[1]] = placed[l[1]]
      /\ \A l \in Trades : Answer(l)' = Answer(l)
      /\ \A l \in F : /\ l \in Legs /\ l \in Answered /\ Answer(l)'.at = now
                      /\ placed[l[1]].agent = h /\ Leg(l).asset = Bond /\ Bond \in Batch
  BY <1>0, TradesCommitted DEF InterestInv
<1>6. schedule.active /\ F # {} => cursor # NA
  BY <1>2, <1>3, <1>5 DEF Times
<1>7. /\ \A g : g # h => Horizon(g)' = Horizon(g)
      /\ Horizon(h)' = CallTime
      /\ schedule.active => \A g : Horizon(g) <= Horizon(g)'
  <2>1. h \notin todo
    BY <1>0, <1>1, <1>2 DEF Times
  <2>2. \A g : Ahead(g)' <=> cursor # NA /\ g \notin todo
    BY <1>1 DEF Ahead
  <2>3. \A g : g # h => (Ahead(g)' <=> Ahead(g))
    BY <1>0, <2>2 DEF Ahead
  <2>4. \A g : g # h => Horizon(g)' = Horizon(g)
    BY <1>1, <2>3 DEF Horizon
  <2>5. Horizon(h)' = CallTime
    BY <1>1, <2>1, <2>2 DEF Horizon, CallTime
  <2>6. Horizon(h) = schedule.last
    BY <1>0, <1>1 DEF Horizon, Ahead
  <2>7. schedule.active => Horizon(h) <= CallTime
    BY <1>2, <1>4, <2>6 DEF CallTime, Times
  <2>8. ASSUME schedule.active, NEW g
        PROVE  Horizon(g) <= Horizon(g)'
    BY <1>4, <2>4, <2>5, <2>7, <2>8
  <2> QED
    BY <2>4, <2>5, <2>8
<1>8. \A g : OnlyBuys(g)' => /\ OnlyBuys(g) /\ (g # h => F = {})
                             /\ \A l \in F : Leg(l).side = "buy"
  <2>1. Trades \subseteq Legs
    BY DEF Trades
  <2> QED
    BY <1>5, <2>1 DEF OnlyBuys
<1>9. \A time : CouponAt(time)' = CouponAt(time)
  BY DEF CouponAt
<1>10. Times'
  <2>1. ASSUME NEW l \in Trades', schedule.active
        PROVE  Answer(l)'.at <= Horizon(placed[l[1]].agent)'
    <3>1. CASE l \in Trades
      <4> DEFINE g == placed[l[1]].agent
      <4>1. Answer(l).at \in Nat /\ Answer(l).at <= Horizon(g)
        BY <1>2, <2>1, <3>1 DEF Times
      <4>2. Horizon(g) <= Horizon(g)'
        BY <1>1, <1>7, <2>1
      <4>3. Horizon(g) \in Nat /\ Horizon(g)' \in Nat
        BY <1>1, <1>4 DEF Horizon
      <4> HIDE DEF g
      <4> QED
        BY <1>5, <3>1, <4>1, <4>2, <4>3 DEF g
    <3>2. CASE l \in F
      <4>1. CallTime = now
        BY <1>6, <2>1, <3>2 DEF CallTime
      <4> QED
        BY <1>4, <1>5, <1>7, <3>2, <4>1
    <3> QED
      BY <1>5, <2>1, <3>1, <3>2
  <2>2. \A l \in Trades' : Answer(l)'.at \in Nat /\ placed'[l[1]] = placed[l[1]]
    <3>1. \A l \in Trades : Answer(l).at \in Nat /\ l \in Legs
      BY <1>2 DEF Times, Trades
    <3> QED
      BY <1>4, <1>5, <3>1
  <2>3. \A g \in todo : OnlyBuys(g)' => cursor \in {NA, schedule.last}
    BY <1>2, <1>8 DEF Times
  <2>4. schedule.active => /\ schedule.last <= now
                           /\ schedule.next = CouponAt(schedule.last) + Period
    BY <1>2 DEF Times
  <2>5. \A l \in Trades' : schedule.active => Answer(l)'.at <= Horizon(placed[l[1]].agent)'
    BY <2>1
  <2>6. /\ notice # NA => notice.type # "bond_accrual"
        /\ stage = "agents" /\ schedule.active => (cursor # NA <=> Bond \in Batch)
    BY <1>2 DEF Times
  <2> QED
    BY <1>1, <1>3, <1>9, <2>2, <2>3, <2>4, <2>5, <2>6 DEF Times
<1>11. Interests'
  <2> SUFFICES ASSUME NEW g \in Agents, Accrues', OnlyBuys(g)',
                      book'[g].units[Bond] = Bought(g, Bond)'
               PROVE  book'[g].accrued = Interest * Earned(Horizon(g))'
    BY DEF Interests
  <2>1. Accrues /\ OnlyBuys(g)
    BY <1>1, <1>8 DEF Accrues
  <2>2. CASE g # h
    <3>1. F = {} /\ Horizon(g)' = Horizon(g) /\ book'[g] = book[g]
      BY <1>1, <1>3, <1>7, <1>8, <2>2
    <3>2. Bought(g, Bond)' = Bought(g, Bond)
      <4>1. Bought(g, Bond)' = Bought(g, Bond) + 0 /\ Bought(g, Bond) \in Int
        BY <1>0, <1>3, <2>2, BoughtCommitted DEF InterestInv
      <4> QED
        BY <4>1
    <3>3. book[g].accrued = Interest * Earned(Horizon(g))
      BY <1>2, <2>1, <3>1, <3>2 DEF Interests
    <3>4. \A time \in Nat : Earned(time)' = Earned(time)
      BY <3>1, EarnedCommitted
    <3>5. Earned(Horizon(g))' = Earned(Horizon(g))
      BY <1>4, <3>1, <3>4
    <3> QED
      BY <3>1, <3>3, <3>5
  <2>3. CASE g = h
    <3>1. u.units = call.acct.units /\ u.accrued = call.acct.accrued
      <4>1. Account(Committed) /\ Solvent(Committed) /\ Committed.units = call.acct.units
        BY <1>2, CommittedFine
      <4>2. Judged(Committed).units = Committed.units
        BY <4>1, JudgedFine
      <4>3. call.acct \in AccountRecords
        BY <1>2 DEF Answering, Fine, Account
      <4>4. Marked(call.acct).accrued = call.acct.accrued
        BY <4>3 DEF Marked, AccountRecords
      <4>5. Committed.accrued = Marked(call.acct).accrued
        BY <4>3 DEF Committed, Marked, AccountRecords
      <4>6. Judged(Committed).accrued = Committed.accrued
        BY <4>1 DEF Judged, Account, AccountRecords
      <4> QED
        BY <4>1, <4>2, <4>4, <4>5, <4>6
    <3> HIDE DEF u
    <3>2. book'[h] = u
      BY <1>1, <1>3
    <3>3. Bought(h, Bond)' = Bought(h, Bond) + Sum(UnitFlows[Bond], Answered)
      BY <1>0, <1>3, BoughtCommitted DEF InterestInv
    <3>4. BondBuys(Answered)
      BY <1>8, <2>3 DEF BondBuys, FilledBy
    <3>5. call.acct.accrued = Interest * Earned(CallTime)
      BY <1>0, <1>2, <2>1, <2>3, <3>1, <3>2, <3>3, <3>4 DEF CallInterests, CallInterest
    <3>6. CallTime \in Nat /\ (F = {} \/ CallTime = now)
      BY <1>4, <1>6, <2>1 DEF CallTime, Accrues
    <3>7. \A time \in Nat : time = CallTime => Earned(time)' = Earned(time)
      BY <3>6, EarnedCommitted
    <3>8. CallTime' = CallTime
      BY <1>1 DEF CallTime
    <3>9. Earned(Horizon(g))' = Earned(CallTime)
      BY <1>7, <2>3, <3>6, <3>7
    <3> QED
      BY <2>3, <3>1, <3>2, <3>5, <3>9
  <2> QED
    BY <2>2, <2>3
<1> QED
  BY <1>1, <1>2, <1>10, <1>11 DEF InterestInv

LEMMA NewBoundaryInterest ==
  ASSUME InterestInv, NEW batch \in Batches, NEW print \in Prints, NEW gap \in Gaps,
         NewBoundary(batch, print, gap), UNCHANGED terms
  PROVE  InterestInv'
<1>1. /\ UNCHANGED <<terms, placed, fate, schedule, notice, call>>
      /\ stage = "between" /\ stage' = "agents" /\ now' = now + gap
      /\ bars' = [a \in Asset |-> IF a \in batch THEN print[a] ELSE NA]
      /\ cursor' = IF schedule.active /\ Bond \in batch THEN schedule.last ELSE NA
      /\ todo' = Stepped(batch)
      /\ LedgerInv /\ LedgerInv' /\ World /\ Accounts /\ Times /\ Interests
  BY NewBoundaryLedger DEF NewBoundary, InterestInv, LedgerInv
<1>2. Shape /\ Clock /\ Fates /\ call = NA /\ cursor = NA /\ Shape' /\ Fates'
  BY <1>1 DEF World, Printing, Times, LedgerInv
<1>3. /\ now \in Nat /\ gap \in Nat /\ now' \in Nat /\ now <= now' /\ schedule.last \in Nat
      /\ NA \notin Nat /\ Interest \in Nat /\ Bond \in Spot /\ Bond \in Asset
  BY <1>1, <1>2, AccountAssumption DEF Clock, AccountAssumption, Asset
<1>4. Batch' = batch
  <2>1. \A a \in Asset : print[a] # NA
    BY AccountAssumption DEF AccountAssumption, Prints
  <2>2. batch \subseteq Asset
    BY AccountAssumption DEF AccountAssumption
  <2> QED
    BY <1>1, <2>1, <2>2 DEF Batch
<1>5. \A g : Horizon(g) = schedule.last
  BY <1>2 DEF Horizon, Ahead
<1>6. \A g : Horizon(g)' = schedule.last \/ (Horizon(g)' = now' /\ g \notin todo')
  BY <1>1, <1>2 DEF Horizon, Ahead
<1>7. /\ Trades' = Trades /\ Legs' = Legs
      /\ \A g : OnlyBuys(g)' = OnlyBuys(g)
      /\ \A time : Earned(time)' = Earned(time)
      /\ \A l : Leg(l)' = Leg(l) /\ Answer(l)' = Answer(l)
      /\ \A g, a : Bought(g, a)' = Bought(g, a)
  BY <1>1, SameTrades, SameOrders
<1>8. \A time : CouponAt(time)' = CouponAt(time)
  BY DEF CouponAt
<1>9. Times'
  <2>1. ASSUME schedule.active
        PROVE  schedule.last <= now /\ schedule.next = CouponAt(schedule.last) + Period
    BY <1>1, <2>1 DEF Times
  <2>2. ASSUME NEW l \in Trades, schedule.active
        PROVE  Answer(l).at <= Horizon(placed[l[1]].agent)'
    <3> DEFINE g == placed[l[1]].agent
    <3>1. Answer(l).at \in Nat /\ Answer(l).at <= schedule.last
      BY <1>1, <1>5, <2>2 DEF Times
    <3>2. Horizon(g)' = schedule.last \/ Horizon(g)' = now'
      BY <1>1, <1>6
    <3> HIDE DEF g
    <3>3. Answer(l).at <= Horizon(g)'
      BY <1>3, <2>1, <2>2, <3>1, <3>2
    <3> QED
      BY <3>3 DEF g
  <2>3. \A l \in Trades : Answer(l).at \in Nat
    BY <1>1 DEF Times
  <2>4. schedule.active => schedule.last <= now'
    BY <1>3, <2>1
  <2>5. schedule.active => (cursor' # NA <=> Bond \in batch)
    BY <1>1, <1>3
  <2>6. notice # NA => notice.type # "bond_accrual"
    BY <1>1 DEF Times
  <2> QED
    BY <1>1, <1>2, <1>4, <1>7, <1>8, <2>1, <2>2, <2>3, <2>4, <2>5, <2>6 DEF Times
<1>10. Interests'
  <2> SUFFICES ASSUME NEW g \in Agents, Accrues', OnlyBuys(g)',
                      book'[g].units[Bond] = Bought(g, Bond)'
               PROVE  book'[g].accrued = Interest * Earned(Horizon(g))'
    BY DEF Interests
  <2>1. book'[g].units = book[g].units /\ book'[g].accrued = book[g].accrued
    <3>1. Account(book[g])
      BY <1>1 DEF Accounts
    <3> QED
      BY <1>1, <3>1 DEF NewBoundary, Account, AccountRecords
  <2>2. Accrues /\ OnlyBuys(g) /\ book[g].units[Bond] = Bought(g, Bond)
    BY <1>1, <1>2, <1>7, <2>1 DEF Accrues
  <2>3. book[g].accrued = Interest * Earned(schedule.last)
    BY <1>1, <1>5, <2>2 DEF Interests
  <2>4. CASE Horizon(g)' = schedule.last
    <3>1. Earned(Horizon(g))' = Earned(schedule.last)
      BY <1>1, <1>7, <2>4
    <3> QED
      BY <2>1, <2>3, <3>1
  <2>5. CASE Horizon(g)' = now' /\ g \notin todo'
    <3>1. book[g].last[Bond] = 0
      BY <1>1, <1>3, <2>5 DEF Stepped
    <3>2. book[g].units[Bond] = 0 /\ book[g].accrued = 0
      BY <1>1, <1>3, <3>1 DEF Accounts, Account
    <3>3. \A time \in Nat : Earned(time) = 0
      BY <1>1, <1>2, <2>2, <3>2, NothingEarned
    <3>4. Earned(Horizon(g))' = 0
      BY <1>3, <1>7, <2>5, <3>3
    <3> QED
      BY <1>3, <2>1, <3>2, <3>4
  <2> QED
    BY <1>6, <2>4, <2>5
<1> QED
  BY <1>1, <1>2, <1>9, <1>10 DEF InterestInv

(* The durable cursor follows those who were stepped: to now if the bond   *)
(* was shown, and the next coupon is the one after now.                    *)
LEMMA EndBoundaryInterest ==
  ASSUME InterestInv, EndBoundary, UNCHANGED terms
  PROVE  InterestInv'
<1>1. /\ UNCHANGED <<terms, now, todo, placed, fate, book, call>>
      /\ call = NA /\ stage = "agents" /\ todo = {} /\ stage' = "between" /\ cursor' = NA
      /\ LedgerInv' /\ World /\ Accounts /\ Clock /\ Times /\ Interests
  BY EndBoundaryLedger DEF EndBoundary, InterestInv, LedgerInv, World
<1>2. notice' # NA => notice # NA /\ notice'.type = notice.type
  <2>1. notice' # NA => notice # NA /\ notice'.type = notice.type
    BY DEF EndBoundary, Announced
  <2> QED
    BY <2>1
<1>3. /\ now \in Nat /\ schedule.last \in Nat /\ NA \notin Nat
  BY <1>1, AccountAssumption DEF Clock, AccountAssumption
<1>4. \A g : Horizon(g) = IF cursor # NA THEN now ELSE schedule.last
  BY <1>1 DEF Horizon, Ahead
<1>5. \A g : Horizon(g)' = schedule'.last
  BY <1>1 DEF Horizon, Ahead
<1>6. ASSUME schedule'.active
      PROVE  /\ schedule.active /\ (cursor # NA => now < terms.maturity)
             /\ \A g : Horizon(g)' = Horizon(g)
             /\ schedule'.last <= now /\ schedule'.next = CouponAt(schedule'.last) + Period
  <2>1. CASE schedule.active /\ Bond \in Batch
    <3>1. /\ schedule'.last = Cutoff /\ schedule'.next = schedule.next + Coupons * Period
          /\ now < terms.maturity
      BY <1>6, <2>1 DEF EndBoundary
    <3>2. cursor # NA
      BY <1>1, <2>1 DEF Times
    <3>3. schedule.last <= now /\ schedule.next = CouponAt(schedule.last) + Period
      BY <1>1, <2>1 DEF Times
    <3>4. Cutoff = now /\ schedule.next + Coupons * Period = CouponAt(now) + Period
      BY <1>1, <2>1, <3>1, <3>3, CouponsBetween
    <3> QED
      BY <1>3, <1>4, <1>5, <2>1, <3>1, <3>2, <3>4
  <2>2. CASE ~(schedule.active /\ Bond \in Batch)
    <3>1. schedule' = schedule
      BY <2>2 DEF EndBoundary
    <3>2. cursor = NA
      BY <1>1, <1>6, <2>2, <3>1 DEF Times
    <3> QED
      BY <1>1, <1>4, <1>5, <1>6, <3>1, <3>2 DEF Times
  <2> QED
    BY <2>1, <2>2
<1>7. /\ Trades' = Trades /\ Legs' = Legs
      /\ \A g : OnlyBuys(g)' = OnlyBuys(g)
      /\ \A time : Earned(time)' = Earned(time)
      /\ \A l : Leg(l)' = Leg(l) /\ Answer(l)' = Answer(l)
      /\ \A g, a : Bought(g, a)' = Bought(g, a)
  BY <1>1, SameTrades, SameOrders
<1>8. \A time : CouponAt(time)' = CouponAt(time)
  BY DEF CouponAt
<1>9. Times'
  <2>1. ASSUME NEW l \in Trades, schedule'.active
        PROVE  Answer(l).at <= Horizon(placed[l[1]].agent)'
    BY <1>1, <1>6, <2>1 DEF Times
  <2>2. \A l \in Trades : Answer(l).at \in Nat
    BY <1>1 DEF Times
  <2>3. notice' # NA => notice'.type # "bond_accrual"
    BY <1>1, <1>2 DEF Times
  <2> QED
    BY <1>1, <1>6, <1>7, <1>8, <2>1, <2>2, <2>3 DEF Times
<1>10. Interests'
  <2> SUFFICES ASSUME NEW g \in Agents, Accrues', OnlyBuys(g)',
                      book'[g].units[Bond] = Bought(g, Bond)'
               PROVE  book'[g].accrued = Interest * Earned(Horizon(g))'
    BY DEF Interests
  <2>1. Accrues /\ OnlyBuys(g) /\ book[g].units[Bond] = Bought(g, Bond)
    BY <1>1, <1>6, <1>7 DEF Accrues
  <2>2. book[g].accrued = Interest * Earned(Horizon(g))
    BY <1>1, <2>1 DEF Interests
  <2>3. Earned(Horizon(g))' = Earned(Horizon(g))
    BY <1>6, <1>7 DEF Accrues
  <2> QED
    BY <1>1, <2>2, <2>3
<1> QED
  BY <1>1, <1>9, <1>10 DEF InterestInv

LEMMA SubmitInterest ==
  ASSUME InterestInv, NEW r \in Requests, Submit(r), UNCHANGED terms
  PROVE  InterestInv'
<1>1. /\ UNCHANGED <<terms, now, bars, todo, stage, book, schedule, cursor, notice, call>>
      /\ LedgerInv' /\ World /\ Shape /\ Fates /\ Times /\ Interests /\ Clock /\ stage = "between"
  BY SubmitLedger DEF Submit, InterestInv, LedgerInv, World
<1>2. call = NA
  BY <1>1 DEF World, Printing
<1>3. /\ Legs \subseteq Legs'
      /\ \A l \in Legs : Leg(l)' = Leg(l) /\ Answer(l)' = Answer(l)
                        /\ placed'[l[1]] = placed[l[1]]
      /\ \A l \in Legs' \ Legs : Answer(l)' = NoRow
      /\ \A g, a : Orders(g, a)' = Orders(g, a) /\ Bought(g, a)' = Bought(g, a)
  BY <1>1, SubmitOrders
<1>4. Trades' = Trades /\ Trades \subseteq Legs
  BY <1>3 DEF Trades, NoRow
<1>5. \A g : OnlyBuys(g)' = OnlyBuys(g)
  BY <1>3, <1>4 DEF OnlyBuys
<1>6. \A g : Horizon(g)' = Horizon(g) /\ Horizon(g) \in Nat
  BY <1>1, AccountAssumption DEF Horizon, Ahead, Clock, AccountAssumption
<1>7. ASSUME NEW time \in Nat
      PROVE  Earned(time)' = Earned(time)
  <2> DEFINE E == Earnings(time)
             E2 == Earnings(time)'
  <2>1. IsFiniteSet(Trades)
    BY <1>1, <1>4, FiniteLegs, FS_Subset
  <2>2. \A l \in Trades : E[l] \in Int /\ E[l] = E2[l]
    <3> SUFFICES ASSUME NEW l \in Trades PROVE E[l] \in Int /\ E[l] = E2[l]
      OBVIOUS
    <3>1. l \in Legs /\ l \in Legs' /\ Answer(l)' = Answer(l)
      BY <1>3, <1>4
    <3>2. /\ E[l] = Answer(l).qty * (time - Max({CouponAt(time), Answer(l).at}))
          /\ E[l] \in Int
      BY <1>1, EarningsInt
    <3>3. E2[l] = Answer(l)'.qty * (time - Max({CouponAt(time), Answer(l)'.at}))
      BY <3>1 DEF Earnings, CouponAt
    <3> QED
      BY <3>1, <3>2, <3>3
  <2>3. Earned(time) = Sum(E, Trades) /\ Earned(time)' = Sum(E2, Trades')
    BY DEF Earned
  <2> HIDE DEF E, E2
  <2>4. Sum(E, Trades) = Sum(E2, Trades)
    BY <2>1, <2>2, SumSame
  <2> QED
    BY <1>4, <2>3, <2>4
<1>8. \A time : CouponAt(time)' = CouponAt(time)
  BY DEF CouponAt
<1>9. Times'
  <2>1. \A l \in Trades :
          /\ Answer(l)' = Answer(l) /\ placed'[l[1]] = placed[l[1]] /\ Answer(l).at \in Nat
          /\ schedule.active => Answer(l).at <= Horizon(placed[l[1]].agent)
    BY <1>1, <1>3, <1>4 DEF Times
  <2>2. \A g \in todo : OnlyBuys(g) => cursor \in {NA, schedule.last}
    BY <1>1 DEF Times
  <2>3. Batch' = Batch
    BY <1>1 DEF Batch
  <2> QED
    BY <1>1, <1>2, <1>4, <1>5, <1>6, <1>8, <2>1, <2>2, <2>3 DEF Times
<1>10. Interests'
  <2> SUFFICES ASSUME NEW g \in Agents, Accrues', OnlyBuys(g)',
                      book'[g].units[Bond] = Bought(g, Bond)'
               PROVE  book'[g].accrued = Interest * Earned(Horizon(g))'
    BY DEF Interests
  <2>1. Accrues /\ OnlyBuys(g) /\ book[g].units[Bond] = Bought(g, Bond)
    BY <1>1, <1>3, <1>5 DEF Accrues
  <2>2. book[g].accrued = Interest * Earned(Horizon(g))
    BY <1>1, <2>1 DEF Interests
  <2>3. Earned(Horizon(g))' = Earned(Horizon(g))
    BY <1>6, <1>7
  <2> QED
    BY <1>1, <2>2, <2>3
<1> QED
  BY <1>1, <1>2, <1>9, <1>10 DEF InterestInv

LEMMA AnnounceInterest ==
  ASSUME NoAccruals, InterestInv, NEW n \in Notices, Announce(n), UNCHANGED terms
  PROVE  InterestInv'
<1>1. /\ UNCHANGED <<terms, now, bars, todo, stage, placed, fate, book, schedule, cursor, call>>
      /\ notice'.type = n.type
      /\ LedgerInv' /\ World /\ Times /\ Interests /\ stage = "between"
  BY AnnounceLedger DEF Announce, InterestInv, LedgerInv
<1>2. call = NA
  BY <1>1 DEF World, Printing
<1>3. /\ Trades' = Trades
      /\ \A g : OnlyBuys(g)' = OnlyBuys(g)
      /\ \A time : Earned(time)' = Earned(time)
      /\ \A l : Leg(l)' = Leg(l) /\ Answer(l)' = Answer(l)
      /\ \A g, a : Bought(g, a)' = Bought(g, a)
  BY <1>1, SameTrades, SameOrders
<1>4. \A g : Horizon(g)' = Horizon(g)
  BY <1>1 DEF Horizon, Ahead
<1>5. Batch' = Batch /\ \A time : CouponAt(time)' = CouponAt(time)
  BY <1>1 DEF Batch, CouponAt
<1>6. Times'
  <2>1. \A l \in Trades :
          Answer(l).at \in Nat /\ (schedule.active => Answer(l).at <= Horizon(placed[l[1]].agent))
    BY <1>1 DEF Times
  <2>2. notice'.type # "bond_accrual"
    BY <1>1 DEF NoAccruals
  <2>3. \A g \in todo : OnlyBuys(g) => cursor \in {NA, schedule.last}
    BY <1>1 DEF Times
  <2>4. /\ stage = "between" => cursor = NA
        /\ schedule.active => /\ schedule.last <= now
                              /\ schedule.next = CouponAt(schedule.last) + Period
    BY <1>1 DEF Times
  <2> QED
    BY <1>1, <1>2, <1>3, <1>4, <1>5, <2>1, <2>2, <2>3, <2>4 DEF Times
<1>7. Interests'
  <2> SUFFICES ASSUME NEW g \in Agents, Accrues', OnlyBuys(g)',
                      book'[g].units[Bond] = Bought(g, Bond)'
               PROVE  book'[g].accrued = Interest * Earned(Horizon(g))'
    BY DEF Interests
  <2>1. Accrues /\ OnlyBuys(g) /\ book[g].units[Bond] = Bought(g, Bond)
    BY <1>1, <1>3 DEF Accrues
  <2>2. book[g].accrued = Interest * Earned(Horizon(g))
    BY <1>1, <2>1 DEF Interests
  <2>3. Earned(Horizon(g))' = Earned(Horizon(g))
    BY <1>3, <1>4
  <2> QED
    BY <1>1, <2>2, <2>3
<1> QED
  BY <1>1, <1>2, <1>6, <1>7 DEF InterestInv

LEMMA UnchangedInterest ==
  ASSUME InterestInv, UNCHANGED vars
  PROVE  InterestInv'
<1>1. UNCHANGED <<terms, now, bars, todo, stage, placed, fate, book, schedule, cursor, notice, call>>
  BY DEF vars
<1>2. LedgerInv'
  BY UnchangedLedger DEF InterestInv
<1>3. Times' /\ Interests'
  BY <1>1, SameTimes DEF InterestInv
<1>4. ASSUME call' # NA
      PROVE  CallInterests'
  <2>1. /\ Answering /\ CallInterests /\ IsFiniteSet(Answered) /\ IsFiniteSet(Earlier)
        /\ Earlier \in SUBSET Answered
    BY <1>1, <1>4, InterestCalled
  <2>2. Answered' = Answered /\ Earlier' = Earlier
    BY <1>1 DEF Answered, Earlier
  <2>3. ASSUME Accrues', OnlyBuys(call.agent)',
               \A r \in Answered : IsFilled(r)' /\ Leg(r)'.asset = Bond => Leg(r)'.side = "buy",
               call.acct.units[Bond] = Bought(call.agent, Bond)' + Sum(UnitFlows'[Bond], Answered)
        PROVE  call.acct.accrued = Interest * Earned(CallTime)'
    BY <1>1, <2>1, <2>2, <2>3, InterestUnexecuted DEF CallInterests
  <2>4. ASSUME Accrues', OnlyBuys(call.agent)',
               \A r \in Earlier : IsFilled(r)' /\ Leg(r)'.asset = Bond => Leg(r)'.side = "buy",
               call.saved.units[Bond] = Bought(call.agent, Bond)' + Sum(UnitFlows'[Bond], Earlier)
        PROVE  call.saved.accrued = Interest * Earned(CallTime)'
    BY <1>1, <2>1, <2>2, <2>4, InterestUnexecuted DEF CallInterests
  <2> QED
    BY <1>1, <2>2, <2>3, <2>4 DEF CallInterests, CallInterest, BondBuys
<1> QED
  BY <1>2, <1>3, <1>4 DEF InterestInv

LEMMA InitInterest ==
  ASSUME Init
  PROVE  InterestInv
<1>1. /\ now = 0 /\ todo = {} /\ stage = "between" /\ call = NA
      /\ book = [g \in Agents |-> Unopened] /\ cursor = NA /\ notice = NA
      /\ schedule = [last |-> 0, next |-> Period, active |-> TRUE]
      /\ placed = <<>>
  BY DEF Init
<1>2. LedgerInv /\ Shape /\ Fates
  BY InitLedger DEF LedgerInv, World
<1>3. Legs = {} /\ Trades = {}
  BY <1>1 DEF Legs, Trades
<1>4. CouponAt(0) = 0 /\ Period \in Nat /\ Interest \in Nat
  <2>1. CouponAt(0) \in Nat /\ CouponAt(0) <= 0 /\ Period \in Nat /\ Interest \in Nat
    BY PeriodOf, AccountAssumption DEF AccountAssumption, CouponAt
  <2> QED
    BY <2>1
<1>5. Times
  BY <1>1, <1>3, <1>4 DEF Times
<1>6. Interests
  <2> SUFFICES ASSUME NEW g \in Agents
               PROVE  book[g].accrued = Interest * Earned(Horizon(g))
    BY DEF Interests
  <2>1. book[g].accrued = 0
    BY <1>1 DEF Unopened
  <2>2. Earned(Horizon(g)) = 0
    BY <1>3, SumEmpty DEF Earned
  <2> QED
    BY <1>4, <2>1, <2>2
<1> QED
  BY <1>1, <1>2, <1>5, <1>6 DEF InterestInv

LEMMA StepInterest == NoAccruals /\ NoCall /\ InterestInv /\ [Next]_vars => InterestInv'
<1> SUFFICES ASSUME NoAccruals, NoCall, InterestInv, [Next]_vars
             PROVE  InterestInv'
  OBVIOUS
<1>1. CASE UNCHANGED vars
  BY <1>1, UnchangedInterest
<1>2. CASE Next
  <2> USE <1>2
  <2>1. UNCHANGED terms
    BY DEF Next
  <2>2. CASE \E r \in Requests : Submit(r)
    BY <2>1, <2>2, SubmitInterest
  <2>3. CASE \E n \in Notices : Announce(n)
    BY <2>1, <2>3, AnnounceInterest
  <2>4. CASE \E batch \in Batches, print \in Prints, gap \in Gaps : NewBoundary(batch, print, gap)
    BY <2>1, <2>4, NewBoundaryInterest
  <2>5. CASE \E agent \in Agents : BeginCall(agent)
    BY <2>1, <2>5, BeginCallInterest
  <2>6. ASSUME NEW l \in Legs, OpenGroup(l) \/ SkipGroup(l) \/ ExecuteLeg(l) \/ RollBack(l)
        PROVE  InterestInv'
    BY <2>1, <2>6, OpenGroupInterest, SkipGroupInterest, ExecuteLegInterest, RollBackInterest
  <2>7. CASE FinishCall
    BY <2>1, <2>7, FinishCallInterest
  <2>8. CASE EndBoundary
    BY <2>1, <2>8, EndBoundaryInterest
  <2> QED
    BY <2>2, <2>3, <2>4, <2>5, <2>6, <2>7, <2>8 DEF Next
<1> QED
  BY <1>1, <1>2

-----------------------------------------------------------------------------
(* The sums of the property. *)

Quantity(l) == fate[l[1]][l[2]].qty

LEMMA QuantitySum ==
  ASSUME NEW T, IsFiniteSet(T), \A l \in T : Quantity(l) \in Int
  PROVE  MapThenSumSet(Quantity, T) = Sum([l \in T |-> Quantity(l)], T)
<1> DEFINE F == [l \in T |-> Quantity(l)]
           Eq(h) == h = [s \in SUBSET T |->
                          IF s = {} THEN 0
                          ELSE Quantity((CHOOSE x \in s : TRUE))
                               + h[s \ {CHOOSE x \in s : TRUE}]]
           h == CHOOSE h : Eq(h)
<1>1. \A s \in SUBSET T : s # {} => (CHOOSE x \in s : TRUE) \in T
  OBVIOUS
<1>2. \A x \in T : F[x] = Quantity(x) /\ F[x] \in Int
  OBVIOUS
<1>3. MapThenSumSet(Quantity, T) = h[T]
  BY DEF MapThenSumSet, MapThenFoldSet
<1> HIDE DEF F
<1>4. PICK g : IsSum(g, F, T)
  BY <1>2, SumExists
<1>5. Eq(g)
  BY <1>1, <1>2, <1>4 DEF IsSum, AnyOf
<1>6. Eq(h)
  BY <1>5
<1> HIDE DEF h
<1>7. IsSum(h, F, T)
  BY <1>1, <1>2, <1>6 DEF IsSum, AnyOf
<1>8. Sum(F, T) = h[T]
  BY <1>7, SumIs
<1> QED
  BY <1>3, <1>8 DEF F

EarningOf(l) ==
  fate[l[1]][l[2]].qty
    * (schedule.last - Max({Period * (schedule.last \div Period), fate[l[1]][l[2]].at}))

LEMMA EarningSum ==
  ASSUME NEW T, IsFiniteSet(T), \A l \in T : EarningOf(l) \in Int
  PROVE  MapThenSumSet(EarningOf, T) = Sum([l \in T |-> EarningOf(l)], T)
<1> DEFINE F == [l \in T |-> EarningOf(l)]
           Eq(h) == h = [s \in SUBSET T |->
                          IF s = {} THEN 0
                          ELSE EarningOf((CHOOSE x \in s : TRUE))
                               + h[s \ {CHOOSE x \in s : TRUE}]]
           h == CHOOSE h : Eq(h)
<1>1. \A s \in SUBSET T : s # {} => (CHOOSE x \in s : TRUE) \in T
  OBVIOUS
<1>2. \A x \in T : F[x] = EarningOf(x) /\ F[x] \in Int
  OBVIOUS
<1>3. MapThenSumSet(EarningOf, T) = h[T]
  BY DEF MapThenSumSet, MapThenFoldSet
<1> HIDE DEF F
<1>4. PICK g : IsSum(g, F, T)
  BY <1>2, SumExists
<1>5. Eq(g)
  BY <1>1, <1>2, <1>4 DEF IsSum, AnyOf
<1>6. Eq(h)
  BY <1>5
<1> HIDE DEF h
<1>7. IsSum(h, F, T)
  BY <1>1, <1>2, <1>6 DEF IsSum, AnyOf
<1>8. Sum(F, T) = h[T]
  BY <1>7, SumIs
<1> QED
  BY <1>3, <1>8 DEF F

LEMMA InterestsMatch == InterestInv => InterestMatchesHolding
<1> SUFFICES ASSUME InterestInv, NEW g \in Agents
             PROVE  LET t      == book[g]
                        trades == {l \in Legs : Leg(l).asset = Bond
                                                /\ fate[l[1]][l[2]].status = "filled"}
                        alone  == \A l \in trades : placed[l[1]].agent = g /\ Leg(l).side = "buy"
                        bought == MapThenSumSet(LAMBDA l : fate[l[1]][l[2]].qty, trades)
                        coupon == Period * (schedule.last \div Period)
                        earned == MapThenSumSet(LAMBDA l : fate[l[1]][l[2]].qty
                                    * (schedule.last - Max({coupon, fate[l[1]][l[2]].at})), trades)
                    IN  /\ t.units[Bond] = 0 => t.accrued = 0
                        /\ stage = "between" /\ alone /\ t.units[Bond] = bought
                             /\ schedule.active => t.accrued = Interest * earned
  BY DEF InterestMatchesHolding
<1>1. Shape /\ Clock /\ Fates /\ Accounts /\ Times /\ Interests
  BY DEF InterestInv, LedgerInv, World
<1>2. book[g].units[Bond] = 0 => book[g].accrued = 0
  BY <1>1 DEF Accounts, Account
<1>3. /\ Trades = {l \in Legs : Leg(l).asset = Bond /\ fate[l[1]][l[2]].status = "filled"}
      /\ Trades \subseteq Legs
  BY DEF Trades, Answer
<1>4. OnlyBuys(g) <=> \A l \in Trades : placed[l[1]].agent = g /\ Leg(l).side = "buy"
  BY DEF OnlyBuys
<1>5. ASSUME stage = "between", OnlyBuys(g), schedule.active,
             book[g].units[Bond] = MapThenSumSet(Quantity, Trades)
      PROVE  book[g].accrued = Interest * MapThenSumSet(EarningOf, Trades)
  <2> DEFINE Q == [l \in Trades |-> Quantity(l)]
             G == [l \in Trades |-> EarningOf(l)]
             E == Earnings(schedule.last)
  <2>1. /\ IsFiniteSet(Trades)
        /\ \A l \in Trades : BoughtOf[l] = Quantity(l) /\ Quantity(l) \in Int
        /\ Bought(g, Bond) = Sum(BoughtOf, Trades)
    BY <1>1, <1>5, TradesOf DEF Quantity, Answer
  <2>2. schedule.last \in Nat
    BY <1>1 DEF Clock
  <2>3. \A l \in Trades : E[l] = EarningOf(l) /\ E[l] \in Int
    BY <1>1, <2>2, EarningsInt DEF EarningOf, CouponAt, Answer
  <2>4. MapThenSumSet(Quantity, Trades) = Sum(Q, Trades)
    BY <2>1, QuantitySum
  <2>5. MapThenSumSet(EarningOf, Trades) = Sum(G, Trades)
    BY <2>1, <2>3, EarningSum
  <2>6. \A l \in Trades : Q[l] \in Int /\ Q[l] = BoughtOf[l] /\ G[l] \in Int /\ G[l] = E[l]
    BY <2>1, <2>3
  <2>7. Earned(schedule.last) = Sum(E, Trades)
    BY DEF Earned
  <2> HIDE DEF Q, G, E
  <2>8. Sum(Q, Trades) = Sum(BoughtOf, Trades) /\ Sum(G, Trades) = Sum(E, Trades)
    BY <2>1, <2>6, SumSame
  <2>9. Accrues /\ Horizon(g) = schedule.last
    BY <1>1, <1>5 DEF Accrues, Horizon, Ahead, Times
  <2>10. book[g].units[Bond] = Bought(g, Bond)
    BY <1>5, <2>1, <2>4, <2>8
  <2>11. book[g].accrued = Interest * Earned(schedule.last)
    BY <1>1, <1>5, <2>9, <2>10 DEF Interests
  <2> QED
    BY <2>5, <2>7, <2>8, <2>11
<1>6. /\ MapThenSumSet(LAMBDA l : fate[l[1]][l[2]].qty, Trades) = MapThenSumSet(Quantity, Trades)
      /\ MapThenSumSet(LAMBDA l : fate[l[1]][l[2]].qty
           * (schedule.last - Max({Period * (schedule.last \div Period), fate[l[1]][l[2]].at})),
           Trades) = MapThenSumSet(EarningOf, Trades)
  BY DEF Quantity, EarningOf
<1> QED
  BY <1>2, <1>3, <1>4, <1>5, <1>6

LEMMA InterestInvariant ==
  ASSUME NoAccruals, NoCall
  PROVE  Spec => []InterestInv
<1>1. Init => InterestInv
  BY InitInterest
<1>2. InterestInv /\ [Next]_vars => InterestInv'
  BY StepInterest
<1> QED
  BY <1>1, <1>2, PTL DEF Spec

(* Interest is earned by holding: an account without bonds has none, and   *)
(* the only buyer of the bond that never sold has what every purchase      *)
(* earned since the last coupon date, for any gaps between the boundaries, *)
(* any period and any maturity, unless an announced accrual adds interest  *)
(* of its own.                                                             *)
THEOREM InterestIsEarned ==
  ASSUME NoAccruals, NoCall
  PROVE  Spec => []InterestMatchesHolding
BY InterestInvariant, InterestsMatch, PTL

-----------------------------------------------------------------------------
(* The clip of a future. *)

(* What a target's order on a future is clipped to can be carried, and one *)
(* contract more cannot, whatever the position, the marks and the margins  *)
(* of the other assets (rcpp_backtest.cpp:1754-1782).  If nothing is       *)
(* filled although the account is sound, not even one contract is carried. *)
THEOREM FutureClipIsTight ==
  ASSUME NEW t, NEW l, Derived(l), NEW change \in Int,
         Lots(t, l, change) < K!AbsVal(change)
  PROVE  LET lots        == Lots(t, l, change)
             Carries(k) == Feasible(t, l, K!Sign(change) * k)
         IN  /\ lots > 0 => Carries(lots) /\ ~Carries(lots + 1)
             /\ lots = 0 /\ Carries(0) => ~Carries(1)
<1> DEFINE asked == K!AbsVal(change)
           Carries(k) == Feasible(t, l, K!Sign(change) * k)
           fits == {k \in 0 .. asked : Carries(k)}
           lots == Lots(t, l, change)
           f == CHOOSE f : IsSearch(f, fits, 0, asked)
<1>1. asked \in Nat /\ lots \in Nat /\ lots < asked
  BY LotsNat DEF K!AbsVal
<1>2. lots = K!LargestFit(fits, 0, asked)
  BY <1>1 DEF Lots
<1>3. K!LargestFit(fits, 0, asked) = f[<<0, asked>>]
  BY DEF K!LargestFit, IsSearch
<1>4. \A k \in 0 .. asked : k \in fits <=> Carries(k)
  OBVIOUS
<1>5. lots \in {0} \cup (fits \cap (0 .. asked))
  BY <1>1, <1>2, LargestFitFits
<1> HIDE DEF asked, fits, lots, Carries
<1>6. IsSearch(f, fits, 0, asked)
  BY SearchExists, <1>1
<1> HIDE DEF f
<1>7. /\ lots # 0 /\ lots < asked => lots + 1 \notin fits
      /\ lots = 0 /\ asked > 0 /\ 0 \in fits => 1 \notin fits
  BY <1>1, <1>2, <1>3, <1>6, SearchIsTight
<1>8. lots > 0 => Carries(lots) /\ ~Carries(lots + 1)
  BY <1>1, <1>4, <1>5, <1>7
<1>9. lots = 0 /\ Carries(0) => ~Carries(1)
  BY <1>1, <1>4, <1>7
<1> QED
  BY <1>8, <1>9 DEF lots, Carries

=============================================================================
