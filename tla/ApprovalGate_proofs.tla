------------------------ MODULE ApprovalGate_proofs ------------------------
(***************************************************************************)
(* Theorems about ApprovalGate for any number of cards, taps and reads:    *)
(* the argument is that a claim makes its resolver the only owner of the   *)
(* card until the tool has run and its outcome is written.                 *)
(***************************************************************************)
EXTENDS ApprovalGate, TLAPS

\* A resolver between its claim and the write of its outcome.
Owning == {"claimed", "revoked", "decided"}

OwnerInv(q) ==
  /\ at[q] \in {"claimed", "revoked"} =>
       status[card[q]] = "approved" /\ ran[card[q]] = 0
  /\ at[q] = "decided" =>
       \/ status[card[q]] = "approved" /\ outcome[q] \in {"executed", "failed"}
       \/ status[card[q]] = "denied" /\ outcome[q] = "denied" /\ ran[card[q]] = 0

OneOwner ==
  \A p, q \in Resolvers :
    (at[p] \in Owning /\ at[q] \in Owning /\ card[p] = card[q]) => p = q

StageInv == \A c \in toStage : status[c] = "absent"

IInv ==
  /\ TypeOK
  /\ \A q \in Resolvers : OwnerInv(q)
  /\ OneOwner
  /\ StageInv
  /\ RunsAtMostOnce
  /\ RunIsNeverDisowned

LEMMA InitEstablishesIInv == Init => IInv
<1> SUFFICES ASSUME Init PROVE IInv
  OBVIOUS
<1> USE GateAssumption DEF Init, Terminal, Live, Ended, Calls
<1>1. TypeOK
  <2>1. status \in [Cards -> {"absent", "pending", "approved"} \cup Terminal]
    OBVIOUS
  <2>2. at \in [Resolvers -> {"idle"} \cup Live \cup Ended]
    OBVIOUS
  <2> QED
    BY <2>1, <2>2 DEF TypeOK
<1>2. \A q \in Resolvers : OwnerInv(q)
  BY DEF OwnerInv
<1>3. OneOwner /\ StageInv /\ RunsAtMostOnce /\ RunIsNeverDisowned
  BY DEF OneOwner, Owning, StageInv, RunsAtMostOnce, RunIsNeverDisowned
<1> QED
  BY <1>1, <1>2, <1>3 DEF IInv

\* The steps of the stream, of the clock and of a new user message.
LEMMA OtherStepsKeepTypeOK ==
  ASSUME TypeOK,
         \/ \E c \in Cards : Stage(c) \/ StageFails(c) \/ BecomesDue(c)
         \/ \E x \in Reads : InlineRead(x)
         \/ ReadsStop \/ StreamDies
         \/ SweepPending \/ SweepFails \/ RecordSuperseded \/ RecordUserTurn
  PROVE  TypeOK'
<1> USE GateAssumption
    DEF TypeOK, Calls, rows, resolver, stream, newTurn, SetStatus, Fault,
        RecordResults, Terminal
<1>1. ASSUME NEW c \in Cards, Stage(c) PROVE TypeOK'
  BY <1>1 DEF Stage
<1>2. ASSUME NEW c \in Cards, StageFails(c) \/ BecomesDue(c) PROVE TypeOK'
  BY <1>2 DEF StageFails, BecomesDue
<1>3. ASSUME NEW x \in Reads, InlineRead(x) PROVE TypeOK'
  BY <1>3 DEF InlineRead
<1>4. CASE ReadsStop \/ StreamDies
  BY <1>4 DEF ReadsStop, StreamDies
<1>5. CASE SweepPending
  BY <1>5 DEF SweepPending
<1>6. CASE SweepFails \/ RecordUserTurn
  BY <1>6 DEF SweepFails, RecordUserTurn
<1>7. CASE RecordSuperseded
  BY <1>7 DEF RecordSuperseded
<1> QED
  BY <1>1, <1>2, <1>3, <1>4, <1>5, <1>6, <1>7

LEMMA ResolverStepsKeepTypeOK ==
  ASSUME TypeOK, NEW q \in Resolvers,
         Load(q) \/ TurnAway(q) \/ Revoke(q) \/ Die(q) \/ Release(q) \/ Step(q)
  PROVE  TypeOK'
<1> USE GateAssumption
    DEF TypeOK, Calls, rows, resolver, stream, newTurn, SetStatus, Goto, Fault,
        RecordResults, Terminal, Live, Ended
<1>1. CASE Load(q)
  BY <1>1 DEF Load
<1>2. CASE ExpireLoaded(q)
  BY <1>2 DEF ExpireLoaded
<1>3. CASE TurnAway(q) \/ ClaimLost(q) \/ Revoke(q) \/ Die(q) \/ Check(q)
  BY <1>3 DEF TurnAway, ClaimLost, Revoke, Die, Check, MayHaveReplied
<1>4. CASE Claim(q)
  BY <1>4 DEF Claim
<1>5. CASE SettleRevoked(q)
  BY <1>5 DEF SettleRevoked
<1>6. CASE RecordRevoked(q)
  BY <1>6 DEF RecordRevoked
<1>7. CASE Execute(q)
  BY <1>7 DEF Execute
<1>8. CASE Finalize(q)
  BY <1>8 DEF Finalize
<1>9. CASE Record(q)
  BY <1>9 DEF Record
<1>10. CASE ExpireSiblings(q)
  BY <1>10 DEF ExpireSiblings
<1>11. CASE Stamp(q)
  BY <1>11 DEF Stamp, Unstamped
<1>12. CASE Synthesize(q)
  BY <1>12 DEF Synthesize
<1>13. CASE LoadHistory(q)
  BY <1>13 DEF LoadHistory
<1>14. CASE Reply(q)
  BY <1>14 DEF Reply
<1>15. CASE Release(q)
  BY <1>15 DEF Release, MayHaveReplied
<1> QED
  BY <1>1, <1>2, <1>3, <1>4, <1>5, <1>6, <1>7, <1>8, <1>9, <1>10, <1>11, <1>12, <1>13, <1>14, <1>15 DEF Step

LEMMA NextKeepsTypeOK == TypeOK /\ [Next]_vars => TypeOK'
<1> SUFFICES ASSUME TypeOK, [Next]_vars PROVE TypeOK'
  OBVIOUS
<1>1. CASE UNCHANGED vars
  BY <1>1 DEF TypeOK, vars, rows, resolver, stream, newTurn
<1>2. CASE Next
  BY <1>2, OtherStepsKeepTypeOK, ResolverStepsKeepTypeOK DEF Next
<1> QED
  BY <1>1, <1>2

\* A step that leaves the cards' verdicts, their runs and the outcomes alone and
\* brings nobody into ownership keeps the invariant.
Quiet ==
  /\ UNCHANGED <<status, ran, card, outcome>>
  /\ toStage' \subseteq toStage
  /\ \A q \in Resolvers : at'[q] \in Owning =>
       at'[q] = at[q] \/ (at[q] = "claimed" /\ at'[q] = "revoked")

LEMMA QuietKeepsIInv == ASSUME IInv, TypeOK', Quiet PROVE IInv'
<1> USE DEF IInv, TypeOK, Quiet
<1>1. \A q \in Resolvers : OwnerInv(q)'
  BY DEF OwnerInv, Owning
<1>2. OneOwner'
  BY DEF OneOwner, Owning
<1>3. StageInv' /\ RunsAtMostOnce' /\ RunIsNeverDisowned'
  BY DEF StageInv, RunsAtMostOnce, RunIsNeverDisowned
<1> QED
  BY <1>1, <1>2, <1>3

LEMMA QuietSteps ==
  ASSUME TypeOK,
         \/ UNCHANGED vars
         \/ \E c \in Cards : StageFails(c) \/ BecomesDue(c)
         \/ \E x \in Reads : InlineRead(x)
         \/ ReadsStop \/ StreamDies
         \/ SweepFails \/ RecordSuperseded \/ RecordUserTurn
         \/ \E q \in Resolvers :
              \/ Load(q) \/ TurnAway(q) \/ ClaimLost(q) \/ Revoke(q) \/ Die(q)
              \/ RecordRevoked(q) \/ Record(q) \/ Check(q) \/ Stamp(q)
              \/ Synthesize(q) \/ LoadHistory(q) \/ Reply(q) \/ Release(q)
  PROVE  Quiet
<1> USE DEF TypeOK, Quiet, Owning, rows, resolver, stream, newTurn, Goto
<1>1. CASE UNCHANGED vars
  BY <1>1 DEF vars
<1>2. CASE \E c \in Cards : StageFails(c) \/ BecomesDue(c)
  BY <1>2 DEF StageFails, BecomesDue
<1>3. CASE (\E x \in Reads : InlineRead(x)) \/ ReadsStop \/ StreamDies
  BY <1>3 DEF InlineRead, ReadsStop, StreamDies
<1>4. CASE SweepFails \/ RecordSuperseded \/ RecordUserTurn
  BY <1>4 DEF SweepFails, RecordSuperseded, RecordUserTurn
<1>5. ASSUME NEW q \in Resolvers,
             Load(q) \/ TurnAway(q) \/ ClaimLost(q) \/ Revoke(q) \/ Die(q)
      PROVE  Quiet
  BY <1>5 DEF Load, TurnAway, ClaimLost, Revoke, Die
<1>6. ASSUME NEW q \in Resolvers,
             RecordRevoked(q) \/ Record(q) \/ Check(q) \/ Stamp(q)
      PROVE  Quiet
  BY <1>6 DEF RecordRevoked, Record, Check, Stamp
<1>7. ASSUME NEW q \in Resolvers,
             Synthesize(q) \/ LoadHistory(q) \/ Reply(q) \/ Release(q)
      PROVE  Quiet
  BY <1>7 DEF Synthesize, LoadHistory, Reply, Release
<1> QED
  BY <1>1, <1>2, <1>3, <1>4, <1>5, <1>6, <1>7

\* A step that only closes open cards, or opens absent ones, touches no owner.
LEMMA OpenCardsKeepIInv ==
  ASSUME IInv, TypeOK', UNCHANGED <<ran, card, outcome>>, toStage' \subseteq toStage,
         \A q \in Resolvers : at'[q] \in Owning => at'[q] = at[q],
         \A c \in Cards :
           \/ status'[c] = status[c]
           \/ status[c] = "absent" /\ status'[c] = "pending" /\ c \notin toStage'
           \/ status[c] = "pending" /\ status'[c] = "expired" /\ c \notin toStage
  PROVE  IInv'
<1> USE DEF IInv, TypeOK
<1>1. \A q \in Resolvers : OwnerInv(q)'
  BY DEF OwnerInv, Owning
<1>2. OneOwner'
  BY DEF OneOwner, Owning
<1>3. StageInv' /\ RunsAtMostOnce' /\ RunIsNeverDisowned'
  BY DEF StageInv, RunsAtMostOnce, RunIsNeverDisowned
<1> QED
  BY <1>1, <1>2, <1>3

LEMMA OpeningsAndExpiries ==
  ASSUME IInv, TypeOK',
         \/ \E c \in Cards : Stage(c)
         \/ \E q \in Resolvers : ExpireLoaded(q) \/ ExpireSiblings(q)
         \/ SweepPending
  PROVE  IInv'
<1> USE OpenCardsKeepIInv
    DEF IInv, TypeOK, StageInv, Owning, stream, resolver, newTurn, SetStatus, Goto
<1>1. ASSUME NEW c \in Cards, Stage(c) PROVE IInv'
  BY <1>1 DEF Stage
<1>2. ASSUME NEW q \in Resolvers, ExpireLoaded(q) PROVE IInv'
  BY <1>2 DEF ExpireLoaded
<1>3. ASSUME NEW q \in Resolvers, ExpireSiblings(q) PROVE IInv'
  BY <1>3 DEF ExpireSiblings
<1>4. CASE SweepPending
  BY <1>4 DEF SweepPending
<1> QED
  BY <1>1, <1>2, <1>3, <1>4

\* The claim: an open card has no owner, so the claimant becomes the only one.
LEMMA ClaimKeepsIInv == ASSUME IInv, TypeOK', NEW q \in Resolvers, Claim(q) PROVE IInv'
<1> USE DEF IInv, TypeOK, Claim, stream, SetStatus, Goto
<1>1. \A p \in Resolvers : at[p] \in Owning => card[p] # card[q]
  BY DEF OwnerInv, Owning
<1>2. ran[card[q]] = 0
  BY DEF RunIsNeverDisowned
<1>3. ASSUME NEW p \in Resolvers PROVE OwnerInv(p)'
  <2>1. CASE p = q
    BY <1>2, <2>1 DEF OwnerInv
  <2>2. CASE p # q
    BY <1>1, <2>2 DEF OwnerInv, Owning
  <2> QED
    BY <2>1, <2>2
<1>4. OneOwner'
  BY <1>1 DEF OneOwner, Owning
<1>5. StageInv' /\ RunsAtMostOnce' /\ RunIsNeverDisowned'
  BY <1>2 DEF StageInv, RunsAtMostOnce, RunIsNeverDisowned
<1> QED
  BY <1>3, <1>4, <1>5

\* The owner runs the tool, which nobody has run before.
LEMMA ExecuteKeepsIInv == ASSUME IInv, TypeOK', NEW q \in Resolvers, Execute(q) PROVE IInv'
<1> USE DEF IInv, TypeOK, Execute, stream, rows, Goto
<1>1. status[card[q]] = "approved" /\ ran[card[q]] = 0
  BY DEF OwnerInv
<1>2. ASSUME NEW p \in Resolvers PROVE OwnerInv(p)'
  <2>1. CASE p = q
    BY <1>1, <2>1 DEF OwnerInv
  <2>2. CASE p # q
    BY <1>1, <2>2 DEF OwnerInv, OneOwner, Owning
  <2> QED
    BY <2>1, <2>2
<1>3. OneOwner'
  BY DEF OneOwner, Owning
<1>4. StageInv' /\ RunsAtMostOnce' /\ RunIsNeverDisowned'
  BY <1>1 DEF StageInv, RunsAtMostOnce, RunIsNeverDisowned
<1> QED
  BY <1>2, <1>3, <1>4

\* The owner writes its outcome, or its failure, and owns the card no more.
LEMMA SettleKeepsIInv ==
  ASSUME IInv, TypeOK', NEW q \in Resolvers, Finalize(q) \/ SettleRevoked(q)
  PROVE  IInv'
<1> USE DEF IInv, TypeOK, Finalize, SettleRevoked, stream, resolver, SetStatus, Goto
<1>1. ASSUME NEW p \in Resolvers PROVE OwnerInv(p)'
  <2>1. CASE p = q
    BY <2>1 DEF OwnerInv
  <2>2. CASE p # q
    BY <2>2 DEF OwnerInv, OneOwner, Owning
  <2> QED
    BY <2>1, <2>2
<1>2. OneOwner'
  BY DEF OneOwner, Owning
<1>3. StageInv' /\ RunsAtMostOnce' /\ RunIsNeverDisowned'
  BY DEF StageInv, RunsAtMostOnce, RunIsNeverDisowned, OwnerInv
<1> QED
  BY <1>1, <1>2, <1>3

LEMMA NextKeepsIInv == IInv /\ [Next]_vars => IInv'
<1> SUFFICES ASSUME IInv, [Next]_vars PROVE IInv'
  OBVIOUS
<1>1. TypeOK /\ TypeOK'
  BY NextKeepsTypeOK DEF IInv
<1>2. CASE UNCHANGED vars
  BY <1>1, <1>2, QuietSteps, QuietKeepsIInv
<1>3. CASE Next
  BY <1>1, <1>3, QuietSteps, QuietKeepsIInv, OpeningsAndExpiries, ClaimKeepsIInv,
     ExecuteKeepsIInv, SettleKeepsIInv DEF Next, Step
<1> QED
  BY <1>2, <1>3

THEOREM SpecImpliesIInv == Spec => []IInv
  BY InitEstablishesIInv, NextKeepsIInv, PTL DEF Spec

\* Every reachable state is well typed.
THEOREM TypeCorrect == Spec => []TypeOK
  BY SpecImpliesIInv, PTL DEF IInv

\* For any number of taps, tabs and crashes, a card's tool runs at most once.
THEOREM AtMostOnce == Spec => []RunsAtMostOnce
  BY SpecImpliesIInv, PTL DEF IInv

\* A tool that ran belongs to a card that reads as approved, executed or failed.
THEOREM NeverDisowned == Spec => []RunIsNeverDisowned
  BY SpecImpliesIInv, PTL DEF IInv

----------------------------------------------------------------------------
\* A status only moves absent -> pending -> approved -> executed or failed, or
\* from pending to denied or expired, whoever takes the step.
LEMMA TerminalIsKept ==
  ASSUME IInv, [Next]_vars, NEW c \in Cards, status[c] \in Terminal
  PROVE  status'[c] = status[c]
<1> USE DEF IInv, TypeOK, rows, SetStatus, Terminal
<1>1. CASE UNCHANGED vars
  BY <1>1 DEF vars
<1>2. ASSUME NEW d \in Cards, Stage(d) \/ StageFails(d) \/ BecomesDue(d)
      PROVE  status'[c] = status[c]
  BY <1>2 DEF Stage, StageFails, BecomesDue, StageInv
<1>3. CASE (\E x \in Reads : InlineRead(x)) \/ ReadsStop \/ StreamDies
  BY <1>3 DEF InlineRead, ReadsStop, StreamDies
<1>4. CASE SweepPending \/ SweepFails \/ RecordSuperseded \/ RecordUserTurn
  BY <1>4 DEF SweepPending, SweepFails, RecordSuperseded, RecordUserTurn
<1>5. ASSUME NEW q \in Resolvers,
             Load(q) \/ TurnAway(q) \/ Revoke(q) \/ Die(q) \/ Release(q)
      PROVE  status'[c] = status[c]
  BY <1>5 DEF Load, TurnAway, Revoke, Die, Release
<1>6. ASSUME NEW q \in Resolvers, Step(q)
      PROVE  status'[c] = status[c]
  <2>1. CASE ExpireLoaded(q) \/ Claim(q) \/ ClaimLost(q)
    BY <2>1 DEF ExpireLoaded, Claim, ClaimLost
  <2>2. CASE SettleRevoked(q) \/ RecordRevoked(q) \/ Execute(q)
    BY <2>2 DEF SettleRevoked, RecordRevoked, Execute, OwnerInv
  <2>3. CASE Finalize(q) \/ Record(q)
    BY <2>3 DEF Finalize, Record, OwnerInv
  <2>4. CASE ExpireSiblings(q) \/ Check(q) \/ Stamp(q) \/ Synthesize(q)
    BY <2>4 DEF ExpireSiblings, Check, Stamp, Synthesize
  <2>5. CASE LoadHistory(q) \/ Reply(q)
    BY <2>5 DEF LoadHistory, Reply
  <2> QED
    BY <1>6, <2>1, <2>2, <2>3, <2>4, <2>5 DEF Step
<1> QED
  BY <1>1, <1>2, <1>3, <1>4, <1>5, <1>6 DEF Next

\* A denied, expired, executed or failed card never reads otherwise again, though
\* finalizePendingAction overwrites the status without looking at it.
THEOREM VerdictsStand == Spec => VerdictStands
<1>1. IInv /\ [Next]_vars
        => [\A c \in Cards : status[c] \in Terminal => status'[c] = status[c]]_vars
  BY TerminalIsKept
<1> QED
  BY <1>1, SpecImpliesIInv, PTL DEF Spec, VerdictStands

----------------------------------------------------------------------------
(* Resuming a turn that was staged in full *)

\* A resolver that has found the turn resolved and is, or was, to resume it.
Past == {"stamping", "replied"} \cup Resuming

FlightInv ==
  Staged = Cards =>
    /\ toStage = {} /\ \A c \in Cards : Exists(c)
    /\ (\E q \in Resolvers : at[q] \in Past) => \A c \in Cards : status[c] \in Terminal
    /\ ResumersOf # {} => \A c \in Cards : stamped[c]
    /\ \A p, q \in ResumersOf : p = q

LEMMA InitEstablishesFlight == Init => FlightInv
  BY DEF Init, FlightInv, Exists, Past, Resuming, ResumersOf

\* Cards that are all staged stay on disk: no step takes a row away.
LEMMA CardsStay ==
  ASSUME IInv, [Next]_vars, toStage = {}, \A c \in Cards : Exists(c)
  PROVE  toStage' = {} /\ \A c \in Cards : Exists(c)'
<1> USE DEF IInv, TypeOK, Exists, rows, stream, SetStatus, Terminal
<1>1. CASE UNCHANGED vars
  BY <1>1 DEF vars
<1>2. ASSUME NEW d \in Cards, Stage(d) \/ StageFails(d) \/ BecomesDue(d)
      PROVE  toStage' = {} /\ \A c \in Cards : Exists(c)'
  BY <1>2 DEF Stage, StageFails, BecomesDue
<1>3. CASE (\E x \in Reads : InlineRead(x)) \/ ReadsStop \/ StreamDies
  BY <1>3 DEF InlineRead, ReadsStop, StreamDies
<1>4. CASE SweepPending \/ SweepFails \/ RecordSuperseded \/ RecordUserTurn
  BY <1>4 DEF SweepPending, SweepFails, RecordSuperseded, RecordUserTurn
<1>5. ASSUME NEW q \in Resolvers,
             Load(q) \/ TurnAway(q) \/ Revoke(q) \/ Die(q) \/ Release(q)
      PROVE  toStage' = {} /\ \A c \in Cards : Exists(c)'
  BY <1>5 DEF Load, TurnAway, Revoke, Die, Release
<1>6. ASSUME NEW q \in Resolvers, Step(q)
      PROVE  toStage' = {} /\ \A c \in Cards : Exists(c)'
  <2>1. CASE ExpireLoaded(q) \/ Claim(q) \/ ClaimLost(q)
    BY <2>1 DEF ExpireLoaded, Claim, ClaimLost
  <2>2. CASE SettleRevoked(q) \/ RecordRevoked(q) \/ Execute(q)
    BY <2>2 DEF SettleRevoked, RecordRevoked, Execute
  <2>3. CASE Finalize(q) \/ Record(q)
    BY <2>3 DEF Finalize, Record
  <2>4. CASE ExpireSiblings(q) \/ Check(q) \/ Stamp(q) \/ Synthesize(q)
    BY <2>4 DEF ExpireSiblings, Check, Stamp, Synthesize
  <2>5. CASE LoadHistory(q) \/ Reply(q)
    BY <2>5 DEF LoadHistory, Reply
  <2> QED
    BY <1>6, <2>1, <2>2, <2>3, <2>4, <2>5 DEF Step
<1> QED
  BY <1>1, <1>2, <1>3, <1>4, <1>5, <1>6 DEF Next

\* A step that brings nobody past the check and moves no stamp.
Behind ==
  /\ stamped' = stamped
  /\ \A q \in Resolvers : at'[q] \in Past => at[q] \in Past
  /\ \A q \in Resolvers : at'[q] \in Resuming \cup {"replied"}
                           => at[q] \in Resuming \cup {"replied"}

LEMMA BehindKeepsFlight ==
  ASSUME IInv, FlightInv, [Next]_vars, Behind
  PROVE  FlightInv'
<1> SUFFICES ASSUME Staged = Cards PROVE FlightInv'
  BY DEF FlightInv
<1>1. toStage' = {} /\ \A c \in Cards : Exists(c)'
  BY CardsStay DEF FlightInv
<1>2. (\E q \in Resolvers : at'[q] \in Past) => \A c \in Cards : status'[c] \in Terminal
  BY TerminalIsKept DEF FlightInv, Behind
<1>3. ResumersOf' \subseteq ResumersOf
  BY DEF ResumersOf, Behind
<1> QED
  BY <1>1, <1>2, <1>3 DEF FlightInv, Behind

LEMMA BehindSteps ==
  ASSUME TypeOK,
         \/ UNCHANGED vars
         \/ \E c \in Cards : Stage(c) \/ StageFails(c) \/ BecomesDue(c)
         \/ \E x \in Reads : InlineRead(x)
         \/ ReadsStop \/ StreamDies
         \/ SweepPending \/ SweepFails \/ RecordSuperseded \/ RecordUserTurn
         \/ \E q \in Resolvers :
              \/ Load(q) \/ TurnAway(q) \/ Revoke(q) \/ Die(q)
              \/ ExpireLoaded(q) \/ Claim(q) \/ ClaimLost(q)
              \/ SettleRevoked(q) \/ RecordRevoked(q) \/ Execute(q)
              \/ Finalize(q) \/ Record(q) \/ ExpireSiblings(q)
              \/ Synthesize(q) \/ LoadHistory(q) \/ Reply(q)
  PROVE  Behind
<1> USE DEF TypeOK, Behind, Past, Resuming, rows, resolver, stream, newTurn, Goto
<1>1. CASE UNCHANGED vars
  BY <1>1 DEF vars
<1>2. ASSUME NEW c \in Cards, Stage(c) \/ StageFails(c) \/ BecomesDue(c) PROVE Behind
  BY <1>2 DEF Stage, StageFails, BecomesDue
<1>3. CASE (\E x \in Reads : InlineRead(x)) \/ ReadsStop \/ StreamDies
  BY <1>3 DEF InlineRead, ReadsStop, StreamDies
<1>4. CASE SweepPending \/ SweepFails \/ RecordSuperseded \/ RecordUserTurn
  BY <1>4 DEF SweepPending, SweepFails, RecordSuperseded, RecordUserTurn
<1>5. ASSUME NEW q \in Resolvers, Load(q) \/ TurnAway(q) \/ Revoke(q) \/ Die(q)
      PROVE  Behind
  BY <1>5 DEF Load, TurnAway, Revoke, Die
<1>6. ASSUME NEW q \in Resolvers, ExpireLoaded(q) \/ Claim(q) \/ ClaimLost(q)
      PROVE  Behind
  BY <1>6 DEF ExpireLoaded, Claim, ClaimLost
<1>7. ASSUME NEW q \in Resolvers,
             SettleRevoked(q) \/ RecordRevoked(q) \/ Execute(q) \/ Finalize(q)
      PROVE  Behind
  BY <1>7 DEF SettleRevoked, RecordRevoked, Execute, Finalize
<1>8. ASSUME NEW q \in Resolvers, Record(q) \/ ExpireSiblings(q) PROVE Behind
  BY <1>8 DEF Record, ExpireSiblings
<1>9. ASSUME NEW q \in Resolvers, Synthesize(q) \/ LoadHistory(q) \/ Reply(q)
      PROVE  Behind
  BY <1>9 DEF Synthesize, LoadHistory, Reply
<1> QED
  BY <1>1, <1>2, <1>3, <1>4, <1>5, <1>6, <1>7, <1>8, <1>9

\* The check lets a resolver past only when every card is resolved.
LEMMA CheckKeepsFlight ==
  ASSUME IInv, FlightInv, NEW q \in Resolvers, Check(q)
  PROVE  FlightInv'
<1>1. UNCHANGED <<toStage, status, stamped>>
  BY DEF Check, stream, rows
<1>2. ResumersOf' = ResumersOf
  BY DEF IInv, TypeOK, Check, Goto, ResumersOf, Resuming
<1>3. \A p \in Resolvers : at'[p] \in Past => at[p] \in Past \/ Resolved
  BY DEF IInv, TypeOK, Check, Goto, Past, Resuming
<1> QED
  BY <1>1, <1>2, <1>3 DEF FlightInv, Exists, Resolved

\* A stamp is taken only where no card has one, so nobody else is resuming.
LEMMA StampKeepsFlight ==
  ASSUME IInv, FlightInv, NEW q \in Resolvers, Stamp(q)
  PROVE  FlightInv'
<1> SUFFICES ASSUME Staged = Cards PROVE FlightInv'
  BY DEF FlightInv
<1>1. UNCHANGED <<toStage, status>>
  BY DEF Stamp, stream
<1>2. \A p \in Resolvers : at'[p] \in Past => at[p] \in Past
  BY DEF IInv, TypeOK, Stamp, Goto, Past, Resuming
<1>3. \A c \in Cards : stamped'[c]
  BY DEF IInv, TypeOK, FlightInv, Stamp, Unstamped
<1>4. CASE Unstamped = {}
  <2>1. ResumersOf' \subseteq ResumersOf
    BY <1>4 DEF IInv, TypeOK, Stamp, Goto, ResumersOf, Resuming
  <2> QED
    BY <1>1, <1>2, <1>3, <2>1 DEF FlightInv, Exists
<1>5. CASE Unstamped # {}
  <2>1. ResumersOf = {}
    BY <1>5 DEF FlightInv, Unstamped
  <2>2. ResumersOf' \subseteq {q}
    BY <2>1 DEF IInv, TypeOK, Stamp, Goto, ResumersOf
  <2> QED
    BY <1>1, <1>2, <1>3, <2>2 DEF FlightInv, Exists
<1> QED
  BY <1>4, <1>5

\* A release clears the stamps of the only resumer, which ends with it.
LEMMA ReleaseKeepsFlight ==
  ASSUME IInv, FlightInv, NEW q \in Resolvers, Release(q)
  PROVE  FlightInv'
<1> SUFFICES ASSUME Staged = Cards PROVE FlightInv'
  BY DEF FlightInv
<1>1. UNCHANGED <<toStage, status>>
  BY DEF Release, stream
<1>2. \A p \in Resolvers : at'[p] \in Past => at[p] \in Past
  BY DEF IInv, TypeOK, Release, Goto, Past, Resuming
<1>3. ResumersOf' = {}
  BY DEF IInv, TypeOK, FlightInv, Release, Goto, ResumersOf, Resuming
<1> QED
  BY <1>1, <1>2, <1>3 DEF FlightInv, Exists

LEMMA NextKeepsFlight == IInv /\ FlightInv /\ [Next]_vars => FlightInv'
<1> SUFFICES ASSUME IInv, FlightInv, [Next]_vars PROVE FlightInv'
  OBVIOUS
<1>1. TypeOK
  BY DEF IInv
<1>2. (\E q \in Resolvers : Check(q) \/ Stamp(q) \/ Release(q)) \/ Behind
  BY <1>1, BehindSteps DEF Next, Step
<1> QED
  BY <1>2, BehindKeepsFlight, CheckKeepsFlight, StampKeepsFlight, ReleaseKeepsFlight

\* A turn that was staged in full has stamps on every card while it has a resumer.
THEOREM SpecImpliesFlight == Spec => []FlightInv
  BY InitEstablishesFlight, NextKeepsFlight, SpecImpliesIInv, PTL DEF Spec

\* The model is never resumed while a card of a fully staged turn is open.
THEOREM ResumeIsResolved == Spec => []ResumeOnlyWhenResolved
<1>1. FlightInv => ResumeOnlyWhenResolved
  BY DEF FlightInv, ResumeOnlyWhenResolved, Past
<1> QED
  BY <1>1, SpecImpliesFlight, PTL

\* Of any number of resolvers one resumes a fully staged turn, and none after it.
THEOREM OneFlight == Spec => []SingleFlightOnceStaged
<1>1. FlightInv => SingleFlightOnceStaged
  BY DEF FlightInv, SingleFlightOnceStaged
<1> QED
  BY <1>1, SpecImpliesFlight, PTL

----------------------------------------------------------------------------
(* The gate implements ConsentOnce. *)

LEMMA InitImplementsConsent == Init => Consent!Init
  BY DEF Init, Consent!Init, VerdictOf

\* Every step is a step of ConsentOnce or changes nothing it speaks of.
LEMMA StutterImplementsConsent ==
  ASSUME UNCHANGED <<status, ran>>
  PROVE  UNCHANGED Consent!consentVars
  BY DEF Consent!consentVars, VerdictOf

\* A set of open cards expires.
LEMMA LapseImplementsConsent ==
  ASSUME TypeOK, NEW S \in SUBSET Cards, SetStatus(S, "expired"), UNCHANGED ran,
         \A c \in S : status[c] = "pending"
  PROVE  Consent!Next
<1>1. Consent!Lapse(S)
  BY DEF TypeOK, SetStatus, VerdictOf, Consent!Lapse
<1> QED
  BY <1>1 DEF Consent!Next

LEMMA StageImplementsConsent ==
  ASSUME IInv, NEW c \in Cards, Stage(c)
  PROVE  Consent!Next
<1>1. Consent!Propose(c)
  BY DEF IInv, TypeOK, StageInv, Stage, SetStatus, VerdictOf, Consent!Propose
<1> QED
  BY <1>1 DEF Consent!Next

LEMMA ClaimImplementsConsent ==
  ASSUME TypeOK, NEW q \in Resolvers, Claim(q)
  PROVE  Consent!Next
<1> USE DEF TypeOK, Claim, SetStatus, VerdictOf, Consent!Answer
<1>1. CASE decision[q] = "approve"
  <2>1. Consent!Answer(card[q], "consented")
    BY <1>1
  <2> QED
    BY <2>1 DEF Consent!Next
<1>2. CASE decision[q] # "approve"
  <2>1. Consent!Answer(card[q], "denied")
    BY <1>2
  <2> QED
    BY <2>1 DEF Consent!Next
<1> QED
  BY <1>1, <1>2

LEMMA ExecuteImplementsConsent ==
  ASSUME IInv, NEW q \in Resolvers, Execute(q)
  PROVE  Consent!Next
<1> DEFINE told == [c \in Cards |-> VerdictOf(c)]
<1>1. card[q] \in Cards /\ status[card[q]] = "approved" /\ ran[card[q]] = 0
  BY DEF IInv, TypeOK, OwnerInv, Execute
<1>2. told[card[q]] = "consented"
  BY <1>1 DEF VerdictOf
<1>3. ran' = [ran EXCEPT ![card[q]] = 1]
  BY <1>1 DEF IInv, TypeOK, Execute
<1>4. UNCHANGED told
  BY DEF Execute, rows, VerdictOf
<1>5. Consent!Act(card[q])
  BY <1>1, <1>2, <1>3, <1>4 DEF Consent!Act
<1> QED
  BY <1>1, <1>5 DEF Consent!Next

\* An outcome written by the owner says again what the claim has said.
LEMMA SettleImplementsConsent ==
  ASSUME IInv, NEW q \in Resolvers, Finalize(q) \/ SettleRevoked(q)
  PROVE  UNCHANGED Consent!consentVars
  BY DEF IInv, TypeOK, OwnerInv, Finalize, SettleRevoked, SetStatus, VerdictOf,
         Consent!consentVars

LEMMA NextImplementsConsent ==
  IInv /\ [Next]_vars => [Consent!Next]_(Consent!consentVars)
<1> SUFFICES ASSUME IInv, [Next]_vars PROVE Consent!Next \/ UNCHANGED Consent!consentVars
  OBVIOUS
<1>1. TypeOK
  BY DEF IInv
<1>2. Quiet => UNCHANGED Consent!consentVars
  BY StutterImplementsConsent DEF Quiet
<1>3. CASE SweepPending
  BY <1>1, <1>3, LapseImplementsConsent DEF SweepPending
<1>4. ASSUME NEW q \in Resolvers, ExpireLoaded(q)
      PROVE  Consent!Next \/ UNCHANGED Consent!consentVars
  <2>1. CASE status[card[q]] = "pending"
    BY <1>1, <1>4, <2>1, LapseImplementsConsent DEF ExpireLoaded, TypeOK
  <2>2. CASE status[card[q]] # "pending"
    BY <1>4, <2>2, StutterImplementsConsent DEF ExpireLoaded
  <2> QED
    BY <2>1, <2>2
<1>5. ASSUME NEW q \in Resolvers, ExpireSiblings(q) PROVE Consent!Next
  BY <1>1, <1>5, LapseImplementsConsent DEF ExpireSiblings
<1> QED
  BY <1>1, <1>2, <1>3, <1>4, <1>5, QuietSteps, StageImplementsConsent,
     ClaimImplementsConsent, ExecuteImplementsConsent, SettleImplementsConsent
     DEF Next, Step

\* Whatever races and crashes, the gate only does what ConsentOnce allows.
THEOREM GateImplementsConsent == Spec => ImplementsConsent
  BY InitImplementsConsent, NextImplementsConsent, SpecImpliesIInv, PTL
     DEF Spec, ImplementsConsent, Consent!Spec
=============================================================================
