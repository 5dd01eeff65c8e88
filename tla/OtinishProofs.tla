--------------------------- MODULE OtinishProofs -----------------------------
(***************************************************************************)
(* What holds of Otinish for any number of users, tickets and concurrent   *)
(* handler runs.                                                           *)
(***************************************************************************)
EXTENDS Otinish, FiniteSetTheorems, WellFoundedInduction, TLAPS

------------------------------------------------------------------------------
(* Queries ordered by creation return a row of the table.                  *)

LEMMA LargestExists ==
    ASSUME NEW S \in SUBSET Tickets, S # {}
    PROVE  \E t \in S : \A s \in S : s <= t
<1> DEFINE From(k) == {t \in S : k <= t}
           T == {From(k) : k \in S}
<1>1. IsFiniteSet(S)
  <2>1. 1 \in Int /\ MaxTickets \in Int
    BY ConstantsAssumption
  <2>2. IsFiniteSet(Tickets)
    BY <2>1, FS_Interval DEF Tickets
  <2>. QED
    BY <2>2, FS_Subset
<1>2. T # {} /\ T \subseteq FiniteSubsetsOf(S)
  <2>1. T # {}
    OBVIOUS
  <2>2. ASSUME NEW k \in S
        PROVE  From(k) \in SUBSET S /\ IsFiniteSet(From(k))
    <3>1. From(k) \in SUBSET S
      OBVIOUS
    <3>. HIDE DEF From
    <3>. QED
      BY <3>1, <1>1, FS_Subset
  <2>3. T \subseteq FiniteSubsetsOf(S)
    BY <2>2 DEF FiniteSubsetsOf
  <2>. QED
    BY <2>1, <2>3
<1>3. PICK X \in T : \A Y \in T : <<Y, X>> \notin StrictSubsetOrdering(S)
  BY <1>2, FS_StrictSubsetOrderingWellFounded, WFMin
<1>4. PICK k \in S : X = From(k)
  OBVIOUS
<1>5. ASSUME NEW s \in S, ~(s <= k)
      PROVE  FALSE
  <2>1. From(s) \subseteq X /\ k \in X /\ k \notin From(s)
    <3>1. k \in Int /\ s \in Int /\ \A t \in S : t \in Int
      BY DEF Tickets
    <3>2. k < s
      BY <3>1, <1>5
    <3>3. k \in From(k) /\ k \notin From(s)
      BY <3>1, <3>2
    <3>4. ASSUME NEW t \in From(s)
          PROVE  t \in From(k)
      BY <3>1, <3>2
    <3>5. From(s) \subseteq From(k)
      BY <3>4
    <3>. QED
      BY <3>3, <3>5, <1>4
  <2>2. <<From(s), X>> \in StrictSubsetOrdering(S)
    BY <2>1, <1>4 DEF StrictSubsetOrdering
  <2>. QED
    BY <2>2, <1>3
<1>. QED
  BY <1>5

LEMMA NewestType ==
    ASSUME NEW S \in SUBSET Tickets
    PROVE  Newest(S) \in S \cup {NoId}
BY LargestExists DEF Newest

------------------------------------------------------------------------------
(* The invariant is preserved by each action.                              *)

LEMMA IdleType ==
    Idle \in Runs
BY DEF Idle, Runs, Steps, LC!Rows, NoTicket

LEMMA ChannelType ==
    ASSUME NEW u
    PROVE  /\ OpenChannel(u) \in Tickets \cup {NoId}
           /\ Newest(Authored(u)) \in Tickets \cup {NoId}
           /\ OpenChannel(u) # NoId => IsOpen(ticket[OpenChannel(u)])
<1>1. /\ Authored(u) \in SUBSET Tickets
      /\ Assigned(u) \in SUBSET Tickets
  BY DEF Authored, Assigned
<1>2. /\ Newest(Authored(u)) \in Authored(u) \cup {NoId}
      /\ Newest(Assigned(u)) \in Assigned(u) \cup {NoId}
  BY <1>1, NewestType
<1>. QED
  BY <1>1, <1>2 DEF OpenChannel, Authored, Assigned

LEMMA OpenExists ==
    ASSUME NEW row, IsOpen(row)
    PROVE  row # NoTicket
BY DEF IsOpen, OpenStatuses, LC!OpenStatuses, NoTicket, LC!NoTicket

\* An update that starts a run
LEMMA DispatchStep ==
    ASSUME IInv, NEW h \in Handlers, NEW u \in Users, NEW step \in Steps \ PipeSteps,
           NEW t \in Tickets \cup {NoId}, NEW row \in LC!Rows,
           step \in TicketSteps => t \in Tickets /\ ticket[t] # NoTicket,
           Dispatch(h, u, step, t, row)
    PROVE  IInv'
<1>1. TypeOK'
  BY DEF IInv, TypeOK, Runs, Dispatch, dbVars, fsmVars, chatVars
<1>2. ButtonInv'
  BY DEF IInv, ButtonInv, Dispatch, dbVars, fsmVars, chatVars
<1>3. ASSUME NEW g \in Handlers
      PROVE  RunInv(run[g])'
  BY DEF IInv, TypeOK, Runs, Dispatch, dbVars, fsmVars, chatVars, RunInv, PipeSteps
<1>. QED
  BY <1>1, <1>2, <1>3 DEF IInv

LEMMA UserStep ==
    ASSUME IInv, NEW u \in Users, User(u)
    PROVE  IInv'
<1>. USE DEF IInv, Runs
<1>1. CASE LinkTelegram(u)
  <2>1. TypeOK'
    BY <1>1 DEF TypeOK, LinkTelegram, fsmVars, chatVars
  <2>. QED
    BY <2>1, <1>1 DEF LinkTelegram, fsmVars, chatVars, ButtonInv, RunInv
<1>2. CASE CloseCommand(u)
  <2>1. OpenChannel(u) \in Tickets /\ ticket[OpenChannel(u)] # NoTicket
    BY <1>2, ChannelType, OpenExists DEF CloseCommand
  <2>2. TypeOK'
    BY <2>1, <1>2 DEF TypeOK, CloseCommand, dbVars, fsmVars
  <2>3. ButtonInv'
    BY <2>1, <1>2 DEF TypeOK, ButtonInv, CloseCommand, dbVars, fsmVars
  <2>. QED
    BY <2>2, <2>3, <1>2 DEF CloseCommand, dbVars, RunInv
<1>3. ASSUME NEW t \in Tickets, PressCancel(u, t)
      PROVE  IInv'
  <2>1. TypeOK' /\ ButtonInv'
    BY <1>3 DEF TypeOK, ButtonInv, PressCancel, dbVars, fsmVars
  <2>. QED
    BY <2>1, <1>3 DEF PressCancel, dbVars, RunInv
<1>4. ASSUME NEW h \in Handlers, StartCommand(h, u)
      PROVE  IInv'
  BY <1>4, ChannelType, DispatchStep
     DEF StartCommand, Steps, TicketSteps, PipeSteps, LC!Rows, NoTicket
<1>5. ASSUME NEW h \in Handlers,
             \/ PressCheckAgain(h, u) \/ PressCategory(h, u)
             \/ CancelCommand(h, u) \/ SendText(h, u)
      PROVE  IInv'
  BY <1>5, DispatchStep
     DEF PressCheckAgain, PressCategory, CancelCommand, SendText,
         Steps, TicketSteps, PipeSteps, LC!Rows, NoTicket
<1>6. ASSUME NEW h \in Handlers, NEW t \in Tickets, PressAnswer(h, u, t)
      PROVE  IInv'
  <2>1. ticket[t] \in LC!Rows /\ ticket[t] # NoTicket
    BY <1>6, OpenExists DEF PressAnswer, TypeOK
  <2>. QED
    BY <2>1, <1>6, DispatchStep DEF PressAnswer, Steps, TicketSteps, PipeSteps
<1>7. ASSUME NEW h \in Handlers, NEW t \in Tickets, PressYes(h, u, t)
      PROVE  IInv'
  <2>1. ticket[t] \in LC!Rows /\ ticket[t] # NoTicket
    BY <1>7 DEF PressYes, TypeOK, ButtonInv
  <2>. QED
    BY <2>1, <1>7, DispatchStep DEF PressYes, Steps, TicketSteps, PipeSteps
<1>. QED
  BY <1>1, <1>2, <1>3, <1>4, <1>5, <1>6, <1>7 DEF User

LEMMA HandleStep ==
    ASSUME IInv, NEW h \in Handlers, Handle(h) \/ Cut(h)
    PROVE  IInv'
<1>. USE DEF IInv, Runs, At, Goto, GotoWith, Finish, dbVars, fsmVars, chatVars
<1>. USE IdleType
<1>1. CASE StartClear(h)
  <2>0. run[h].user \in Users
    BY <1>1 DEF StartClear, RunInv
  <2>1. TypeOK'
    BY <2>0, <1>1 DEF TypeOK, StartClear, Steps, FsmStates
  <2>2. ButtonInv'
    BY <1>1 DEF TypeOK, ButtonInv, StartClear
  <2>3. ASSUME NEW g \in Handlers PROVE RunInv(run[g])'
    <3>1. CASE run[h].user \in linked
      BY <1>1, <3>1 DEF TypeOK, RunInv, StartClear, TicketSteps, PipeSteps
    <3>2. CASE run[h].user \notin linked
      BY <1>1, <3>2 DEF TypeOK, RunInv, StartClear, Idle, TicketSteps, PipeSteps
    <3>. QED
      BY <3>1, <3>2
  <2>. QED
    BY <2>1, <2>2, <2>3
<1>2. CASE Choose(h)
  <2>1. TypeOK'
    BY <1>2 DEF TypeOK, Choose, Steps, FsmStates
  <2>2. ButtonInv'
    BY <1>2 DEF TypeOK, ButtonInv, Choose
  <2>3. ASSUME NEW g \in Handlers PROVE RunInv(run[g])'
    BY <1>2 DEF TypeOK, RunInv, Choose, Idle, TicketSteps, PipeSteps
  <2>. QED
    BY <2>1, <2>2, <2>3
<1>3. CASE StoreCategory(h)
  <2>1. TypeOK'
    BY <1>3, ZenonT(40) DEF TypeOK, StoreCategory, Steps, FsmStates
  <2>2. ButtonInv'
    BY <1>3 DEF TypeOK, ButtonInv, StoreCategory
  <2>3. ASSUME NEW g \in Handlers PROVE RunInv(run[g])'
    BY <1>3 DEF TypeOK, RunInv, StoreCategory, Idle, TicketSteps, PipeSteps
  <2>. QED
    BY <2>1, <2>2, <2>3
<1>4. CASE AwaitBody(h)
  <2>1. TypeOK'
    BY <1>4 DEF TypeOK, AwaitBody, Steps, FsmStates
  <2>2. ButtonInv'
    BY <1>4 DEF TypeOK, ButtonInv, AwaitBody
  <2>3. ASSUME NEW g \in Handlers PROVE RunInv(run[g])'
    BY <1>4 DEF TypeOK, RunInv, AwaitBody, Idle, TicketSteps, PipeSteps
  <2>. QED
    BY <2>1, <2>2, <2>3
<1>5. CASE Clear(h)
  <2>1. TypeOK'
    BY <1>5 DEF TypeOK, Clear, Steps, FsmStates
  <2>2. ButtonInv'
    BY <1>5 DEF TypeOK, ButtonInv, Clear
  <2>3. ASSUME NEW g \in Handlers PROVE RunInv(run[g])'
    BY <1>5 DEF TypeOK, RunInv, Clear, Idle, TicketSteps, PipeSteps
  <2>. QED
    BY <2>1, <2>2, <2>3
<1>6. CASE Enter(h)
  <2>1. TypeOK'
    BY <1>6 DEF TypeOK, Enter, Steps, FsmStates
  <2>2. ButtonInv'
    BY <1>6 DEF TypeOK, ButtonInv, Enter
  <2>3. ASSUME NEW g \in Handlers PROVE RunInv(run[g])'
    BY <1>6 DEF TypeOK, RunInv, Enter, Idle, TicketSteps, PipeSteps
  <2>. QED
    BY <2>1, <2>2, <2>3
<1>7. CASE BodyCheck(h)
  <2>0. run[h].user \in Users
    BY <1>7 DEF BodyCheck, RunInv
  <2>1. TypeOK'
    BY <2>0, <1>7, ChannelType DEF TypeOK, BodyCheck, Steps, LC!Rows, NoTicket, FsmStates
  <2>2. ButtonInv'
    BY <1>7 DEF TypeOK, ButtonInv, BodyCheck
  <2>3. ASSUME NEW g \in Handlers PROVE RunInv(run[g])'
    BY <1>7, ChannelType DEF TypeOK, RunInv, BodyCheck, Idle, TicketSteps, PipeSteps
  <2>. QED
    BY <2>1, <2>2, <2>3
<1>8. CASE BodyInsert(h)
  <2>. DEFINE row == [status |-> "open", author |-> run[h].user, assignee |-> NoUser]
  <2>1. run[h].user \in Users /\ run[h].step = "body_insert"
    BY <1>8 DEF BodyInsert, RunInv
  <2>2. row \in LC!Rows /\ NoTicket \in LC!Rows /\ row # NoTicket
    BY <2>1 DEF LC!Rows, NoTicket, LC!NoTicket
  <2>3. PICK t \in Tickets :
          /\ ticket[t] = NoTicket
          /\ ticket' = [ticket EXCEPT ![t] = row]
          /\ run' = [run EXCEPT ![h].step = "publish_dm", ![h].id = t,
                                ![h].seen = NoTicket]
    BY <1>8 DEF BodyInsert
  <2>4. UNCHANGED <<linked, fsm, category, checkAgain, button, posted>>
    BY <1>8 DEF BodyInsert
  <2>. HIDE DEF row
  <2>5. ticket' \in [Tickets -> LC!Rows]
    BY <2>2, <2>3 DEF TypeOK
  <2>6. run' \in [Handlers -> Runs]
    <3>1. [run[h] EXCEPT !.step = "publish_dm", !.id = t, !.seen = NoTicket] \in Runs
      BY <2>2 DEF TypeOK, Runs, Steps
    <3>. QED
      BY <2>3, <3>1 DEF TypeOK
  <2>7. TypeOK'
    BY <2>4, <2>5, <2>6 DEF TypeOK
  <2>8. ButtonInv'
    BY <2>2, <2>3, <2>4 DEF TypeOK, ButtonInv
  <2>9. ASSUME NEW g \in Handlers PROVE RunInv(run[g])'
    <3>1. CASE g = h
      BY <2>1, <2>2, <2>3, <3>1 DEF TypeOK, RunInv, TicketSteps, PipeSteps
    <3>2. CASE g # h
      <4>1. run'[g] = run[g]
        BY <2>3, <3>2 DEF TypeOK
      <4>2. /\ run[g].step \in TicketSteps => run[g].id # t
            /\ run[g].won => run[g].id # t
        BY <2>3 DEF RunInv, TicketSteps
      <4>3. \A s \in Tickets : s # t => ticket'[s] = ticket[s]
        BY <2>3 DEF TypeOK
      <4>. QED
        BY <4>1, <4>2, <4>3 DEF RunInv, TicketSteps, PipeSteps
    <3>. QED
      BY <3>1, <3>2
  <2>. QED
    BY <2>7, <2>8, <2>9
<1>9. CASE PublishDm(h)
  <2>1. TypeOK'
    BY <1>9 DEF TypeOK, PublishDm, Steps, FsmStates
  <2>2. ButtonInv'
    BY <1>9 DEF TypeOK, ButtonInv, PublishDm
  <2>3. ASSUME NEW g \in Handlers PROVE RunInv(run[g])'
    BY <1>9 DEF TypeOK, RunInv, PublishDm, Idle, TicketSteps, PipeSteps
  <2>. QED
    BY <2>1, <2>2, <2>3
<1>10. CASE PublishInbox(h)
  <2>0. run[h].user \in Users /\ run[h].id \in Tickets
    BY <1>10 DEF PublishInbox, RunInv, TicketSteps
  <2>1. TypeOK'
    BY <2>0, <1>10 DEF TypeOK, PublishInbox, Steps, FsmStates
  <2>2. ButtonInv'
    BY <1>10 DEF TypeOK, ButtonInv, PublishInbox
  <2>3. ASSUME NEW g \in Handlers PROVE RunInv(run[g])'
    BY <1>10 DEF TypeOK, RunInv, PublishInbox, Idle, TicketSteps, PipeSteps
  <2>. QED
    BY <2>1, <2>2, <2>3
<1>11. CASE ClaimOther(h)
  <2>1. TypeOK'
    BY <1>11 DEF TypeOK, ClaimOther, Steps, FsmStates
  <2>2. ButtonInv'
    BY <1>11 DEF TypeOK, ButtonInv, ClaimOther
  <2>3. ASSUME NEW g \in Handlers PROVE RunInv(run[g])'
    BY <1>11 DEF TypeOK, RunInv, ClaimOther, Idle, TicketSteps, PipeSteps
  <2>. QED
    BY <2>1, <2>2, <2>3
<1>12. CASE ClaimUpdate(h)
  <2>. DEFINE r == run[h]
              old == ticket[r.id]
  <2>1. /\ r.step = "claim_update" /\ r.user \in Users
        /\ r.id \in Tickets /\ old # NoTicket /\ old \in LC!Rows
    BY <1>12 DEF ClaimUpdate, RunInv, TypeOK, TicketSteps
  <2>2. CASE Claimable(old)
    <3>1. /\ ClaimedBy(old, r.user) \in LC!Rows
          /\ ClaimedBy(old, r.user) # NoTicket
          /\ ClaimedBy(old, r.user).assignee = r.user
          /\ ClaimedBy(old, r.user).author = old.author
      BY <2>1, <2>2, ConstantsAssumption
         DEF ClaimedBy, Claimable, LC!Rows, NoTicket, LC!NoTicket
    <3>2. /\ ticket' = [ticket EXCEPT ![r.id] = ClaimedBy(old, r.user)]
          /\ run' = [run EXCEPT ![h].step = "claim_enter", ![h].won = TRUE]
          /\ UNCHANGED <<linked, fsm, category, checkAgain, button, posted>>
      BY <1>12, <2>2 DEF ClaimUpdate, Claimable
    <3>. HIDE DEF ClaimedBy
    <3>3. TypeOK'
      <4>1. ticket' \in [Tickets -> LC!Rows]
        BY <3>1, <3>2, <2>1 DEF TypeOK
      <4>2. run' \in [Handlers -> Runs]
        BY <3>2, ZenonT(40) DEF TypeOK, Runs, Steps
      <4>. QED
        BY <3>2, <4>1, <4>2 DEF TypeOK
    <3>4. ButtonInv'
      BY <3>1, <3>2, <2>1 DEF TypeOK, ButtonInv
    <3>5. old.assignee = NoUser
      BY <2>2 DEF Claimable
    <3>6. ASSUME NEW g \in Handlers PROVE RunInv(run[g])'
      <4>1. CASE g = h
        BY <3>1, <3>2, <2>1, <4>1 DEF TypeOK, RunInv, TicketSteps, PipeSteps
      <4>2. CASE g # h
        BY <3>1, <3>2, <3>5, <2>1, <4>2, ConstantsAssumption, ZenonT(40)
           DEF TypeOK, RunInv, TicketSteps, PipeSteps, Earlier
      <4>. QED
        BY <4>1, <4>2
    <3>. QED
      BY <3>3, <3>4, <3>6
  <2>3. CASE ~Claimable(old)
    <3>1. /\ ticket' = ticket
          /\ run' = [run EXCEPT ![h].step = "claim_enter", ![h].won = FALSE]
          /\ UNCHANGED <<linked, fsm, category, checkAgain, button, posted>>
      BY <1>12, <2>3 DEF ClaimUpdate, Claimable
    <3>2. TypeOK' /\ ButtonInv'
      BY <3>1, <2>1, ZenonT(40) DEF TypeOK, ButtonInv, Steps
    <3>3. ASSUME NEW g \in Handlers PROVE RunInv(run[g])'
      BY <3>1, <2>1 DEF TypeOK, RunInv, TicketSteps, PipeSteps
    <3>. QED
      BY <3>2, <3>3
  <2>. QED
    BY <2>2, <2>3
<1>13. CASE ClaimEnter(h)
  <2>0. run[h].user \in Users /\ run[h].id \in Tickets
    BY <1>13 DEF ClaimEnter, RunInv, TicketSteps
  <2>1. TypeOK'
    BY <2>0, <1>13 DEF TypeOK, ClaimEnter, Steps, FsmStates
  <2>2. ButtonInv'
    BY <1>13 DEF TypeOK, ButtonInv, ClaimEnter
  <2>3. ASSUME NEW g \in Handlers PROVE RunInv(run[g])'
    BY <1>13 DEF TypeOK, RunInv, ClaimEnter, Idle, TicketSteps, PipeSteps
  <2>. QED
    BY <2>1, <2>2, <2>3
<1>14. CASE Announce(h)
  <2>1. TypeOK'
    BY <1>14 DEF TypeOK, Announce, Steps, FsmStates
  <2>2. ButtonInv'
    BY <1>14 DEF TypeOK, ButtonInv, Announce
  <2>3. ASSUME NEW g \in Handlers PROVE RunInv(run[g])'
    BY <1>14 DEF TypeOK, RunInv, Announce, Idle, TicketSteps, PipeSteps
  <2>. QED
    BY <2>1, <2>2, <2>3
<1>15. CASE ConfirmChannel(h)
  <2>1. TypeOK'
    BY <1>15 DEF TypeOK, ConfirmChannel, Steps, FsmStates
  <2>2. ButtonInv'
    BY <1>15 DEF TypeOK, ButtonInv, ConfirmChannel
  <2>3. ASSUME NEW g \in Handlers PROVE RunInv(run[g])'
    BY <1>15 DEF TypeOK, RunInv, ConfirmChannel, Idle, TicketSteps, PipeSteps
  <2>. QED
    BY <2>1, <2>2, <2>3
<1>16. CASE ConfirmWrite(h)
  <2>. DEFINE r == run[h]
              new == [ticket[r.id] EXCEPT !.status = "closed"]
  <2>1. /\ r.step = "confirm_write" /\ r.id \in Tickets
        /\ ticket[r.id] # NoTicket /\ ticket[r.id] \in LC!Rows
    BY <1>16 DEF ConfirmWrite, RunInv, TypeOK, TicketSteps
  <2>2. /\ new \in LC!Rows /\ new # NoTicket
        /\ new.author = ticket[r.id].author
        /\ new.assignee = ticket[r.id].assignee
    BY <2>1 DEF LC!Rows, NoTicket, LC!NoTicket
  <2>3. /\ ticket' = [ticket EXCEPT ![r.id] = new]
        /\ run' = [run EXCEPT ![h].step = "confirm_clear"]
    BY <1>16 DEF ConfirmWrite
  <2>. HIDE DEF new
  <2>4. TypeOK'
    BY <2>1, <2>2, <2>3, <1>16 DEF TypeOK, ConfirmWrite, Steps
  <2>5. ButtonInv'
    BY <2>1, <2>2, <2>3, <1>16 DEF TypeOK, ButtonInv, ConfirmWrite
  <2>6. ASSUME NEW g \in Handlers PROVE RunInv(run[g])'
    <3>1. CASE g = h
      BY <2>1, <2>2, <2>3, <3>1 DEF TypeOK, RunInv, TicketSteps, PipeSteps
    <3>2. CASE g # h
      BY <2>1, <2>2, <2>3, <3>2 DEF TypeOK, RunInv, TicketSteps, PipeSteps, Earlier
    <3>. QED
      BY <3>1, <3>2
  <2>. QED
    BY <2>4, <2>5, <2>6
<1>17. CASE ConfirmClear(h)
  <2>0. run[h].user \in Users /\ run[h].id \in Tickets
    BY <1>17 DEF ConfirmClear, RunInv, TicketSteps
  <2>1. TypeOK'
    BY <2>0, <1>17 DEF TypeOK, ConfirmClear, Steps, FsmStates
  <2>2. ButtonInv'
    BY <1>17 DEF TypeOK, ButtonInv, ConfirmClear
  <2>3. ASSUME NEW g \in Handlers PROVE RunInv(run[g])'
    BY <1>17 DEF TypeOK, RunInv, ConfirmClear, Idle, TicketSteps, PipeSteps
  <2>. QED
    BY <2>1, <2>2, <2>3
<1>18. CASE PipeRead(h)
  <2>1. TypeOK'
    BY <1>18, ChannelType, OpenExists DEF TypeOK, PipeRead, Steps, FsmStates
  <2>2. ButtonInv'
    BY <1>18 DEF TypeOK, ButtonInv, PipeRead
  <2>3. ASSUME NEW g \in Handlers PROVE RunInv(run[g])'
    BY <1>18, ChannelType, OpenExists DEF TypeOK, RunInv, PipeRead, Idle, TicketSteps, PipeSteps, Earlier
  <2>. QED
    BY <2>1, <2>2, <2>3
<1>19. CASE PipeEnter(h)
  <2>1. TypeOK'
    BY <1>19, ZenonT(40) DEF TypeOK, PipeEnter, Steps, FsmStates
  <2>2. ButtonInv'
    BY <1>19 DEF TypeOK, ButtonInv, PipeEnter
  <2>3. ASSUME NEW g \in Handlers PROVE RunInv(run[g])'
    BY <1>19 DEF TypeOK, RunInv, PipeEnter, Idle, TicketSteps, PipeSteps
  <2>. QED
    BY <2>1, <2>2, <2>3
<1>20. CASE PipeRoute(h)
  <2>1. TypeOK'
    BY <1>20, ChannelType, OpenExists DEF TypeOK, PipeRoute, Steps, FsmStates
  <2>2. ButtonInv'
    BY <1>20 DEF TypeOK, ButtonInv, PipeRoute
  <2>3. ASSUME NEW g \in Handlers PROVE RunInv(run[g])'
    BY <1>20, ChannelType, OpenExists DEF TypeOK, RunInv, PipeRoute, Idle, TicketSteps, PipeSteps
  <2>. QED
    BY <2>1, <2>2, <2>3
<1>21. CASE PipeDeliver(h)
  <2>1. TypeOK'
    BY <1>21 DEF TypeOK, PipeDeliver, Steps, FsmStates
  <2>2. ButtonInv'
    BY <1>21 DEF TypeOK, ButtonInv, PipeDeliver
  <2>3. ASSUME NEW g \in Handlers PROVE RunInv(run[g])'
    BY <1>21 DEF TypeOK, RunInv, PipeDeliver, Idle, TicketSteps, PipeSteps
  <2>. QED
    BY <2>1, <2>2, <2>3
<1>22. CASE Cut(h)
  <2>1. TypeOK'
    BY <1>22 DEF TypeOK, Cut, Steps, FsmStates
  <2>2. ButtonInv'
    BY <1>22 DEF TypeOK, ButtonInv, Cut
  <2>3. ASSUME NEW g \in Handlers PROVE RunInv(run[g])'
    BY <1>22 DEF TypeOK, RunInv, Cut, Idle, TicketSteps, PipeSteps
  <2>. QED
    BY <2>1, <2>2, <2>3
<1>. QED
  BY <1>1, <1>2, <1>3, <1>4, <1>5, <1>6, <1>7, <1>8, <1>9, <1>10, <1>11, <1>12,
     <1>13, <1>14, <1>15, <1>16, <1>17, <1>18, <1>19, <1>20, <1>21, <1>22
  DEF Handle

------------------------------------------------------------------------------
(* What holds of every reachable state.                                    *)

LEMMA InitInv == Init => IInv
<1>. SUFFICES ASSUME Init PROVE IInv
  OBVIOUS
<1>1. TypeOK
  BY IdleType DEF Init, TypeOK, FsmStates, LC!Rows, NoTicket
<1>2. ButtonInv
  BY DEF Init, ButtonInv
<1>3. ASSUME NEW h \in Handlers PROVE RunInv(run[h])
  BY DEF Init, RunInv, Idle, TicketSteps, PipeSteps
<1>. QED
  BY <1>1, <1>2, <1>3 DEF IInv

LEMMA NextInv == IInv /\ [Next]_vars => IInv'
<1>. SUFFICES ASSUME IInv, [Next]_vars PROVE IInv'
  OBVIOUS
<1>1. CASE Next
  BY <1>1, UserStep, HandleStep DEF Next
<1>2. CASE UNCHANGED vars
  BY <1>2 DEF vars, IInv, TypeOK, ButtonInv, RunInv
<1>. QED
  BY <1>1, <1>2

\* Every row, FSM state, keyboard and run has its type, every keyboard and
\* every run works on a filed ticket, and what a run read of a ticket is what
\* the ticket was: whatever handlers interleave, fail or are cut short.
THEOREM Invariance == Spec => []IInv
<1>. QED
  BY InitInv, NextInv, PTL DEF Spec

\* Type correctness of the tickets table, Redis and the runs of handlers.
THEOREM TypeCorrect == Spec => []TypeOK
<1>1. IInv => TypeOK
  BY DEF IInv
<1>. QED
  BY <1>1, Invariance, PTL

\* try_claim_ticket: the run whose UPDATE changed the row, which announces its
\* user as the claimer, is right for as long as it runs.
THEOREM ClaimHasOneWinner == Spec => []WinnerIsAssignee
<1>1. IInv => WinnerIsAssignee
  BY DEF IInv, RunInv, WinnerIsAssignee
<1>. QED
  BY <1>1, Invariance, PTL

\* pipe_private_message and route_student_text: a text goes to the other side
\* of its ticket, stale as the row it was routed by may be.
THEOREM PipeIsSafe == Spec => []PipeReachesOtherSide
<1>1. IInv => PipeReachesOtherSide
  <2>. SUFFICES ASSUME IInv, NEW h \in Handlers, At(h, "pipe_deliver")
                PROVE  {run[h].user, OtherSide(run[h].seen, run[h].user)}
                         = {ticket[run[h].id].author, ticket[run[h].id].assignee}
    BY DEF PipeReachesOtherSide
  <2>1. /\ Earlier(run[h].seen, ticket[run[h].id])
        /\ OtherSide(run[h].seen, run[h].user) # NoUser
        /\ run[h].user # NoUser
    BY ConstantsAssumption DEF IInv, RunInv, At, PipeSteps
  <2>. QED
    BY <2>1 DEF Earlier, OtherSide
<1>. QED
  BY <1>1, Invariance, PTL

------------------------------------------------------------------------------
(* The handlers implement TicketLifecycle.                                 *)

LEMMA LifecycleStep ==
    ASSUME IInv, [Next]_vars
    PROVE  [LC!Next]_ticket
<1>1. CASE UNCHANGED vars
  BY <1>1 DEF vars
<1>2. ASSUME NEW u \in Users, User(u)
      PROVE  UNCHANGED ticket
  BY <1>2 DEF User, LinkTelegram, CloseCommand, PressCancel, StartCommand,
              PressCheckAgain, PressCategory, CancelCommand, SendText, PressAnswer,
              PressYes, Dispatch, dbVars
<1>3. ASSUME NEW h \in Handlers, BodyInsert(h)
      PROVE  LC!Next
  <2>1. run[h].user \in Users
    BY <1>3 DEF IInv, RunInv, BodyInsert, At
  <2>2. PICK t \in Tickets : LC!File(t, run[h].user)
    BY <1>3 DEF BodyInsert, LC!File, NoTicket
  <2>. QED
    BY <2>1, <2>2 DEF LC!Next
<1>4. ASSUME NEW h \in Handlers, ClaimUpdate(h)
      PROVE  [LC!Next]_ticket
  <2>. DEFINE t == run[h].id
              u == run[h].user
  <2>1. /\ u \in Users /\ t \in Tickets
        /\ ticket \in [Tickets -> LC!Rows]
    BY <1>4 DEF IInv, TypeOK, RunInv, ClaimUpdate, At, TicketSteps
  <2>2. CASE Claimable(ticket[t])
    <3>1. ticket[t].status = "open"
      BY <2>1, <2>2, ConstantsAssumption
         DEF Claimable, IsOpen, OpenStatuses, LC!OpenStatuses, LC!Rows, LC!NoTicket
    <3>2. ticket' = [ticket EXCEPT ![t] = ClaimedBy(ticket[t], u)]
      BY <2>2, <1>4 DEF ClaimUpdate
    <3>3. LC!Claim(t, u)
      BY <3>1, <3>2, <2>1 DEF ClaimedBy, LC!Claim
    <3>. QED
      BY <2>1, <3>3 DEF LC!Next
  <2>3. CASE ~Claimable(ticket[t])
    BY <2>3, <1>4 DEF ClaimUpdate
  <2>. QED
    BY <2>2, <2>3
<1>5. ASSUME NEW h \in Handlers, ConfirmWrite(h)
      PROVE  [LC!Next]_ticket
  <2>. DEFINE t == run[h].id
  <2>1. /\ t \in Tickets /\ ticket[t] # NoTicket
        /\ ticket \in [Tickets -> LC!Rows]
        /\ ticket' = [ticket EXCEPT ![t].status = "closed"]
    BY <1>5 DEF IInv, TypeOK, RunInv, ConfirmWrite, At, TicketSteps
  <2>2. CASE ticket[t].status \in LC!OpenStatuses
    BY <2>1, <2>2 DEF LC!Next, LC!Close
  <2>3. CASE ticket[t].status = "closed"
    <3>1. [ticket[t] EXCEPT !.status = "closed"] = ticket[t]
      BY <2>1, <2>3 DEF LC!Rows, LC!NoTicket
    <3>. QED
      BY <2>1, <3>1
  <2>. QED
    BY <2>1, <2>2, <2>3 DEF LC!Rows, LC!OpenStatuses, NoTicket
<1>6. ASSUME NEW h \in Handlers, Handle(h) \/ Cut(h),
             ~BodyInsert(h), ~ClaimUpdate(h), ~ConfirmWrite(h)
      PROVE  UNCHANGED ticket
  BY <1>6 DEF Handle, Cut, StartClear, Choose, StoreCategory, AwaitBody, Clear, Enter,
              BodyCheck, PublishDm, PublishInbox, ClaimOther, ClaimEnter, Announce,
              ConfirmChannel, ConfirmClear, PipeRead, PipeEnter, PipeRoute,
              PipeDeliver, dbVars
<1>. QED
  BY <1>1, <1>2, <1>3, <1>4, <1>5, <1>6 DEF Next

\* The ticket rows the handlers write live as TicketLifecycle says: filed once,
\* claimed at most once, by one user, and never changed after they are closed.
THEOREM Refinement == Spec => Lifecycle
<1>1. Init => LC!Init
  BY DEF Init, LC!Init, NoTicket
<1>. QED
  BY <1>1, Invariance, LifecycleStep, PTL DEF Spec, Lifecycle, LC!Spec

------------------------------------------------------------------------------
(* The limits of the desk: one open ticket per author and one channel per assignee
   while updates are handled one at a time (OneAtATime), and a desk that never locks
   up while at most one ministry member files tickets (AtMostOneBoth), with any
   number of concurrent handlers. *)

OneAtATime == \A g, h \in Handlers : g = h
AtMostOneBoth == \A u, v \in Students \cap Inbox : u = v

\* Authors have linked a student's account, assignees have seen the card.
RoleInv ==
    /\ \A t \in Tickets : ticket[t] # NoTicket => ticket[t].author \in Students
    /\ \A t \in Tickets : ticket[t].assignee \in Inbox \cup {NoUser}
    /\ \A h \in Handlers :
        /\ run[h].step = "body_insert" => run[h].user \in Students
        /\ run[h].step \in {"claim_other", "claim_update"} => run[h].user \in Inbox

\* At most one row satisfies each query, and the run that looked still knows.
LimitInv ==
    /\ \A u \in Users : \A s, t \in Authored(u) : s = t
    /\ \A u \in Users : \A s, t \in Assigned(u) : s = t
    /\ \A h \in Handlers :
        /\ run[h].step = "body_insert" => Authored(run[h].user) = {}
        /\ run[h].step = "claim_update" => Assigned(run[h].user) \subseteq {run[h].id}

Deciding == {"body_insert", "claim_other", "claim_update"}

\* A step that changes no ticket and lets no run decide anything new
Quiet ==
    /\ ticket' = ticket
    /\ \A h \in Handlers :
        \/ run'[h] = run[h]
        \/ run'[h].step \notin Deciding
        \/ run'[h].step = "claim_other" /\ run'[h].user \in Inbox

------------------------------------------------------------------------------
LEMMA QuietUser == ASSUME IInv, NEW u \in Users, User(u) PROVE Quiet
<1>. USE DEF Quiet, Dispatch, dbVars, fsmVars, chatVars, Deciding
<1>t. run \in [Handlers -> Runs]
  BY DEF IInv, TypeOK
<1>1. CASE LinkTelegram(u) \/ CloseCommand(u) \/ \E t \in Tickets : PressCancel(u, t)
  BY <1>1 DEF LinkTelegram, CloseCommand, PressCancel
<1>2. ASSUME NEW h \in Handlers,
             \/ StartCommand(h, u) \/ PressCheckAgain(h, u) \/ PressCategory(h, u)
             \/ CancelCommand(h, u) \/ SendText(h, u)
      PROVE  Quiet
  BY <1>t, <1>2 DEF StartCommand, PressCheckAgain, PressCategory, CancelCommand, SendText
<1>3. ASSUME NEW h \in Handlers, NEW t \in Tickets, PressAnswer(h, u, t) \/ PressYes(h, u, t)
      PROVE  Quiet
  BY <1>t, <1>3 DEF PressAnswer, PressYes
<1>. QED
  BY <1>1, <1>2, <1>3 DEF User

LEMMA QuietHandle ==
    ASSUME IInv, NEW h \in Handlers, Handle(h) \/ Cut(h),
           ~BodyCheck(h), ~BodyInsert(h), ~ClaimOther(h), ~ClaimUpdate(h), ~ConfirmWrite(h)
    PROVE  Quiet
<1>. USE DEF Quiet, Goto, GotoWith, Finish, Idle, dbVars, fsmVars, chatVars, Deciding
<1>t. run \in [Handlers -> Runs]
  BY DEF IInv, TypeOK
<1>1. CASE StartClear(h) \/ Choose(h) \/ StoreCategory(h) \/ AwaitBody(h) \/ Clear(h) \/ Enter(h)
  BY <1>t, <1>1 DEF StartClear, Choose, StoreCategory, AwaitBody, Clear, Enter, Runs
<1>2. CASE PublishDm(h) \/ PublishInbox(h) \/ ClaimEnter(h) \/ Announce(h)
  BY <1>t, <1>2 DEF PublishDm, PublishInbox, ClaimEnter, Announce, Runs
<1>3. CASE ConfirmChannel(h) \/ ConfirmClear(h) \/ Cut(h)
  BY <1>t, <1>3 DEF ConfirmChannel, ConfirmClear, Cut, Runs
<1>4. CASE PipeRead(h) \/ PipeEnter(h) \/ PipeRoute(h) \/ PipeDeliver(h)
  BY <1>t, <1>4 DEF PipeRead, PipeEnter, PipeRoute, PipeDeliver, Runs
<1>. QED
  BY <1>1, <1>2, <1>3, <1>4 DEF Handle

\* What the five other steps do to the tickets and to the run that takes them
LEMMA BodyCheckEffect ==
    ASSUME IInv, NEW h \in Handlers, BodyCheck(h)
    PROVE  /\ ticket' = ticket
           /\ \A g \in Handlers \ {h} : run'[g] = run[g]
           /\ \/ run'[h].step \notin Deciding
              \/ /\ run'[h].step = "body_insert" /\ run'[h].user = run[h].user
                 /\ run[h].user \in Students \cap Users
                 /\ Authored(run[h].user) = {}
<1>1. run \in [Handlers -> Runs] /\ linked \subseteq Students /\ Students \subseteq Users
  BY ConstantsAssumption DEF IInv, TypeOK
<1>. QED
  BY <1>1 DEF BodyCheck, HasOpenTicket, Goto, GotoWith, Finish, Idle, dbVars, Deciding, Runs

LEMMA BodyInsertEffect ==
    ASSUME IInv, NEW h \in Handlers, BodyInsert(h)
    PROVE  \E t \in Tickets :
              /\ ticket' = [ticket EXCEPT ![t] = [status |-> "open", author |-> run[h].user,
                                                  assignee |-> NoUser]]
              /\ ticket[t] = NoTicket
              /\ run[h].step = "body_insert" /\ run'[h].step \notin Deciding
              /\ \A g \in Handlers \ {h} : run'[g] = run[g]
<1>1. run \in [Handlers -> Runs]
  BY DEF IInv, TypeOK
<1>2. PICK t \in Tickets :
        /\ ticket[t] = NoTicket
        /\ ticket' = [ticket EXCEPT ![t] = [status |-> "open", author |-> run[h].user,
                                            assignee |-> NoUser]]
        /\ run' = [run EXCEPT ![h].step = "publish_dm", ![h].id = t, ![h].seen = NoTicket]
  BY DEF BodyInsert, GotoWith
<1>3. run[h].step = "body_insert"
  BY DEF BodyInsert, At
<1>4. run'[h].step \notin Deciding /\ \A g \in Handlers \ {h} : run'[g] = run[g]
  BY <1>1, <1>2 DEF Deciding, Runs
<1>. QED
  BY <1>2, <1>3, <1>4

LEMMA ClaimOtherEffect ==
    ASSUME IInv, NEW h \in Handlers, ClaimOther(h)
    PROVE  /\ ticket' = ticket
           /\ run[h].step = "claim_other"
           /\ \A g \in Handlers \ {h} : run'[g] = run[g]
           /\ \/ run'[h].step \notin Deciding
              \/ /\ run'[h].step = "claim_update" /\ run'[h].user = run[h].user
                 /\ run'[h].id = run[h].id
                 /\ ~HasOtherChannel(run[h].user, run[h].id)
<1>1. run \in [Handlers -> Runs]
  BY DEF IInv, TypeOK
<1>. QED
  BY <1>1 DEF ClaimOther, Goto, Finish, At, Idle, dbVars, Deciding, Runs

LEMMA ClaimUpdateEffect ==
    ASSUME IInv, NEW h \in Handlers, ClaimUpdate(h)
    PROVE  /\ run[h].step = "claim_update" /\ run[h].id \in Tickets /\ run[h].user \in Users
           /\ ticket[run[h].id] # NoTicket
           /\ run'[h].step \notin Deciding
           /\ \A g \in Handlers \ {h} : run'[g] = run[g]
           /\ \/ ticket' = ticket
              \/ /\ ticket[run[h].id].assignee = NoUser /\ IsOpen(ticket[run[h].id])
                 /\ ticket' = [ticket EXCEPT ![run[h].id] = ClaimedBy(@, run[h].user)]
<1>1. run \in [Handlers -> Runs] /\ RunInv(run[h])
  BY DEF IInv, TypeOK
<1>2. run[h].step = "claim_update"
  BY DEF ClaimUpdate, At
<1>3. /\ run[h].id \in Tickets /\ run[h].user \in Users
      /\ ticket[run[h].id] # NoTicket
  BY <1>1, <1>2 DEF RunInv, TicketSteps
<1>4. run'[h].step \notin Deciding /\ \A g \in Handlers \ {h} : run'[g] = run[g]
  BY <1>1 DEF ClaimUpdate, Deciding, Runs
<1>5. \/ ticket' = ticket
      \/ /\ ticket[run[h].id].assignee = NoUser /\ IsOpen(ticket[run[h].id])
         /\ ticket' = [ticket EXCEPT ![run[h].id] = ClaimedBy(@, run[h].user)]
  BY DEF ClaimUpdate, Claimable
<1>. QED
  BY <1>2, <1>3, <1>4, <1>5

LEMMA ConfirmWriteEffect ==
    ASSUME IInv, NEW h \in Handlers, ConfirmWrite(h)
    PROVE  /\ run[h].id \in Tickets /\ ticket[run[h].id] # NoTicket
           /\ run'[h].step \notin Deciding
           /\ \A g \in Handlers \ {h} : run'[g] = run[g]
           /\ ticket' = [ticket EXCEPT ![run[h].id].status = "closed"]
<1>1. run \in [Handlers -> Runs] /\ RunInv(run[h])
  BY DEF IInv, TypeOK
<1>2. run[h].id \in Tickets /\ ticket[run[h].id] # NoTicket
  BY <1>1 DEF RunInv, TicketSteps, ConfirmWrite, At
<1>. QED
  BY <1>1, <1>2 DEF ConfirmWrite, Goto, Deciding, Runs

------------------------------------------------------------------------------
(* Who files and who claims                                                *)

LEMMA RoleStep == ASSUME IInv, RoleInv, [Next]_vars PROVE RoleInv'
<1>t. /\ ticket \in [Tickets -> LC!Rows]
      /\ \A t \in Tickets : ticket[t] \in LC!Rows
  BY DEF IInv, TypeOK
<1>1. ASSUME Quiet PROVE RoleInv'
  BY <1>1 DEF RoleInv, Quiet, Deciding
<1>2. ASSUME NEW h \in Handlers, BodyCheck(h) PROVE RoleInv'
  BY <1>2, BodyCheckEffect DEF RoleInv, Deciding
<1>3. ASSUME NEW h \in Handlers, ClaimOther(h) PROVE RoleInv'
  BY <1>3, ClaimOtherEffect DEF RoleInv, Deciding
<1>4. ASSUME NEW h \in Handlers, BodyInsert(h) PROVE RoleInv'
  <2>1. PICK t \in Tickets :
          /\ ticket' = [ticket EXCEPT ![t] = [status |-> "open", author |-> run[h].user,
                                              assignee |-> NoUser]]
          /\ run[h].step = "body_insert" /\ run'[h].step \notin Deciding
          /\ \A g \in Handlers \ {h} : run'[g] = run[g]
    BY <1>4, BodyInsertEffect
  <2>. QED
    BY <1>t, <2>1 DEF RoleInv, Deciding
<1>5. ASSUME NEW h \in Handlers, ClaimUpdate(h) PROVE RoleInv'
  <2>1. \A t \in Tickets :
          \/ ticket'[t] = ticket[t]
          \/ /\ ticket'[t].author = ticket[t].author /\ ticket[t] # NoTicket
             /\ ticket'[t].assignee = run[h].user
    <3>1. ticket[run[h].id] \in LC!Rows \ {NoTicket} /\ run[h].id \in Tickets
      BY <1>t, <1>5, ClaimUpdateEffect
    <3>2. /\ ClaimedBy(ticket[run[h].id], run[h].user).author = ticket[run[h].id].author
          /\ ClaimedBy(ticket[run[h].id], run[h].user).assignee = run[h].user
      BY <3>1 DEF ClaimedBy, LC!Rows, NoTicket
    <3> HIDE DEF ClaimedBy
    <3> QED
      BY <1>t, <1>5, <3>1, <3>2, ClaimUpdateEffect
  <2>. QED
    BY <1>5, <2>1, ClaimUpdateEffect DEF RoleInv, Deciding
<1>6. ASSUME NEW h \in Handlers, ConfirmWrite(h) PROVE RoleInv'
  <2>1. \A t \in Tickets :
          \/ ticket'[t] = ticket[t]
          \/ /\ ticket'[t].author = ticket[t].author /\ ticket[t] # NoTicket
             /\ ticket'[t].assignee = ticket[t].assignee
    <3> DEFINE new == [ticket[run[h].id] EXCEPT !.status = "closed"]
    <3>1. ticket[run[h].id] \in LC!Rows \ {NoTicket} /\ run[h].id \in Tickets
      BY <1>t, <1>6, ConfirmWriteEffect
    <3>2. /\ new.author = ticket[run[h].id].author
          /\ new.assignee = ticket[run[h].id].assignee
      BY <3>1 DEF LC!Rows, NoTicket
    <3>3. ticket' = [ticket EXCEPT ![run[h].id] = new]
      BY <1>6, ConfirmWriteEffect
    <3> HIDE DEF new
    <3> QED
      BY <1>t, <3>1, <3>2, <3>3
  <2>. QED
    BY <1>6, <2>1, ConfirmWriteEffect DEF RoleInv, Deciding
<1>7. CASE UNCHANGED vars
  BY <1>7 DEF vars, RoleInv
<1>. QED
  BY <1>1, <1>2, <1>3, <1>4, <1>5, <1>6, <1>7, QuietUser, QuietHandle DEF Next

\* If the author's channel can be closed by no one, its assignee is an author
\* too, and the assignee of that one's channel is not.
LEMMA SomeoneCan == ASSUME IInv, RoleInv, AtMostOneBoth PROVE SomeoneCanClose
<1>. SUFFICES ASSUME NEW t \in Tickets, IsOpen(ticket[t])
              PROVE  \E u \in Users, s \in Tickets :
                        s = OpenChannel(u) /\ IsOpen(ticket[s]) /\ CanClose(ticket[s], u)
  BY DEF SomeoneCanClose
<1> DEFINE Free(u) == \E s \in Tickets :
                        s = OpenChannel(u) /\ IsOpen(ticket[s]) /\ CanClose(ticket[s], u)
<1>t. \A s \in Tickets : IsOpen(ticket[s]) =>
        ticket[s] # NoTicket /\ ticket[s].author \in Students /\ ticket[s].assignee \in Inbox \cup {NoUser}
  BY OpenExists DEF RoleInv
<1>u. Students \subseteq Users /\ Inbox \subseteq Users /\ NoUser \notin Users /\ NoId \notin Tickets
  BY ConstantsAssumption DEF NoId, Tickets
\* the author's own channel
<1>1. ASSUME NEW a \in Users, Authored(a) # {}
      PROVE  \E s \in Tickets : /\ s = OpenChannel(a) /\ IsOpen(ticket[s])
                                /\ ticket[s].author = a
  <2>1. Authored(a) \in SUBSET Tickets
    BY DEF Authored
  <2>2. Newest(Authored(a)) \in Authored(a)
    BY <1>1, <2>1, LargestExists DEF Newest
  <2>. QED
    BY <1>1, <2>2 DEF OpenChannel, Authored
\* the channel of an assignee without tickets of its own
<1>2. ASSUME NEW b \in Users, Authored(b) = {}, Assigned(b) # {}
      PROVE  Free(b)
  <2>1. Assigned(b) \in SUBSET Tickets
    BY DEF Assigned
  <2>2. Newest(Assigned(b)) \in Assigned(b)
    BY <1>2, <2>1, LargestExists DEF Newest
  <2>3. OpenChannel(b) = Newest(Assigned(b))
    BY <1>2 DEF OpenChannel
  <2>. QED
    BY <2>2, <2>3, <1>u DEF Assigned, CanClose
\* an author's channel is open to the author, or to an assignee who is no author,
\* or belongs to an assignee who is an author
<1>3. ASSUME NEW a \in Users, Authored(a) # {}
      PROVE  \/ \E u \in Users : Free(u)
             \/ \E b \in Inbox : b # a /\ Authored(b) # {}
  <2>1. PICK s \in Tickets : s = OpenChannel(a) /\ IsOpen(ticket[s]) /\ ticket[s].author = a
    BY <1>1, <1>3
  <2>2. CASE ticket[s].assignee \in {NoUser, a}
    BY <2>1, <2>2, <1>u DEF CanClose
  <2>3. CASE ticket[s].assignee \notin {NoUser, a}
    <3> DEFINE b == ticket[s].assignee
    <3>1. b \in Inbox /\ b # a /\ b \in Users /\ s \in Assigned(b)
      BY <2>1, <2>3, <1>t, <1>u DEF Assigned
    <3> HIDE DEF b, Free
    <3> QED
      BY <3>1, <1>2
  <2> QED
    BY <2>2, <2>3
<1>4. \A b \in Users : Authored(b) # {} => b \in Students
  BY <1>t DEF Authored
<1>5. ticket[t].author \in Users /\ Authored(ticket[t].author) # {}
  BY <1>t, <1>u DEF Authored
<1> HIDE DEF Free
<1>6. \E u \in Users : Free(u)
  <2>1. CASE \E b \in Inbox : Authored(b) # {}
    <3>1. PICK b \in Inbox : Authored(b) # {}
      BY <2>1
    <3>2. \A c \in Inbox : Authored(c) # {} => c = b
      BY <3>1, <1>4, <1>u DEF AtMostOneBoth
    <3> QED
      BY <3>1, <3>2, <1>3, <1>u
  <2>2. CASE \A b \in Inbox : Authored(b) = {}
    BY <2>2, <1>3, <1>5
  <2> QED
    BY <2>1, <2>2
<1>. QED
  BY <1>6 DEF Free

------------------------------------------------------------------------------
(* How many open tickets a user has                                        *)

\* Limits survive a step that opens and assigns nothing.
LEMMA LimitShrinks ==
    ASSUME LimitInv, \A u \in Users : Authored(u)' \subseteq Authored(u) /\ Assigned(u)' \subseteq Assigned(u),
           \A h \in Handlers :
              \/ run'[h].step \notin Deciding \ {"claim_other"}
              \/ run'[h] = run[h] /\ run[h].user \in Users
    PROVE  LimitInv'
<1>1. /\ \A u \in Users : \A s, t \in Authored(u)' : s = t
      /\ \A u \in Users : \A s, t \in Assigned(u)' : s = t
  BY DEF LimitInv
<1>2. ASSUME NEW h \in Handlers, run'[h].step \in {"body_insert", "claim_update"}
      PROVE  run'[h] = run[h] /\ run[h].user \in Users
  BY <1>2 DEF Deciding
<1>3. ASSUME NEW h \in Handlers, run'[h].step = "body_insert"
      PROVE  Authored(run[h].user)' = {}
  <2>1. run'[h] = run[h] /\ run[h].user \in Users /\ run[h].step = "body_insert"
    BY <1>2, <1>3
  <2>2. Authored(run[h].user) = {}
    BY <2>1 DEF LimitInv
  <2>3. \A u \in Users : Authored(u) = {} => Authored(u)' = {}
    OBVIOUS
  <2>. QED
    BY <2>1, <2>2, <2>3 DEF Authored
<1>4. ASSUME NEW h \in Handlers, run'[h].step = "claim_update"
      PROVE  (Assigned(run[h].user) \subseteq {run[h].id})'
  <2>1. run'[h] = run[h] /\ run[h].user \in Users /\ run[h].step = "claim_update"
    BY <1>2, <1>4
  <2>2. Assigned(run[h].user) \subseteq {run[h].id}
    BY <2>1 DEF LimitInv
  <2>. QED
    BY <2>1, <2>2 DEF Assigned
<1>. QED
  BY <1>1, <1>3, <1>4 DEF LimitInv

LEMMA LimitStep == ASSUME OneAtATime, IInv, LimitInv, [Next]_vars PROVE LimitInv'
<1>t. /\ ticket \in [Tickets -> LC!Rows] /\ run \in [Handlers -> Runs]
      /\ \A t \in Tickets : ticket[t] \in LC!Rows
      /\ \A h \in Handlers : run[h].step \in Deciding => run[h].user \in Users
  BY DEF IInv, TypeOK, RunInv, Deciding
<1>u. NoUser \notin Users /\ NoId \notin Tickets
  BY ConstantsAssumption DEF NoId, Tickets
<1>n. ~IsOpen(NoTicket)
  BY OpenExists
<1>1. ASSUME Quiet PROVE LimitInv'
  <2>1. \A u \in Users : Authored(u)' \subseteq Authored(u) /\ Assigned(u)' \subseteq Assigned(u)
    BY <1>1 DEF Quiet, Authored, Assigned
  <2>. QED
    BY <1>1, <1>t, <2>1, LimitShrinks DEF Quiet, Deciding
<1>2. ASSUME NEW h \in Handlers, BodyCheck(h) PROVE LimitInv'
  <2>1. \A u \in Users : Authored(u)' = Authored(u) /\ Assigned(u)' = Assigned(u)
    BY <1>2, BodyCheckEffect DEF Authored, Assigned
  <2>2. CASE run'[h].step \notin Deciding
    BY <1>2, <1>t, <2>1, <2>2, BodyCheckEffect, LimitShrinks DEF OneAtATime
  <2>3. CASE run'[h].step \in Deciding
    BY <1>2, <2>1, <2>3, BodyCheckEffect DEF OneAtATime, LimitInv, Authored, Assigned
  <2>. QED
    BY <2>2, <2>3
<1>3. ASSUME NEW h \in Handlers, ClaimOther(h) PROVE LimitInv'
  <2>1. \A u \in Users : Authored(u)' = Authored(u) /\ Assigned(u)' = Assigned(u)
    BY <1>3, ClaimOtherEffect DEF Authored, Assigned
  <2>2. CASE run'[h].step \notin Deciding
    BY <1>3, <1>t, <2>1, <2>2, ClaimOtherEffect, LimitShrinks DEF OneAtATime
  <2>3. CASE run'[h].step \in Deciding
    <3> DEFINE u == run[h].user
    <3>1. u \in Users /\ Newest(Assigned(u)) \in {NoId, run[h].id}
      BY <1>3, <1>t, <2>3, ClaimOtherEffect DEF HasOtherChannel, Deciding
    <3>2. Assigned(u) # {} => Newest(Assigned(u)) \in Assigned(u)
      <4>1. Assigned(u) \in SUBSET Tickets
        BY DEF Assigned
      <4>. QED
        BY <4>1, LargestExists DEF Newest
    <3>3. NoId \notin Assigned(u)
      BY <1>u DEF Assigned
    <3>4. Assigned(u) \subseteq {run[h].id}
      BY <3>1, <3>2, <3>3 DEF LimitInv
    <3>. QED
      BY <1>3, <2>1, <2>3, <3>4, ClaimOtherEffect DEF OneAtATime, LimitInv, Authored, Assigned
  <2>. QED
    BY <2>2, <2>3
<1>4. ASSUME NEW h \in Handlers, BodyInsert(h) PROVE LimitInv'
  <2>1. PICK t \in Tickets :
          /\ ticket' = [ticket EXCEPT ![t] = [status |-> "open", author |-> run[h].user,
                                              assignee |-> NoUser]]
          /\ ticket[t] = NoTicket
          /\ run[h].step = "body_insert" /\ run'[h].step \notin Deciding
    BY <1>4, BodyInsertEffect
  <2>2. run[h].user \in Users /\ Authored(run[h].user) = {}
    BY <1>t, <2>1 DEF LimitInv, Deciding
  <2>3. \A u \in Users : Assigned(u)' \subseteq Assigned(u)
    BY <1>t, <1>u, <2>1 DEF Assigned
  <2>4. \A u \in Users : Authored(u)' \subseteq Authored(u) \cup (IF u = run[h].user THEN {t} ELSE {})
    BY <1>t, <2>1 DEF Authored
  <2>5. \A u \in Users : \A s, r \in Authored(u)' : s = r
    BY <2>2, <2>4 DEF LimitInv
  <2>6. \A u \in Users : \A s, r \in Assigned(u)' : s = r
    BY <2>3 DEF LimitInv
  <2>. QED
    BY <2>1, <2>5, <2>6 DEF OneAtATime, LimitInv, Deciding
<1>5. ASSUME NEW h \in Handlers, ClaimUpdate(h) PROVE LimitInv'
  <2>1. /\ run[h].step = "claim_update" /\ run[h].id \in Tickets /\ run[h].user \in Users
        /\ run'[h].step \notin Deciding
    BY <1>5, ClaimUpdateEffect
  <2>2. CASE ticket' = ticket
    <3>1. \A u \in Users : Authored(u)' \subseteq Authored(u) /\ Assigned(u)' \subseteq Assigned(u)
      BY <2>2 DEF Authored, Assigned
    <3>. QED
      BY <2>1, <3>1, LimitShrinks DEF OneAtATime
  <2>3. CASE ticket' # ticket
    <3> DEFINE id == run[h].id
               new == ClaimedBy(ticket[id], run[h].user)
    <3>1. /\ ticket[id].assignee = NoUser /\ IsOpen(ticket[id])
          /\ ticket' = [ticket EXCEPT ![id] = new]
      BY <1>5, <2>3, ClaimUpdateEffect
    <3>2. new.author = ticket[id].author /\ new.assignee = run[h].user
      BY <1>t, <1>n, <2>1, <3>1 DEF ClaimedBy, LC!Rows, NoTicket
    <3> HIDE DEF new
    <3>3. \A u \in Users : Authored(u)' \subseteq Authored(u)
      BY <1>t, <2>1, <3>1, <3>2 DEF Authored
    <3>4. \A u \in Users : Assigned(u)' \subseteq Assigned(u) \cup (IF u = run[h].user THEN {id} ELSE {})
      BY <1>t, <2>1, <3>1, <3>2 DEF Assigned
    <3>5. Assigned(run[h].user) \subseteq {id}
      BY <2>1 DEF LimitInv
    <3>6. \A u \in Users : \A s, r \in Assigned(u)' : s = r
      BY <2>1, <3>4, <3>5 DEF LimitInv
    <3>7. \A u \in Users : \A s, r \in Authored(u)' : s = r
      BY <3>3 DEF LimitInv
    <3>. QED
      BY <2>1, <3>6, <3>7 DEF OneAtATime, LimitInv, Deciding
  <2>. QED
    BY <2>2, <2>3
<1>6. ASSUME NEW h \in Handlers, ConfirmWrite(h) PROVE LimitInv'
  <2> DEFINE new == [ticket[run[h].id] EXCEPT !.status = "closed"]
  <2>1. /\ run[h].id \in Tickets /\ run'[h].step \notin Deciding
        /\ ticket[run[h].id] # NoTicket
        /\ ticket' = [ticket EXCEPT ![run[h].id] = new]
    BY <1>6, ConfirmWriteEffect
  <2>2. ~IsOpen(new)
    BY <1>t, <2>1 DEF IsOpen, OpenStatuses, LC!OpenStatuses, LC!Rows, NoTicket
  <2> HIDE DEF new
  <2>3. \A u \in Users : Authored(u)' \subseteq Authored(u) /\ Assigned(u)' \subseteq Assigned(u)
    BY <1>t, <2>1, <2>2 DEF Authored, Assigned, IsOpen
  <2>. QED
    BY <2>1, <2>3, LimitShrinks DEF OneAtATime
<1>7. CASE UNCHANGED vars
  BY <1>7 DEF vars, LimitInv, Authored, Assigned
<1>. QED
  BY <1>1, <1>2, <1>3, <1>4, <1>5, <1>6, <1>7, QuietUser, QuietHandle DEF Next

LEMMA AtMostOne ==
    ASSUME NEW S, \A s, t \in S : s = t
    PROVE  Cardinality(S) <= 1
<1>1. CASE S = {}
  BY <1>1, FS_EmptySet
<1>2. CASE S # {}
  <2>1. PICK x : S = {x}
    BY <1>2
  <2>. QED
    BY <2>1, FS_Singleton
<1>. QED
  BY <1>1, <1>2

------------------------------------------------------------------------------
LEMMA RoleInit == Init => RoleInv
BY DEF Init, RoleInv, Idle, NoTicket, LC!NoTicket

LEMMA LimitInit == Init => LimitInv
BY ConstantsAssumption DEF Init, LimitInv, Idle, Authored, Assigned, IsOpen, NoTicket,
   LC!NoTicket, OpenStatuses, LC!OpenStatuses

LEMMA Roles == Spec => []RoleInv
<1>. QED
  BY Invariance, RoleInit, RoleStep, PTL DEF Spec

LEMMA Limits == OneAtATime /\ Spec => []LimitInv
<1>1. SUFFICES ASSUME OneAtATime PROVE Spec => []LimitInv
  BY <1>1
<1>2. IInv /\ LimitInv /\ [Next]_vars => LimitInv'
  BY <1>1, LimitStep
<1>. QED
  BY Invariance, LimitInit, <1>2, PTL DEF Spec

\* sgotinish/README.md, "one open ticket max", and claim_ticket, "One open
\* assignee channel at a time": the SELECT before the INSERT of create_ticket and
\* the one before the UPDATE are enough while updates are handled one at a time.
THEOREM LimitsKept == OneAtATime /\ Spec => []LimitsHold
<1>1. LimitInv => OneOpenTicketPerAuthor
  BY AtMostOne DEF LimitInv, OneOpenTicketPerAuthor
<1>2. LimitInv => OneChannelPerAssignee
  BY AtMostOne DEF LimitInv, OneChannelPerAssignee
<1>3. LimitInv => LimitsHold
  BY <1>1, <1>2 DEF LimitsHold
<1>. QED
  BY Limits, <1>3, PTL

\* get_open_channel and _can_close_channel: while tickets are open, somebody can
\* close one, however many handlers interleave.
THEOREM NeverLockedUp == AtMostOneBoth /\ Spec => []SomeoneCanClose
<1>1. SUFFICES ASSUME AtMostOneBoth PROVE Spec => []SomeoneCanClose
  BY <1>1
<1>2. IInv /\ RoleInv => SomeoneCanClose
  BY <1>1, SomeoneCan
<1>. QED
  BY Invariance, Roles, <1>2, PTL
==============================================================================
