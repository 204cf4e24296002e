------------------------------ MODULE TenantsProofs ------------------------------
(***************************************************************************)
(* The tenant's plan and its team, for every number of handlers, members   *)
(* and checkout sessions.                                                  *)
(***************************************************************************)
EXTENDS Tenants, FiniteSetTheorems, SequenceTheorems, TLAPS

Handler == [pc : Steps, sid : Sid \cup {NoSid}, user : User \cup {NoUser}, on : BOOLEAN,
            event : Event]

\* An idle handler has its type, although it names the first session.
LEMMA SilentType == Silent \in Handler /\ Silent.pc = "idle" /\ Silent.sid = NoSid
<1>1. 1 \in Sid
  BY SidAssumption, FS_CardinalityType, FS_EmptySet
<1>2. NoEvent \in Event
  BY <1>1 DEF NoEvent, Event, SubscriptionStatus
<1> QED BY <1>2 DEF Silent, Handler, Steps

\* A handler that calls Stripe does so about a subscription.
Aimed == \A k \in Call : call[k].pc \in {"stop", "end", "closeStop"} => call[k].sid # NoSid

\* TypeOK is not inductive without it: an event would be about no subscription.
TypeInv == TypeOK /\ Aimed

\* One event is a sequence of events.
LEMMA OneEvent == \A e \in Event : <<e>> \in Seq(Event)
<1> SUFFICES ASSUME NEW e \in Event PROVE <<e>> \in Seq(Event)
  OBVIOUS
<1>1. Append(<<>>, e) = <<>> \o <<e>> /\ Append(<<>>, e) \in Seq(Event)
  BY AppendIsConcat, AppendProperties, EmptySeq
<1> QED BY <1>1

\* Events join the queue at its end.
LEMMA TellType ==
  ASSUME events \in Seq(Event), NEW es \in Seq(Event), Tell(es)
  PROVE  events' \in Seq(Event)
  BY ConcatProperties DEF Tell

\* A handler goes on, ends, or begins with a record of its own.
LEMMA CallTypes ==
  ASSUME call \in [Call -> Handler], NEW k \in Call
  PROVE  /\ End(k) => call' \in [Call -> Handler]
         /\ \A l \in Steps : Goto(k, l) => call' \in [Call -> Handler]
         /\ \A h \in Handler : \A op : Request(k, op, h) => call' \in [Call -> Handler]
<1>1. End(k) => call' \in [Call -> Handler]
  BY SilentType DEF End
<1>2. ASSUME NEW l \in Steps, Goto(k, l) PROVE call' \in [Call -> Handler]
  BY <1>2 DEF Goto, Handler
<1>3. ASSUME NEW h \in Handler, NEW op, Request(k, op, h) PROVE call' \in [Call -> Handler]
  BY <1>3 DEF Request
<1> QED BY <1>1, <1>2, <1>3

\* The first step of each request.
LEMMA ReadType ==
  ASSUME TypeOK, NEW k \in Call,
         \/ DowngradeRead(k) \/ CancelRead(k) \/ DeleteRead(k)
         \/ \E p \in PlanCode : Checkout(k, p)
         \/ \E u \in User : \/ TeamCreateRead(k, u) \/ TeamRemoveRead(k, u)
                           \/ \E on \in BOOLEAN : TeamUpdateRead(k, u, on)
  PROVE  TypeOK'
<1> USE DEF TypeOK
<1>0. call \in [Call -> Handler] /\ sub.sid \in Sid \cup {NoSid}
  BY DEF Handler, Subscription
<1>1. \E h \in Handler, op \in limits.ops : Request(k, op, h)
  <2>1. CASE \/ DowngradeRead(k) \/ CancelRead(k) \/ DeleteRead(k)
    <3>1. PICK l \in Steps, op \in limits.ops :
            Request(k, op, [Silent EXCEPT !.sid = sub.sid, !.pc = l])
      BY <2>1 DEF DowngradeRead, CancelRead, DeleteRead, Request, Steps
    <3>2. [Silent EXCEPT !.sid = sub.sid, !.pc = l] \in Handler
      BY <1>0, SilentType DEF Handler
    <3> QED BY <3>1, <3>2
  <2>2. ASSUME NEW p \in PlanCode, Checkout(k, p)
        PROVE  \E h \in Handler, op \in limits.ops : Request(k, op, h)
    <3>1. PICK s \in Sid : Request(k, "checkout", Silent)
      BY <2>2 DEF Checkout
    <3> QED BY <3>1, SilentType DEF Request
  <2>3. ASSUME NEW u \in User,
               TeamCreateRead(k, u) \/ TeamRemoveRead(k, u)
                 \/ \E on \in BOOLEAN : TeamUpdateRead(k, u, on)
        PROVE  \E h \in Handler, op \in limits.ops : Request(k, op, h)
    <3>1. \A l \in Steps, on \in BOOLEAN :
            /\ [Silent EXCEPT !.pc = l, !.user = u] \in Handler
            /\ [Silent EXCEPT !.pc = l, !.user = u, !.on = on] \in Handler
      BY SilentType DEF Handler
    <3> QED BY <2>3, <3>1 DEF TeamCreateRead, TeamRemoveRead, TeamUpdateRead, Request, Steps
  <2> QED BY <2>1, <2>2, <2>3
<1>2. call' \in [Call -> Handler] /\ begun' \in 0 .. limits.calls
  BY <1>0, <1>1, CallTypes, LimitsAssumption DEF Request
<1>3. stripe' \in [Sid -> StripeSub]
  <2>1. ASSUME NEW p \in PlanCode, Checkout(k, p) PROVE stripe' \in [Sid -> StripeSub]
    <3>1. PICK s \in Sid :
            stripe' = [stripe EXCEPT ![s] = [status |-> "open", plan |-> p, ending |-> FALSE]]
      BY <2>1 DEF Checkout
    <3> QED BY <3>1 DEF StripeSub
  <2>2. CASE stripe' = stripe
    BY <2>2
  <2> QED BY <2>1, <2>2 DEF DowngradeRead, CancelRead, DeleteRead, TeamCreateRead,
               TeamRemoveRead, TeamUpdateRead
<1>4. UNCHANGED <<rows, events, limits, faults>>
  BY DEF DowngradeRead, CancelRead, DeleteRead, Checkout, TeamCreateRead, TeamRemoveRead,
         TeamUpdateRead
<1> QED BY <1>2, <1>3, <1>4 DEF rows, Handler

\* The calls to Stripe.
LEMMA StripeCallType ==
  ASSUME TypeInv, NEW k \in Call, DowngradeStop(k) \/ CancelStripe(k) \/ DeleteStop(k)
  PROVE  TypeOK'
<1> USE DEF TypeInv, TypeOK
<1>0. call \in [Call -> Handler] /\ UNCHANGED <<rows, static>>
  BY DEF Handler, DowngradeStop, CancelStripe, DeleteStop
<1>1. call' \in [Call -> Handler]
  <2>1. End(k) \/ Goto(k, "free") \/ Goto(k, "mark") \/ Goto(k, "closeSub")
    BY DEF DowngradeStop, CancelStripe, DeleteStop
  <2> QED BY <1>0, <2>1, CallTypes DEF Steps
<1>2. faults' \in 0 .. limits.faults
  BY LimitsAssumption DEF DowngradeStop, CancelStripe, DeleteStop, Fault
<1> DEFINE s == call[k].sid
<1>6. s \in Sid
  BY DEF TypeInv, Aimed, DowngradeStop, CancelStripe, DeleteStop, At
<1>3. \/ UNCHANGED <<stripe, events>>
      \/ CancelNow(s)
      \/ /\ stripe' = [stripe EXCEPT ![s].ending = TRUE]
         /\ \E st \in SubscriptionStatus : Tell(<<EventOf("updated", s, st, TRUE)>>)
  <2>1. CASE DowngradeStop(k)
    BY <2>1 DEF DowngradeStop
  <2>2. CASE CancelStripe(k)
    <3>1. {"ACTIVE", "PAST_DUE"} \subseteq SubscriptionStatus
      BY DEF SubscriptionStatus
    <3> QED BY <2>2, <3>1 DEF CancelStripe
  <2>3. CASE DeleteStop(k)
    BY <2>3 DEF DeleteStop
  <2> QED BY <2>1, <2>2, <2>3
<1> HIDE DEF s
<1>4. stripe' \in [Sid -> StripeSub] /\ events' \in Seq(Event)
  <2>1. CASE CancelNow(s)
    <3>1. EventOf("deleted", s, "CANCELED", FALSE) \in Event
      BY <1>6 DEF EventOf, Event, SubscriptionStatus
    <3>2. <<EventOf("deleted", s, "CANCELED", FALSE)>> \in Seq(Event)
      BY <3>1, OneEvent
    <3>3. events' \in Seq(Event)
      BY <2>1, <3>2, TellType DEF CancelNow
    <3> QED BY <1>6, <2>1, <3>3 DEF CancelNow, StripeSub
  <2>2. ASSUME stripe' = [stripe EXCEPT ![s].ending = TRUE],
               NEW st \in SubscriptionStatus, Tell(<<EventOf("updated", s, st, TRUE)>>)
        PROVE  stripe' \in [Sid -> StripeSub] /\ events' \in Seq(Event)
    <3>1. EventOf("updated", s, st, TRUE) \in Event
      BY <1>6, <2>2 DEF EventOf, Event
    <3>2. <<EventOf("updated", s, st, TRUE)>> \in Seq(Event)
      BY <3>1, OneEvent
    <3>3. events' \in Seq(Event)
      BY <2>2, <3>2, TellType
    <3>4. [stripe[s] EXCEPT !.ending = TRUE] \in StripeSub
      <4>1. ASSUME NEW x \in StripeSub PROVE [x EXCEPT !.ending = TRUE] \in StripeSub
        BY DEF StripeSub
      <4> QED BY <1>6, <4>1
    <3>5. stripe' = [stripe EXCEPT ![s] = [stripe[s] EXCEPT !.ending = TRUE]]
      BY <2>2
    <3> QED BY <1>6, <3>3, <3>4, <3>5
  <2> QED BY <1>3, <2>1, <2>2
<1> QED BY <1>0, <1>1, <1>2, <1>4 DEF rows, static, Handler

\* The statements that write the tenant's rows and its team.
LEMMA WriteType ==
  ASSUME TypeOK, NEW k \in Call,
         \/ DowngradeTenant(k) \/ DowngradeSub(k) \/ CancelMark(k) \/ DeleteSub(k)
         \/ DeleteTenant(k) \/ DeleteTx(k) \/ TeamCreateInsert(k) \/ TeamUpdateWrite(k)
         \/ TeamRemoveWrite(k) \/ ActivateTenant(k) \/ ActivateSub(k)
         \/ SubscriptionUpdated(k) \/ SubscriptionDeleted(k) \/ EndTenant(k)
         \/ PaymentFailed(k)
  PROVE  TypeOK'
<1> USE DEF TypeOK
<1>0. call \in [Call -> Handler] /\ UNCHANGED <<stripe, events, static, faults>>
  BY DEF Handler, DowngradeTenant, DowngradeSub, CancelMark, DeleteSub, DeleteTenant, DeleteTx,
       TeamCreateInsert, TeamUpdateWrite, TeamRemoveWrite, ActivateTenant, ActivateSub,
       SubscriptionUpdated, SubscriptionDeleted, EndTenant, PaymentFailed
<1>1. call' \in [Call -> Handler]
  <2>1. End(k) \/ \E l \in {"freeSub", "closeTenant", "close", "actSub", "ack", "endTenant"} :
          Goto(k, l)
    BY DEF DowngradeTenant, DowngradeSub, CancelMark, DeleteSub, DeleteTenant, DeleteTx,
       TeamCreateInsert, TeamUpdateWrite, TeamRemoveWrite, ActivateTenant, ActivateSub,
       SubscriptionUpdated, SubscriptionDeleted, EndTenant, PaymentFailed
  <2> QED BY <1>0, <2>1, CallTypes DEF Steps
<1>2. call[k].event \in Event /\ call[k].event.sid \in Sid
      /\ stripe[call[k].event.sid].plan \in PlanCode
  BY DEF Event, StripeSub
<1>3. sub' \in Subscription
  <2> USE DEF Subscription, SubscriptionStatus, PlanCode
  <2>1. CASE ActivateSub(k)
    <3> DEFINE pp == stripe[call[k].event.sid].plan
               ss == call[k].event.sid
    <3>1. sub' = [plan |-> pp, status |-> "ACTIVE", cancelAtPeriodEnd |-> FALSE, limit |-> pp,
                  sid |-> ss]
      BY <2>1 DEF ActivateSub
    <3>2. pp \in PlanCode /\ ss \in Sid
      BY <1>2
    <3> HIDE DEF pp, ss
    <3> QED BY <3>1, <3>2
  <2>5. CASE DowngradeSub(k)
    BY <2>5 DEF DowngradeSub
  <2>2. CASE CancelMark(k) \/ PaymentFailed(k)
    BY <2>2 DEF CancelMark, PaymentFailed
  <2>6. CASE DeleteSub(k)
    BY <2>6 DEF DeleteSub
  <2>7. CASE SubscriptionDeleted(k)
    BY <2>7 DEF SubscriptionDeleted
  <2>3. CASE SubscriptionUpdated(k)
    <3>1. call[k].event.status \in SubscriptionStatus /\ call[k].event.ending \in BOOLEAN
      BY <1>2 DEF Event
    <3> QED BY <2>3, <3>1 DEF SubscriptionUpdated
  <2>4. CASE sub' = sub
    BY <2>4
  <2> QED BY <2>1, <2>2, <2>3, <2>4, <2>5, <2>6, <2>7 DEF DowngradeTenant, DeleteTenant, DeleteTx,
             TeamCreateInsert, TeamUpdateWrite, TeamRemoveWrite, ActivateTenant, EndTenant
<1>4. tenant' \in [plan : PlanCode, deleted : BOOLEAN] /\ held' \subseteq PlanCode
  <2>1. CASE \E p \in PlanCode : SetPlan(p)
    BY <2>1 DEF SetPlan
  <2>2. CASE DeleteTx(k)
    BY <2>2 DEF DeleteTx
  <2>3. CASE tenant' = tenant /\ held' = held
    BY <2>3
  <2>4. "STARTER" \in PlanCode
    BY DEF PlanCode
  <2> QED BY <1>2, <2>1, <2>2, <2>3, <2>4 DEF DowngradeTenant, DowngradeSub, CancelMark,
             DeleteSub, DeleteTenant, TeamCreateInsert, TeamUpdateWrite, TeamRemoveWrite,
             ActivateTenant, ActivateSub, SubscriptionUpdated, SubscriptionDeleted,
             EndTenant, PaymentFailed
<1>5. users' \in [User -> {"none", "active", "inactive", "deleted"}]
  BY DEF DowngradeTenant, DowngradeSub, CancelMark, DeleteSub, DeleteTenant, DeleteTx,
       TeamCreateInsert, TeamUpdateWrite, TeamRemoveWrite, ActivateTenant, ActivateSub,
       SubscriptionUpdated, SubscriptionDeleted, EndTenant, PaymentFailed
<1>6. revived' \subseteq User
  <2>2. CASE TeamUpdateWrite(k)
    BY <2>2 DEF TeamUpdateWrite
  <2>3. CASE TeamRemoveWrite(k)
    BY <2>3 DEF TeamRemoveWrite
  <2>4. CASE revived' = revived
    BY <2>4
  <2> QED BY <2>2, <2>3, <2>4 DEF DowngradeTenant, DowngradeSub, CancelMark, DeleteSub,
             DeleteTenant, DeleteTx, TeamCreateInsert, ActivateTenant, ActivateSub,
             SubscriptionUpdated, SubscriptionDeleted, EndTenant, PaymentFailed
<1> QED BY <1>0, <1>1, <1>3, <1>4, <1>5, <1>6 DEF static, Handler

\* Stripe's own steps.
LEMMA StripeType ==
  ASSUME TypeOK, NEW s \in Sid,
         Pay(s) \/ PeriodEnds(s) \/ PaymentFails(s) \/ Pauses(s) \/ PaymentRecovers(s) \/ GivesUp(s)
  PROVE  TypeOK'
<1> USE DEF TypeOK
<1>1. \A type \in {"completed", "updated", "deleted", "payment_failed"},
         st \in SubscriptionStatus, e \in BOOLEAN : EventOf(type, s, st, e) \in Event
  BY DEF EventOf, Event
<1>2. PICK from \in {"open", "active", "past_due"}, to \in {"active", "canceled", "past_due"},
           es \in Seq(Event) : StripeStep(s, from, to, es)
  <2>1. stripe[s].ending \in BOOLEAN /\ {"ACTIVE", "CANCELED", "PAST_DUE"} \subseteq SubscriptionStatus
    BY DEF StripeSub, SubscriptionStatus
  <2>2. CASE Pay(s)
    <3>1. <<EventOf("completed", s, "ACTIVE", FALSE)>> \in Seq(Event)
      BY <1>1, <2>1, OneEvent
    <3> QED BY <2>2, <3>1 DEF Pay
  <2>3. CASE PeriodEnds(s)
    <3>1. <<EventOf("deleted", s, "CANCELED", FALSE)>> \in Seq(Event)
      BY <1>1, <2>1, OneEvent
    <3> QED BY <2>3, <3>1 DEF PeriodEnds
  <2>4. CASE PaymentFails(s)
    <3>1. <<EventOf("payment_failed", s, "PAST_DUE", stripe[s].ending),
            EventOf("updated", s, "PAST_DUE", stripe[s].ending)>> \in Seq(Event)
      BY <1>1, <2>1
    <3> QED BY <2>4, <3>1 DEF PaymentFails
  <2>5. CASE PaymentRecovers(s)
    <3>1. <<EventOf("updated", s, "ACTIVE", stripe[s].ending)>> \in Seq(Event)
      BY <1>1, <2>1, OneEvent
    <3> QED BY <2>5, <3>1 DEF PaymentRecovers
  <2>7. CASE Pauses(s)
    <3>1. <<EventOf("updated", s, "INCOMPLETE", stripe[s].ending)>> \in Seq(Event)
      BY <1>1, <2>1, OneEvent DEF SubscriptionStatus
    <3> QED BY <2>7, <3>1 DEF Pauses
  <2>6. CASE GivesUp(s)
    <3>1. PICK type \in {"updated", "deleted"} :
            StripeStep(s, "past_due", "canceled", <<EventOf(type, s, "CANCELED", FALSE)>>)
      BY <2>6 DEF GivesUp
    <3>2. <<EventOf(type, s, "CANCELED", FALSE)>> \in Seq(Event)
      BY <1>1, <2>1, OneEvent
    <3> QED BY <3>1, <3>2
  <2> QED BY <2>2, <2>3, <2>4, <2>5, <2>6, <2>7
<1>3. events' \in Seq(Event)
  BY <1>2, TellType DEF StripeStep
<1>4. stripe' \in [Sid -> StripeSub]
  <2>1. ASSUME NEW x \in StripeSub PROVE [x EXCEPT !.status = to] \in StripeSub
    BY <1>2 DEF StripeSub
  <2>2. stripe' = [stripe EXCEPT ![s] = [stripe[s] EXCEPT !.status = to]]
    BY <1>2 DEF StripeStep
  <2> QED BY <2>1, <2>2
<1> QED BY <1>2, <1>3, <1>4 DEF StripeStep, rows, static

\* An event leaves the queue when it is answered.
LEMMA AckType ==
  ASSUME TypeOK, NEW k \in Call, Ack(k)
  PROVE  TypeOK'
<1> USE DEF TypeOK
<1>1. events' \in Seq(Event)
  <2>1. ASSUME NEW i \in DOMAIN events PROVE RemoveAt(events, i) \in Seq(Event)
    <3>1. i \in 1 .. Len(events) /\ Len(events) \in Nat
      OBVIOUS
    <3>2. SubSeq(events, 1, i - 1) \in Seq(Event) /\ SubSeq(events, i + 1, Len(events)) \in Seq(Event)
      BY <3>1, SubSeqProperties
    <3> QED BY <3>2, ConcatProperties DEF RemoveAt
  <2> QED BY <2>1 DEF Ack
<1>2. call' \in [Call -> Handler]
  BY CallTypes DEF Ack, Handler
<1> QED BY <1>1, <1>2 DEF Ack, rows, static, Handler

\* Every step keeps the types.
LEMMA TypeStep ==
  ASSUME TypeInv, [Next]_vars
  PROVE  TypeOK'
<1> USE DEF TypeInv
<1>1. CASE UNCHANGED vars
  BY <1>1 DEF vars, TypeOK
<1>2. ASSUME NEW k \in Call, Dies(k) PROVE TypeOK'
  <2> USE DEF TypeOK
  <2>1. call' \in [Call -> Handler]
    BY <1>2, CallTypes DEF Dies, Handler
  <2>2. faults' \in 0 .. limits.faults
    BY <1>2, LimitsAssumption DEF Dies, Fault
  <2> QED BY <1>2, <2>1, <2>2 DEF Dies, rows, static, Handler
<1>3. ASSUME NEW k \in Call, NEW i \in DOMAIN events, Deliver(k, i) PROVE TypeOK'
  <2> USE DEF TypeOK
  <2>1. events[i] \in Event
    BY ElementOfSeq, LenProperties
  <2>2. PICK l \in Steps : call' = [call EXCEPT ![k] = [Silent EXCEPT !.event = events[i], !.pc = l]]
    BY <1>3, <2>1 DEF Deliver, Event, Steps
  <2>3. call' \in [Call -> Handler]
    BY <2>1, <2>2, SilentType DEF Handler
  <2> QED BY <1>3, <2>3 DEF Deliver, rows, static, Handler
<1>4. ASSUME NEW k \in Call, Step(k) PROVE TypeOK'
  BY <1>4, StripeCallType, WriteType, AckType DEF Step
<1> QED BY <1>1, <1>2, <1>3, <1>4, ReadType, StripeType DEF Next

\* A subscription is named when the handler is about to call Stripe.
LEMMA AimedStep ==
  ASSUME TypeInv, [Next]_vars
  PROVE  Aimed'
<1> DEFINE Calling == {"stop", "end", "closeStop"}
<1> USE DEF TypeInv, TypeOK, Aimed
<1>1. ASSUME NEW k \in Call, NEW l \in Steps \ Calling, Goto(k, l) PROVE Aimed'
  BY <1>1 DEF Goto
<1>2. ASSUME NEW k \in Call, End(k) PROVE Aimed'
  BY <1>2, SilentType DEF End
<1>3. ASSUME NEW k \in Call, NEW h \in Handler, h.pc \in Calling => h.sid # NoSid,
             call' = [call EXCEPT ![k] = h]
      PROVE  Aimed'
  BY <1>3
<1>4. CASE call' = call
  BY <1>4
<1>5. ASSUME NEW k \in Call, Step(k) \/ Dies(k) PROVE Aimed'
  <2>1. End(k) \/ \E l \in {"free", "freeSub", "mark", "closeSub", "closeTenant", "close",
                            "actSub", "ack", "endTenant"} : Goto(k, l)
    BY <1>5 DEF Step, Dies, DowngradeStop, DowngradeTenant, DowngradeSub, CancelStripe,
         CancelMark, DeleteStop, DeleteSub, DeleteTenant, DeleteTx, TeamCreateInsert,
         TeamUpdateWrite, TeamRemoveWrite, ActivateTenant, ActivateSub, SubscriptionUpdated,
         SubscriptionDeleted, EndTenant, PaymentFailed, Ack
  <2> QED BY <1>1, <1>2, <2>1 DEF Steps
<1>6. ASSUME NEW k \in Call, DowngradeRead(k) \/ CancelRead(k) \/ DeleteRead(k) PROVE Aimed'
  <2>1. PICK l \in Steps :
          /\ call' = [call EXCEPT ![k] = [Silent EXCEPT !.sid = sub.sid, !.pc = l]]
          /\ sub.sid = NoSid => l \notin Calling
    BY <1>6 DEF DowngradeRead, CancelRead, DeleteRead, Request, Steps
  <2>2. [Silent EXCEPT !.sid = sub.sid, !.pc = l] \in Handler
    BY SilentType DEF Handler, Subscription
  <2> QED BY <1>3, <2>1, <2>2, SilentType DEF Handler
<1>7. ASSUME NEW k \in Call, NEW p \in PlanCode, Checkout(k, p) PROVE Aimed'
  BY <1>7, SilentType DEF Checkout, Request
<1>8. ASSUME NEW k \in Call, NEW u \in User,
             TeamCreateRead(k, u) \/ TeamRemoveRead(k, u)
               \/ \E on \in BOOLEAN : TeamUpdateRead(k, u, on)
      PROVE  Aimed'
  <2>1. PICK h \in Handler : h.pc \notin Calling /\ call' = [call EXCEPT ![k] = h]
    <3>2. {"join", "set", "drop"} \subseteq Steps \ Calling
      BY DEF Steps
    <3>1. \A l \in Steps, on \in BOOLEAN :
            /\ [Silent EXCEPT !.pc = l, !.user = u] \in Handler
            /\ [Silent EXCEPT !.pc = l, !.user = u].pc = l
            /\ [Silent EXCEPT !.pc = l, !.user = u, !.on = on] \in Handler
            /\ [Silent EXCEPT !.pc = l, !.user = u, !.on = on].pc = l
      BY SilentType DEF Handler
    <3>3. CASE TeamCreateRead(k, u) \/ TeamRemoveRead(k, u)
      BY <3>1, <3>2, <3>3 DEF TeamCreateRead, TeamRemoveRead, Request
    <3>4. CASE \E on \in BOOLEAN : TeamUpdateRead(k, u, on)
      BY <3>1, <3>2, <3>4 DEF TeamUpdateRead, Request
    <3> QED BY <1>8, <3>3, <3>4
  <2> QED BY <1>3, <2>1
<1>9. ASSUME NEW k \in Call, NEW i \in DOMAIN events, Deliver(k, i) PROVE Aimed'
  <2>1. events[i] \in Event
    BY ElementOfSeq, LenProperties
  <2>2. PICK l \in Steps \ Calling :
          call' = [call EXCEPT ![k] = [Silent EXCEPT !.event = events[i], !.pc = l]]
    BY <1>9, <2>1 DEF Deliver, Event, Steps
  <2>3. [Silent EXCEPT !.event = events[i], !.pc = l] \in Handler
    BY <2>1, SilentType DEF Handler
  <2> QED BY <1>3, <2>2, <2>3, SilentType DEF Handler
<1>10. ASSUME NEW s \in Sid,
              Pay(s) \/ PeriodEnds(s) \/ PaymentFails(s) \/ Pauses(s) \/ PaymentRecovers(s) \/ GivesUp(s)
       PROVE  Aimed'
  BY <1>4, <1>10 DEF Pay, PeriodEnds, PaymentFails, Pauses, PaymentRecovers, GivesUp, StripeStep
<1> QED BY <1>4, <1>5, <1>6, <1>7, <1>8, <1>9, <1>10 DEF Next, vars

\* A tenant as register leaves it.
LEMMA TenantTypesInit ==
  ASSUME Init
  PROVE  TypeInv
<1>1. begun \in 0 .. limits.calls /\ faults \in 0 .. limits.faults
  BY LimitsAssumption DEF Init
<1>2. call \in [Call -> Handler]
  BY SilentType DEF Init
<1>3. events \in Seq(Event)
  BY DEF Init
<1>4. /\ tenant \in [plan : PlanCode, deleted : BOOLEAN] /\ sub \in Subscription
      /\ stripe \in [Sid -> StripeSub] /\ held \subseteq PlanCode
  BY DEF Init, PlanCode, Subscription, SubscriptionStatus, StripeSub
<1>5. /\ users \in [User -> {"none", "active", "inactive", "deleted"}] /\ limits \in Limits
      /\ revived \subseteq User
  BY DEF Init
<1>6. Aimed
  BY SilentType DEF Init, Aimed
<1> QED BY <1>1, <1>2, <1>3, <1>4, <1>5, <1>6 DEF TypeInv, TypeOK, Handler

\* Every table of the tenant, what Stripe holds and every handler keep their types.
THEOREM TenantTypes == Spec => []TypeOK
<1>1. Init => TypeInv
  BY TenantTypesInit
<1>2. TypeInv /\ [Next]_vars => TypeInv'
  BY TypeStep, AimedStep DEF TypeInv
<1>3. TypeInv => TypeOK
  BY DEF TypeInv
<1> QED BY <1>1, <1>2, <1>3, PTL DEF Spec

--------------------------------------------------------------------------------
(* One handler at a time, and the team.                                    *)

\* In a serial instance at most one handler is at work.
Lone == \A k, j \in Call : k # j => At(k, "idle") \/ At(j, "idle")

\* Who is at work goes on, or somebody begins when nobody who counts is at work.
LEMMA OneMoves ==
  ASSUME TypeInv, [Next]_vars
  PROVE  /\ UNCHANGED limits
         /\ \/ UNCHANGED call
            \/ \E k \in Call : /\ ~At(k, "idle") \/ Alone
                               /\ \A j \in Call \ {k} : call'[j] = call[j]
<1> USE DEF TypeInv, TypeOK
<1>1. CASE UNCHANGED vars
  BY <1>1 DEF vars
<1>2. ASSUME NEW k \in Call, Step(k) \/ Dies(k)
      PROVE  UNCHANGED limits /\ ~At(k, "idle") /\ \A j \in Call \ {k} : call'[j] = call[j]
  <2>1. UNCHANGED limits /\ (End(k) \/ \E l : Goto(k, l)) /\ ~At(k, "idle")
    BY <1>2 DEF Step, Dies, DowngradeStop, DowngradeTenant, DowngradeSub, CancelStripe,
         CancelMark, DeleteStop, DeleteSub, DeleteTenant, DeleteTx, TeamCreateInsert,
         TeamUpdateWrite, TeamRemoveWrite, ActivateTenant, ActivateSub, SubscriptionUpdated,
         SubscriptionDeleted, EndTenant, PaymentFailed, Ack, At, static
  <2> QED BY <2>1 DEF End, Goto
<1>3. ASSUME NEW k \in Call,
             \/ DowngradeRead(k) \/ CancelRead(k) \/ DeleteRead(k)
             \/ \E p \in PlanCode : Checkout(k, p)
             \/ \E u \in User : \/ TeamCreateRead(k, u) \/ TeamRemoveRead(k, u)
                               \/ \E on \in BOOLEAN : TeamUpdateRead(k, u, on)
             \/ \E i \in DOMAIN events : Deliver(k, i)
      PROVE  UNCHANGED limits /\ Alone /\ \A j \in Call \ {k} : call'[j] = call[j]
  BY <1>3 DEF DowngradeRead, CancelRead, DeleteRead, Checkout, TeamCreateRead, TeamRemoveRead,
       TeamUpdateRead, Deliver, Request, static
<1>4. ASSUME NEW s \in Sid,
             Pay(s) \/ PeriodEnds(s) \/ PaymentFails(s) \/ Pauses(s) \/ PaymentRecovers(s) \/ GivesUp(s)
      PROVE  UNCHANGED <<limits, call>>
  BY <1>4 DEF Pay, PeriodEnds, PaymentFails, Pauses, PaymentRecovers, GivesUp, StripeStep, static
<1> QED BY <1>1, <1>2, <1>3, <1>4 DEF Next

\* A serial instance stays serial.
LEMMA LoneStep ==
  ASSUME TypeInv, limits.serial => Lone, [Next]_vars
  PROVE  (limits.serial => Lone)'
<1>1. CASE UNCHANGED call
  BY <1>1, OneMoves DEF Lone, At
<1>2. ASSUME NEW k \in Call, ~At(k, "idle") \/ Alone, \A j \in Call \ {k} : call'[j] = call[j]
      PROVE  limits.serial => Lone'
  BY <1>2 DEF Lone, Alone, At
<1> QED BY <1>1, <1>2, OneMoves

\* Members that no update has made active again, handlers that have counted the team and
\* are about to insert, and how many of these there may be together.
Grown == ActiveUsers \ revived
Joining == {k \in Call : At(k, "join")}
Together == IF limits.serial THEN 1 ELSE Cardinality(Call)

\* TeamWithinPlans, with the members that are on their way counted too.
Fit(p) == Cardinality(Grown) + Cardinality(Joining) < maxProfessionals[p] + Together
TeamInv ==
  /\ tenant.plan \in held
  /\ IsFiniteSet(ActiveUsers)
  /\ \E p \in held : Fit(p)

\* Those sets are finite, and their sizes numbers.
LEMMA TeamSizes ==
  ASSUME IsFiniteSet(ActiveUsers)
  PROVE  /\ IsFiniteSet(Grown) /\ IsFiniteSet(Joining)
         /\ Cardinality(Grown) \in Nat /\ Cardinality(Joining) \in Nat
         /\ Together \in Nat /\ Together >= 1
         /\ Cardinality(Grown) <= Cardinality(ActiveUsers)
         /\ Cardinality(ActiveUsers) \in Nat
         /\ \A p \in PlanCode : maxProfessionals[p] \in Nat
<1>1. Grown \subseteq ActiveUsers /\ Joining \subseteq Call
  BY DEF Grown, Joining
<1>2. /\ IsFiniteSet(Grown) /\ Cardinality(Grown) <= Cardinality(ActiveUsers)
      /\ IsFiniteSet(Joining)
  BY <1>1, CallAssumption, FS_Subset
<1>3. Together \in Nat /\ Together >= 1
  BY CallAssumption, FS_CardinalityType, FS_EmptySet DEF Together
<1> QED BY <1>2, <1>3, FS_CardinalityType DEF maxProfessionals

\* Who leaves the team makes room, and so does who gives up joining it.
LEMMA FewerFit ==
  ASSUME TypeOK, TeamInv, UNCHANGED limits, IsFiniteSet(ActiveUsers)',
         Grown' \subseteq Grown, Joining' \subseteq Joining,
         held \subseteq held', tenant'.plan \in held'
  PROVE  TeamInv'
<1>1. /\ Cardinality(Grown) \in Nat /\ Cardinality(Joining) \in Nat
      /\ IsFiniteSet(Grown) /\ IsFiniteSet(Joining) /\ Together \in Nat
      /\ \A p \in PlanCode : maxProfessionals[p] \in Nat
  BY TeamSizes DEF TeamInv
<1>2. /\ Cardinality(Grown') <= Cardinality(Grown) /\ Cardinality(Grown') \in Nat
      /\ Cardinality(Joining') <= Cardinality(Joining) /\ Cardinality(Joining') \in Nat
  BY <1>1, FS_Subset, FS_CardinalityType
<1>3. PICK p \in held : Fit(p)
  BY DEF TeamInv
<1>4. maxProfessionals[p] \in Nat /\ Together' = Together
  BY <1>1 DEF TypeOK, Together
<1>5. Fit(p)'
  BY <1>1, <1>2, <1>3, <1>4 DEF Fit
<1> QED BY <1>3, <1>5 DEF TeamInv

\* Every step keeps the team within the plans: a creation has counted when it joins those
\* about to insert, and there are never more of them than handlers.
LEMMA TeamStep ==
  ASSUME TypeInv, TeamInv, [Next]_vars
  PROVE  TeamInv'
<1> USE DEF TypeInv
<1>0. UNCHANGED limits
  BY OneMoves
<1>1. CASE UNCHANGED <<call, users, tenant, held, revived>>
  <2>1. Grown' = Grown /\ Joining' = Joining /\ ActiveUsers' = ActiveUsers
    BY <1>1 DEF Grown, Joining, ActiveUsers, At
  <2> QED BY <1>0, <1>1, <2>1, FewerFit DEF TeamInv
<1>2. ASSUME NEW k \in Call, \A j \in Call \ {k} : call'[j] = call[j], ~At(k, "join")'
      PROVE  Joining' \subseteq Joining
  BY <1>2 DEF Joining, At
<1>3. ASSUME NEW k \in Call, TeamCreateInsert(k)
      PROVE  TeamInv'
  <2>1. /\ ~At(k, "join")' /\ \A j \in Call \ {k} : call'[j] = call[j]
        /\ UNCHANGED <<tenant, held, revived>>
    BY <1>3, SilentType DEF TeamCreateInsert, At, End, TypeOK
  <2>2. k \in Joining /\ Joining' \subseteq Joining \ {k}
    BY <1>3, <2>1 DEF TeamCreateInsert, Joining, At
  <2>3. /\ ActiveUsers' \subseteq ActiveUsers \cup {call[k].user}
        /\ Grown' \subseteq Grown \cup {call[k].user}
    BY <1>3, <2>1 DEF TeamCreateInsert, ActiveUsers, Grown, TypeOK
  <2>4. /\ IsFiniteSet(ActiveUsers) /\ IsFiniteSet(Grown) /\ IsFiniteSet(Joining)
        /\ Cardinality(Grown) \in Nat /\ Cardinality(Joining) \in Nat /\ Together \in Nat
        /\ \A p \in PlanCode : maxProfessionals[p] \in Nat
    BY TeamSizes DEF TeamInv
  <2>5. IsFiniteSet(ActiveUsers)'
    <3> HIDE DEF TypeInv
    <3>1. IsFiniteSet(ActiveUsers \cup {call[k].user})
      BY <2>4, FS_AddElement
    <3> QED BY <2>3, <3>1, FS_Subset
  <2>6. Cardinality(Grown') \in Nat /\ Cardinality(Grown') <= Cardinality(Grown) + 1
    <3> DEFINE wider == Grown \cup {call[k].user}
    <3> HIDE DEF TypeInv
    <3>1. IsFiniteSet(wider)
      BY <2>4, FS_AddElement
    <3>2. Cardinality(wider) = Cardinality(Grown) \/ Cardinality(wider) = Cardinality(Grown) + 1
      BY <2>4, FS_AddElement
    <3>3. IsFiniteSet(Grown') /\ Cardinality(Grown') <= Cardinality(wider)
      BY <2>3, <3>1, FS_Subset
    <3>4. Cardinality(Grown') \in Nat
      BY <3>3, FS_CardinalityType
    <3> HIDE DEF wider
    <3> QED BY <2>4, <3>2, <3>3, <3>4
  <2>7. Cardinality(Joining') \in Nat /\ Cardinality(Joining') <= Cardinality(Joining) - 1
    <3>1. IsFiniteSet(Joining \ {k}) /\ Cardinality(Joining \ {k}) = Cardinality(Joining) - 1
      BY <2>2, <2>4, FS_RemoveElement
    <3> QED BY <2>2, <3>1, FS_Subset, FS_CardinalityType
  <2>8. PICK p \in held : Fit(p)
    BY DEF TeamInv
  <2>9. maxProfessionals[p] \in Nat /\ Together' = Together
    BY <1>0, <2>4 DEF TypeOK, Together
  <2>10. Fit(p)'
    BY <2>4, <2>6, <2>7, <2>8, <2>9 DEF Fit
  <2> QED BY <2>1, <2>5, <2>10 DEF TeamInv
<1>4. ASSUME NEW k \in Call, NEW u \in User, TeamCreateRead(k, u)
      PROVE  TeamInv'
  <2>1. /\ Alone /\ \A j \in Call \ {k} : call'[j] = call[j]
        /\ UNCHANGED <<tenant, held, users, revived>>
        /\ Cardinality(ActiveUsers) < maxProfessionals[tenant.plan]
    BY <1>4 DEF TeamCreateRead, Request, rows, TypeOK
  <2>2. ActiveUsers' = ActiveUsers /\ Grown' = Grown
    BY <2>1 DEF ActiveUsers, Grown
  <2>3. /\ Cardinality(Grown) \in Nat /\ Cardinality(Grown) <= Cardinality(ActiveUsers)
        /\ Cardinality(ActiveUsers) \in Nat /\ Together \in Nat
        /\ maxProfessionals[tenant.plan] \in Nat
    BY TeamSizes DEF TeamInv, TypeOK
  <2>4. Cardinality(Joining') \in Nat /\ Cardinality(Joining') <= Together
    <3>1. CASE limits.serial
      <4>1. Joining' \subseteq {k}
        BY <2>1, <3>1 DEF Alone, Joining, At
      <4> HIDE DEF TypeInv
      <4>2. IsFiniteSet({k}) /\ Cardinality({k}) = 1
        BY FS_Singleton
      <4>3. IsFiniteSet(Joining') /\ Cardinality(Joining') <= 1
        BY <4>1, <4>2, FS_Subset
      <4>4. Cardinality(Joining') \in Nat
        BY <4>3, FS_CardinalityType
      <4> QED BY <3>1, <4>3, <4>4 DEF Together
    <3>2. CASE ~limits.serial
      <4>1. Joining' \subseteq Call
        BY DEF Joining
      <4> QED BY <3>2, <4>1, CallAssumption, FS_Subset, FS_CardinalityType DEF Together
    <3> QED BY <3>1, <3>2
  <2>5. Together' = Together
    BY <1>0 DEF Together
  <2>6. Fit(tenant.plan)'
    BY <2>1, <2>2, <2>3, <2>4, <2>5 DEF Fit
  <2> QED BY <2>1, <2>2, <2>6 DEF TeamInv
<1>5. ASSUME NEW k \in Call, TeamUpdateWrite(k) \/ TeamRemoveWrite(k)
      PROVE  TeamInv'
  <2>1. /\ ~At(k, "join")' /\ \A j \in Call \ {k} : call'[j] = call[j]
        /\ UNCHANGED <<tenant, held>>
    BY <1>5, SilentType DEF TeamUpdateWrite, TeamRemoveWrite, At, End, TypeOK
  <2>2. /\ ActiveUsers' \subseteq ActiveUsers \cup {call[k].user}
        /\ Grown' \subseteq Grown
    <3>1. CASE TeamRemoveWrite(k)
      BY <3>1 DEF TeamRemoveWrite, ActiveUsers, Grown, TypeOK
    <3>2. CASE TeamUpdateWrite(k) /\ call[k].on
      <4>1. \A x \in User \ {call[k].user} : users'[x] = users[x]
        BY <3>2 DEF TeamUpdateWrite, TypeOK
      <4>2. revived' = revived \cup {v \in User : v = call[k].user /\ users[v] # "active"}
        BY <3>2 DEF TeamUpdateWrite
      <4> QED BY <4>1, <4>2 DEF ActiveUsers, Grown
    <3>3. CASE TeamUpdateWrite(k) /\ ~call[k].on
      <4>1. \A x \in User : users'[x] = "active" => x # call[k].user /\ users[x] = "active"
        BY <3>3 DEF TeamUpdateWrite, TypeOK
      <4>2. revived' = revived \ {call[k].user}
        BY <3>3 DEF TeamUpdateWrite
      <4> QED BY <4>1, <4>2 DEF ActiveUsers, Grown
    <3> QED BY <1>5, <3>1, <3>2, <3>3
  <2>3. IsFiniteSet(ActiveUsers)'
    <3>1. \A x : IsFiniteSet(ActiveUsers \cup {x})
      BY FS_AddElement DEF TeamInv
    <3> QED BY <2>2, <3>1, FS_Subset
  <2> QED BY <1>0, <1>2, <2>1, <2>2, <2>3, FewerFit DEF TeamInv
<1>6. ASSUME NEW k \in Call, Step(k) \/ Dies(k), ~TeamCreateInsert(k),
             ~TeamUpdateWrite(k), ~TeamRemoveWrite(k)
      PROVE  TeamInv'
  <2>1. End(k) \/ \E l \in {"free", "freeSub", "mark", "closeSub", "closeTenant", "close",
                             "actSub", "ack", "endTenant"} : Goto(k, l)
    BY <1>6 DEF Step, Dies, DowngradeStop, DowngradeTenant, DowngradeSub, CancelStripe,
         CancelMark, DeleteStop, DeleteSub, DeleteTenant, DeleteTx, ActivateTenant, ActivateSub,
         SubscriptionUpdated, SubscriptionDeleted, EndTenant, PaymentFailed, Ack
  <2>2. ~At(k, "join")' /\ \A j \in Call \ {k} : call'[j] = call[j]
    BY <2>1, SilentType DEF End, Goto, At, TypeOK
  <2>3. /\ \A u \in User : users'[u] = "active" => users[u] = "active"
        /\ revived' = revived
    BY <1>6 DEF Step, Dies, DowngradeStop, DowngradeTenant, DowngradeSub, CancelStripe,
         CancelMark, DeleteStop, DeleteSub, DeleteTenant, DeleteTx, ActivateTenant, ActivateSub,
         SubscriptionUpdated, SubscriptionDeleted, EndTenant, PaymentFailed, Ack, rows, TypeOK
  <2>4. ActiveUsers' \subseteq ActiveUsers /\ Grown' \subseteq Grown
    BY <2>3 DEF ActiveUsers, Grown
  <2>5. held \subseteq held' /\ tenant'.plan \in held'
    <3>1. CASE DeleteTx(k)
      BY <3>1 DEF DeleteTx, TeamInv, TypeOK
    <3>2. CASE \E p \in PlanCode : SetPlan(p)
      BY <3>2 DEF SetPlan, TypeOK
    <3>3. CASE UNCHANGED <<tenant, held>>
      BY <3>3 DEF TeamInv
    <3>4. "STARTER" \in PlanCode /\ stripe[call[k].event.sid].plan \in PlanCode
      BY DEF PlanCode, Event, StripeSub, TypeOK
    <3> QED BY <1>6, <3>1, <3>2, <3>3, <3>4 DEF Step, Dies, DowngradeStop, DowngradeTenant,
         DowngradeSub, CancelStripe, CancelMark, DeleteStop, DeleteSub, DeleteTenant,
         ActivateTenant, ActivateSub, SubscriptionUpdated, SubscriptionDeleted, EndTenant,
         PaymentFailed, Ack, rows
  <2>6. IsFiniteSet(ActiveUsers)'
    BY <2>4, FS_Subset DEF TeamInv
  <2> QED BY <1>0, <1>2, <2>2, <2>4, <2>5, <2>6, FewerFit
<1>7. ASSUME NEW k \in Call,
             \/ DowngradeRead(k) \/ CancelRead(k) \/ DeleteRead(k)
             \/ \E p \in PlanCode : Checkout(k, p)
             \/ \E u \in User : TeamRemoveRead(k, u) \/ \E on \in BOOLEAN : TeamUpdateRead(k, u, on)
             \/ \E i \in DOMAIN events : Deliver(k, i)
      PROVE  TeamInv'
  <2>1. /\ UNCHANGED <<tenant, held, users, revived>>
        /\ \A j \in Call \ {k} : call'[j] = call[j]
    BY <1>7 DEF DowngradeRead, CancelRead, DeleteRead, Checkout, TeamRemoveRead, TeamUpdateRead,
         Deliver, Request, rows, TypeOK
  <2>2. ~At(k, "join")'
    <3>1. CASE DowngradeRead(k) \/ CancelRead(k) \/ DeleteRead(k)
      <4>1. \A l \in Steps : [Silent EXCEPT !.sid = sub.sid, !.pc = l].pc = l
        BY SilentType DEF Handler
      <4> QED BY <3>1, <4>1 DEF DowngradeRead, CancelRead, DeleteRead, Request, At, Steps, TypeOK
    <3>2. ASSUME NEW p \in PlanCode, Checkout(k, p) PROVE ~At(k, "join")'
      BY <3>2, SilentType DEF Checkout, Request, At, TypeOK
    <3>3. ASSUME NEW u \in User, TeamRemoveRead(k, u) PROVE ~At(k, "join")'
      <4>1. [Silent EXCEPT !.pc = "drop", !.user = u].pc = "drop"
        BY SilentType DEF Handler
      <4> QED BY <3>3, <4>1 DEF TeamRemoveRead, Request, At, TypeOK
    <3>5. ASSUME NEW u \in User, NEW on \in BOOLEAN, TeamUpdateRead(k, u, on)
          PROVE  ~At(k, "join")'
      <4>1. [Silent EXCEPT !.pc = "set", !.user = u, !.on = on].pc = "set"
        BY SilentType DEF Handler
      <4> QED BY <3>5, <4>1 DEF TeamUpdateRead, Request, At, TypeOK
    <3>4. ASSUME NEW i \in DOMAIN events, Deliver(k, i) PROVE ~At(k, "join")'
      <4>1. events[i] \in Event
        BY ElementOfSeq, LenProperties DEF TypeOK
      <4>2. PICK l \in {"actTenant", "updated", "deleted", "pastDue"} :
              call' = [call EXCEPT ![k] = [Silent EXCEPT !.event = events[i], !.pc = l]]
        BY <3>4, <4>1 DEF Deliver, Event
      <4>3. [Silent EXCEPT !.event = events[i], !.pc = l].pc = l
        BY SilentType DEF Handler
      <4> QED BY <4>2, <4>3 DEF At, TypeOK
    <3> QED BY <1>7, <3>1, <3>2, <3>3, <3>4, <3>5
  <2>3. ActiveUsers' = ActiveUsers /\ Grown' = Grown /\ tenant'.plan \in held'
    BY <2>1 DEF ActiveUsers, Grown, TeamInv
  <2> QED BY <1>0, <1>2, <2>1, <2>2, <2>3, FewerFit DEF TeamInv
<1>8. ASSUME NEW s \in Sid,
             Pay(s) \/ PeriodEnds(s) \/ PaymentFails(s) \/ Pauses(s) \/ PaymentRecovers(s) \/ GivesUp(s)
      PROVE  TeamInv'
  BY <1>1, <1>8 DEF Pay, PeriodEnds, PaymentFails, Pauses, PaymentRecovers, GivesUp, StripeStep, rows
<1>9. CASE UNCHANGED vars
  BY <1>1, <1>9 DEF vars
<1> QED BY <1>3, <1>4, <1>5, <1>6, <1>7, <1>8, <1>9 DEF Next

\* However requests interleave, a team outgrows the plans its tenant has had by those made
\* active again and by the creations that counted together (one too many for each
\* handler but one), and by nothing else: TeamService.create counts and inserts with no
\* lock, update asks no plan.
THEOREM TeamFits == Spec => []TeamWithinPlans
<1> DEFINE Inv == TypeInv /\ TeamInv
<1>1. Init => Inv
  <2> SUFFICES ASSUME Init PROVE TeamInv
    BY TenantTypesInit
  <2>1. Joining = {}
    BY SilentType DEF Init, At, Joining
  <2>2. ActiveUsers = {Owner} /\ Grown = {Owner}
    BY UserAssumption DEF Init, ActiveUsers, Grown
  <2>3. IsFiniteSet(ActiveUsers) /\ Cardinality(Grown) = 1 /\ Cardinality(Joining) = 0
    BY <2>1, <2>2, FS_Singleton, FS_EmptySet
  <2>4. tenant.plan = "STARTER" /\ held = {"STARTER"} /\ maxProfessionals["STARTER"] = 1
    BY DEF Init, maxProfessionals, PlanCode
  <2>5. Together \in Nat /\ Together >= 1
    BY <2>3, TeamSizes
  <2> QED BY <2>3, <2>4, <2>5 DEF TeamInv, Fit
<1>2. Inv /\ [Next]_vars => Inv'
  BY TypeStep, AimedStep, TeamStep DEF TypeInv
<1>3. Inv => TeamWithinPlans
  <2> SUFFICES ASSUME Inv PROVE TeamWithinPlans
    OBVIOUS
  <2>1. /\ Cardinality(Grown) \in Nat /\ Cardinality(Joining) \in Nat /\ Together \in Nat
        /\ \A p \in PlanCode : maxProfessionals[p] \in Nat
    BY TeamSizes DEF TeamInv
  <2>2. PICK p \in held : Fit(p)
    BY DEF TeamInv
  <2>3. maxProfessionals[p] \in Nat
    BY <2>1 DEF TypeInv, TypeOK
  <2>4. (IF limits.serial THEN 0 ELSE Cardinality(Call) - 1) = Together - 1
    BY DEF Together
  <2>5. Cardinality(Grown) <= maxProfessionals[p] + (Together - 1)
    BY <2>1, <2>2, <2>3 DEF Fit
  <2> QED BY <2>4, <2>5 DEF TeamWithinPlans, Grown
<1> QED BY <1>1, <1>2, <1>3, PTL DEF Spec

--------------------------------------------------------------------------------
(* Stripe's events, handled one at a time and in order.                    *)

Bought(s) == \E i \in DOMAIN events : events[i].type = "completed" /\ events[i].sid = s
Over(s) == \E i \in DOMAIN events : events[i].status = "CANCELED" /\ events[i].sid = s

\* What an event says of its session.
Truthful(e) ==
  /\ e.type = "completed" => e.status = "ACTIVE"
  /\ e.type = "deleted" => e.status = "CANCELED"
  /\ e.type = "payment_failed" => e.status = "PAST_DUE"
  /\ e.status = "CANCELED" => stripe[e.sid].status = "canceled"
  /\ stripe[e.sid].status \notin {"none", "open"}

\* A handler of an event has the oldest before it; a purchase comes before all that
\* happens to it; what is bought and ended is still to end.
QueueInv ==
  /\ Lone
  /\ \A k \in Call : call[k].pc \in EventSteps => events # <<>> /\ events[1] = call[k].event
  /\ \A i \in DOMAIN events : Truthful(events[i])
  /\ \A i, j \in DOMAIN events :
       i < j /\ events[j].type = "completed" => events[i].sid # events[j].sid
  /\ \A s \in Sid : Bought(s) /\ stripe[s].status = "canceled" => Over(s)

\* The events that join the queue are about one session, which the step changes.
Moved(s) ==
  /\ stripe[s].status \in {"open", "active", "past_due"}
  /\ stripe'[s].status \in {"active", "past_due", "canceled"}
  /\ stripe'[s].plan = stripe[s].plan
  /\ \A t \in Sid \ {s} : stripe'[t] = stripe[t]
  /\ Len(events) \in Nat /\ Len(events') \in Nat /\ Len(events) < Len(events')
  /\ \A i \in 1 .. Len(events) : events'[i] = events[i]
  /\ \A i \in Len(events) + 1 .. Len(events') :
       /\ events'[i].sid = s /\ Truthful(events[i])'
       /\ events'[i].type = "completed" =>
            i = Len(events) + 1 /\ stripe[s].status = "open"
  /\ stripe'[s].status = "canceled" => Over(s)'
  /\ stripe[s].status = "open" => Bought(s)'

\* A new session is opened, for a paid plan; without upgrades, when all others are over.
Opened(s) ==
  /\ stripe[s].status = "none" /\ stripe'[s].status = "open" /\ stripe'[s].plan # "STARTER"
  /\ \A t \in Sid : t < s => stripe[t].status # "none"
  /\ "upgrade" \notin limits.ops => \A t \in Sid : stripe[t].status \in {"none", "canceled"}
  /\ \A t \in Sid \ {s} : stripe'[t] = stripe[t]
  /\ UNCHANGED events

\* One event is told.
LEMMA TellOne ==
  ASSUME events \in Seq(Event), NEW e \in Event, Tell(<<e>>)
  PROVE  /\ Len(events) \in Nat /\ Len(events') = Len(events) + 1
         /\ \A i \in 1 .. Len(events) : events'[i] = events[i]
         /\ events'[Len(events) + 1] = e
<1>1. <<e>> \in Seq(Event) /\ Len(<<e>>) = 1 /\ <<e>>[1] = e
  BY OneEvent
<1>2. events' = events \o <<e>>
  BY DEF Tell
<1> QED BY <1>1, <1>2, ConcatProperties, LenProperties

\* A session moves and one event says how.
LEMMA MovedByOne ==
  ASSUME TypeOK, TypeOK', NEW s \in Sid, NEW e \in Event, e.sid = s, Tell(<<e>>),
         stripe[s].status \in {"open", "active", "past_due"},
         stripe'[s].status \in {"active", "past_due", "canceled"},
         stripe'[s].plan = stripe[s].plan,
         \A t \in Sid \ {s} : stripe'[t] = stripe[t],
         e.type = "completed" => e.status = "ACTIVE",
         e.type = "completed" <=> stripe[s].status = "open",
         e.type = "deleted" => e.status = "CANCELED",
         e.type # "payment_failed",
         e.status = "CANCELED" <=> stripe'[s].status = "canceled"
  PROVE  Moved(s)
<1> DEFINE n == Len(events)
<1>1. /\ n \in Nat /\ Len(events') = n + 1
      /\ \A i \in 1 .. n : events'[i] = events[i]
      /\ events'[n + 1] = e
  BY TellOne DEF TypeOK
<1>2. Truthful(e)'
  BY DEF Truthful
<1>3. n + 1 \in DOMAIN events'
  BY <1>1, LenProperties DEF TypeOK
<1> HIDE DEF n
<1>4. \A i \in n + 1 .. Len(events') : i = n + 1 /\ events'[i] = e
  BY <1>1
<1>5. /\ stripe'[s].status = "canceled" => Over(s)'
      /\ stripe[s].status = "open" => Bought(s)'
  BY <1>1, <1>3 DEF Over, Bought
<1>6. \A i \in n + 1 .. Len(events') :
        /\ events'[i].sid = s /\ Truthful(events[i])'
        /\ events'[i].type = "completed" => i = n + 1 /\ stripe[s].status = "open"
  BY <1>2, <1>4 DEF Truthful
<1> QED BY <1>1, <1>5, <1>6 DEF Moved, n

\* Stripe's cancellation moves a session.
LEMMA CancelMoves ==
  ASSUME TypeOK, TypeOK', NEW s \in Sid, CancelNow(s)
  PROVE  Moved(s) /\ stripe'[s].status = "canceled"
<1> DEFINE e == EventOf("deleted", s, "CANCELED", FALSE)
<1>1. /\ e \in Event /\ e.sid = s /\ e.type = "deleted" /\ e.status = "CANCELED"
  BY DEF EventOf, Event, SubscriptionStatus
<1>2. /\ stripe[s].status \in {"active", "past_due"} /\ stripe'[s].status = "canceled"
      /\ stripe'[s].plan = stripe[s].plan
      /\ \A t \in Sid \ {s} : stripe'[t] = stripe[t]
  BY DEF CancelNow, Charged, TypeOK, StripeSub
<1>3. Tell(<<e>>)
  BY DEF CancelNow
<1> HIDE DEF e
<1> QED BY <1>1, <1>2, <1>3, MovedByOne

\* So does a change at the end of the period, without ending it.
LEMMA EndingMoves ==
  ASSUME TypeOK, TypeOK', NEW k \in Call, NEW s \in Sid, s = call[k].sid, CancelStripe(k),
         ~UNCHANGED <<stripe, events>>
  PROVE  Moved(s) /\ stripe'[s].status = stripe[s].status
<1> DEFINE e == EventOf("updated", s, IF stripe[s].status = "active" THEN "ACTIVE"
                                      ELSE "PAST_DUE", TRUE)
<1>1. /\ e \in Event /\ e.sid = s /\ e.type = "updated" /\ e.status # "CANCELED"
  BY DEF EventOf, Event, SubscriptionStatus
<1>0. Charged(s) /\ stripe' = [stripe EXCEPT ![s].ending = TRUE] /\ Tell(<<e>>)
  BY DEF CancelStripe
<1>2. /\ stripe[s].status \in {"active", "past_due"} /\ stripe'[s].status = stripe[s].status
      /\ stripe'[s].plan = stripe[s].plan
      /\ \A t \in Sid \ {s} : stripe'[t] = stripe[t]
  BY <1>0 DEF Charged, TypeOK, StripeSub
<1> HIDE DEF e
<1> QED BY <1>0, <1>1, <1>2, MovedByOne

\* Stripe's own steps.
LEMMA StripeMoves ==
  ASSUME TypeOK, TypeOK', NEW s \in Sid,
         Pay(s) \/ PeriodEnds(s) \/ PaymentFails(s) \/ Pauses(s) \/ PaymentRecovers(s) \/ GivesUp(s)
  PROVE  Moved(s) /\ UNCHANGED <<rows, call, limits, faults>>
<1>0. UNCHANGED <<rows, call, limits, faults>>
  BY DEF Pay, PeriodEnds, PaymentFails, Pauses, PaymentRecovers, GivesUp, StripeStep, static
<1> SUFFICES Moved(s)
  BY <1>0
<1>1. ASSUME NEW from \in {"open", "active", "past_due"},
             NEW to \in {"active", "canceled", "past_due"}, NEW es, StripeStep(s, from, to, es)
      PROVE  /\ stripe[s].status = from /\ stripe'[s].status = to
             /\ stripe'[s].plan = stripe[s].plan
             /\ \A t \in Sid \ {s} : stripe'[t] = stripe[t]
             /\ Tell(es)
  BY <1>1 DEF StripeStep, TypeOK, StripeSub
<1>2. ASSUME NEW from \in {"open", "active", "past_due"},
             NEW to \in {"active", "canceled", "past_due"},
             NEW e \in Event, StripeStep(s, from, to, <<e>>), e.sid = s,
             e.type = "completed" => e.status = "ACTIVE", e.type = "completed" <=> from = "open",
             e.type = "deleted" => e.status = "CANCELED",
             e.type # "payment_failed", e.status = "CANCELED" <=> to = "canceled"
      PROVE  Moved(s)
  BY <1>1, <1>2, MovedByOne
<1>3. \A type \in {"completed", "updated", "deleted", "payment_failed"},
         st \in SubscriptionStatus, b \in BOOLEAN :
           LET e == EventOf(type, s, st, b) IN
           e \in Event /\ e.type = type /\ e.status = st /\ e.sid = s
  BY DEF EventOf, Event
<1>4. stripe[s].ending \in BOOLEAN /\ {"ACTIVE", "CANCELED", "PAST_DUE"} \subseteq SubscriptionStatus
  BY DEF TypeOK, StripeSub, SubscriptionStatus
<1>5. CASE Pay(s)
  <2> DEFINE e == EventOf("completed", s, "ACTIVE", FALSE)
  <2>1. e \in Event /\ e.type = "completed" /\ e.status = "ACTIVE" /\ e.sid = s
    BY <1>4 DEF EventOf, Event
  <2>2. StripeStep(s, "open", "active", <<e>>)
    BY <1>5 DEF Pay
  <2> HIDE DEF e
  <2> QED BY <1>2, <2>1, <2>2
<1>6. CASE PeriodEnds(s)
  <2> DEFINE e == EventOf("deleted", s, "CANCELED", FALSE)
  <2>1. e \in Event /\ e.type = "deleted" /\ e.status = "CANCELED" /\ e.sid = s
    BY <1>4 DEF EventOf, Event
  <2>2. StripeStep(s, "active", "canceled", <<e>>)
    BY <1>6 DEF PeriodEnds
  <2> HIDE DEF e
  <2> QED BY <1>2, <2>1, <2>2
<1>7. CASE PaymentRecovers(s)
  <2> DEFINE e == EventOf("updated", s, "ACTIVE", stripe[s].ending)
  <2>1. e \in Event /\ e.type = "updated" /\ e.status = "ACTIVE" /\ e.sid = s
    BY <1>4 DEF EventOf, Event
  <2>2. StripeStep(s, "past_due", "active", <<e>>)
    BY <1>7 DEF PaymentRecovers
  <2> HIDE DEF e
  <2> QED BY <1>2, <2>1, <2>2
<1>10. CASE Pauses(s)
  <2> DEFINE e == EventOf("updated", s, "INCOMPLETE", stripe[s].ending)
  <2>1. e \in Event /\ e.type = "updated" /\ e.status = "INCOMPLETE" /\ e.sid = s
    BY <1>4 DEF EventOf, Event, SubscriptionStatus
  <2>2. StripeStep(s, "active", "past_due", <<e>>)
    BY <1>10 DEF Pauses
  <2> HIDE DEF e
  <2> QED BY <1>2, <2>1, <2>2
<1>8. CASE GivesUp(s)
  <2>0. PICK type \in {"updated", "deleted"} :
          StripeStep(s, "past_due", "canceled", <<EventOf(type, s, "CANCELED", FALSE)>>)
    BY <1>8 DEF GivesUp
  <2> DEFINE e == EventOf(type, s, "CANCELED", FALSE)
  <2>1. e \in Event /\ e.type \in {"updated", "deleted"} /\ e.status = "CANCELED" /\ e.sid = s
    BY <1>4 DEF EventOf, Event
  <2>2. StripeStep(s, "past_due", "canceled", <<e>>)
    BY <2>0
  <2> HIDE DEF e
  <2> QED BY <1>2, <2>1, <2>2
<1>9. CASE PaymentFails(s)
  <2> DEFINE n == Len(events)
             e1 == EventOf("payment_failed", s, "PAST_DUE", stripe[s].ending)
             e2 == EventOf("updated", s, "PAST_DUE", stripe[s].ending)
  <2>1. /\ stripe[s].status = "active" /\ stripe'[s].status = "past_due"
        /\ stripe'[s].plan = stripe[s].plan
        /\ \A t \in Sid \ {s} : stripe'[t] = stripe[t]
        /\ Tell(<<e1, e2>>)
    BY <1>1, <1>9 DEF PaymentFails
  <2>2. /\ e1 \in Event /\ e1.sid = s /\ e1.type = "payment_failed" /\ e1.status = "PAST_DUE"
        /\ e2 \in Event /\ e2.sid = s /\ e2.type = "updated" /\ e2.status = "PAST_DUE"
    BY <1>3, <1>4
  <2> HIDE DEF e1, e2
  <2>3. /\ n \in Nat /\ Len(events') = n + 2
        /\ \A i \in 1 .. n : events'[i] = events[i]
        /\ events'[n + 1] = e1 /\ events'[n + 2] = e2
    <3>1. <<e1, e2>> \in Seq(Event) /\ Len(<<e1, e2>>) = 2 /\ <<e1, e2>>[1] = e1 /\ <<e1, e2>>[2] = e2
      BY <2>2
    <3>2. events' = events \o <<e1, e2>> /\ events \in Seq(Event)
      BY <2>1 DEF Tell, TypeOK
    <3> QED BY <3>1, <3>2, ConcatProperties, LenProperties
  <2>4. stripe'[s].status \notin {"none", "open", "canceled"}
    BY <2>1
  <2> HIDE DEF n
  <2>5. \A i \in n + 1 .. Len(events') :
          events'[i].sid = s /\ Truthful(events[i])' /\ events'[i].type # "completed"
    <3> SUFFICES ASSUME NEW i \in n + 1 .. Len(events')
                 PROVE  events'[i].sid = s /\ Truthful(events[i])' /\ events'[i].type # "completed"
      OBVIOUS
    <3>1. events'[i] = e1 \/ events'[i] = e2
      BY <2>3
    <3> QED BY <2>2, <2>4, <3>1 DEF Truthful
  <2>6. /\ Len(events) \in Nat /\ Len(events') \in Nat /\ Len(events) < Len(events')
        /\ \A i \in 1 .. Len(events) : events'[i] = events[i]
    BY <2>3 DEF n
  <2>7. \A i \in Len(events) + 1 .. Len(events') :
          events'[i].sid = s /\ Truthful(events[i])' /\ events'[i].type # "completed"
    BY <2>5 DEF n
  <2>8. /\ stripe[s].status \in {"open", "active", "past_due"}
        /\ stripe'[s].status \in {"active", "past_due", "canceled"}
        /\ stripe'[s].status # "canceled"
    BY <2>1
  <2> QED BY <2>1, <2>6, <2>7, <2>8 DEF Moved
<1> QED BY <1>5, <1>6, <1>7, <1>8, <1>9, <1>10

\* What Stripe holds and the queue change together, or an answer takes an event away.
LEMMA LedgerMoves ==
  ASSUME TypeInv, TypeOK', [Next]_vars
  PROVE  \/ UNCHANGED <<stripe, events>>
         \/ \E s \in Sid : Moved(s) \/ Opened(s)
         \/ \E k \in Call : Ack(k)
<1> USE DEF TypeInv
<1>1. ASSUME NEW k \in Call, DowngradeStop(k) \/ CancelStripe(k) \/ DeleteStop(k)
      PROVE  UNCHANGED <<stripe, events>> \/ \E s \in Sid : Moved(s)
  <2>1. call[k].sid \in Sid
    BY <1>1 DEF TypeOK, Aimed, DowngradeStop, CancelStripe, DeleteStop, At
  <2> QED BY <1>1, <2>1, CancelMoves, EndingMoves DEF DowngradeStop, DeleteStop
<1>2. ASSUME NEW k \in Call, NEW p \in PlanCode, Checkout(k, p)
      PROVE  \E s \in Sid : Opened(s)
  <2>1. PICK s \in Sid :
          /\ stripe[s].status = "none" /\ UNCHANGED events /\ p # "STARTER"
          /\ \A t \in Sid : t < s => stripe[t].status # "none"
          /\ "upgrade" \notin limits.ops => \A t \in Sid : stripe[t].status \in {"none", "canceled"}
          /\ stripe' = [stripe EXCEPT ![s] = [status |-> "open", plan |-> p, ending |-> FALSE]]
    BY <1>2 DEF Checkout
  <2> QED BY <2>1 DEF Opened, TypeOK
<1>3. ASSUME NEW s \in Sid,
             Pay(s) \/ PeriodEnds(s) \/ PaymentFails(s) \/ Pauses(s) \/ PaymentRecovers(s) \/ GivesUp(s)
      PROVE  Moved(s)
  BY <1>3, StripeMoves
<1>4. ASSUME NEW k \in Call,
             \/ DowngradeRead(k) \/ CancelRead(k) \/ DeleteRead(k) \/ Dies(k)
             \/ \E u \in User : \/ TeamCreateRead(k, u) \/ TeamRemoveRead(k, u)
                               \/ \E on \in BOOLEAN : TeamUpdateRead(k, u, on)
             \/ \E i \in DOMAIN events : Deliver(k, i)
      PROVE  UNCHANGED <<stripe, events>>
  BY <1>4 DEF DowngradeRead, CancelRead, DeleteRead, Dies, TeamCreateRead, TeamRemoveRead,
       TeamUpdateRead, Deliver
<1>5. ASSUME NEW k \in Call, Step(k)
      PROVE  \/ UNCHANGED <<stripe, events>>
             \/ \E s \in Sid : Moved(s)
             \/ Ack(k)
  BY <1>1, <1>5 DEF Step, DowngradeTenant, DowngradeSub, CancelMark, DeleteSub, DeleteTenant,
       DeleteTx, TeamCreateInsert, TeamUpdateWrite, TeamRemoveWrite, ActivateTenant,
       ActivateSub, SubscriptionUpdated, SubscriptionDeleted, EndTenant, PaymentFailed
<1>6. CASE UNCHANGED vars
  BY <1>6 DEF vars
<1> QED BY <1>2, <1>3, <1>4, <1>5, <1>6 DEF Next

\* What remains when an element is taken out of a sequence keeps its order.
LEMMA RemoveOne ==
  ASSUME NEW S, NEW q \in Seq(S), NEW i \in 1 .. Len(q)
  PROVE  /\ Len(q) \in Nat /\ Len(RemoveAt(q, i)) = Len(q) - 1
         /\ \A j \in 1 .. Len(q) - 1 : RemoveAt(q, i)[j] = IF j < i THEN q[j] ELSE q[j + 1]
<1> DEFINE a == SubSeq(q, 1, i - 1)
           b == SubSeq(q, i + 1, Len(q))
<1>1. Len(q) \in Nat /\ i \in Nat /\ 1 <= i /\ i <= Len(q)
  BY LenProperties
<1>2. /\ a \in Seq(S) /\ Len(a) = i - 1 /\ \A j \in 1 .. i - 1 : a[j] = q[j]
  BY <1>1, SubSeqProperties
<1>3. /\ b \in Seq(S) /\ Len(b) = Len(q) - i
      /\ \A j \in 1 .. Len(q) - i : b[j] = q[i + j]
  BY <1>1, SubSeqProperties
<1>4. RemoveAt(q, i) = a \o b
  BY DEF RemoveAt
<1> HIDE DEF a, b
<1>5. /\ Len(a \o b) = Len(q) - 1
      /\ \A j \in 1 .. Len(q) - 1 : (a \o b)[j] = IF j <= i - 1 THEN a[j] ELSE b[j - (i - 1)]
  <2>1. /\ Len(a \o b) = Len(a) + Len(b)
        /\ \A j \in 1 .. Len(a) + Len(b) : (a \o b)[j] = IF j <= Len(a) THEN a[j] ELSE b[j - Len(a)]
    BY <1>2, <1>3, ConcatProperties
  <2>2. Len(a) + Len(b) = Len(q) - 1
    BY <1>1, <1>2, <1>3
  <2> QED BY <1>2, <2>1, <2>2
<1>6. ASSUME NEW j \in 1 .. Len(q) - 1
      PROVE  (a \o b)[j] = IF j < i THEN q[j] ELSE q[j + 1]
  <2>1. CASE j < i
    BY <1>1, <1>2, <1>5, <2>1
  <2>2. CASE ~(j < i)
    <3>1. j - (i - 1) \in 1 .. Len(q) - i /\ i + (j - (i - 1)) = j + 1
      BY <1>1, <2>2
    <3> QED BY <1>1, <1>3, <1>5, <2>2, <3>1
  <2> QED BY <2>1, <2>2
<1> QED BY <1>1, <1>4, <1>5, <1>6

\* An answer takes one event away, the one the handler had, and leaves the others in order.
LEMMA AckMoves ==
  ASSUME TypeOK, NEW k \in Call, Ack(k), events # <<>>, events[1] = call[k].event
  PROVE  /\ \A i, j \in DOMAIN events' : i < j =>
              \E m, n \in DOMAIN events : m < n /\ events'[i] = events[m] /\ events'[j] = events[n]
         /\ \A i \in DOMAIN events' : \E m \in DOMAIN events : events'[i] = events[m]
         /\ \A m \in DOMAIN events : events[m] # call[k].event =>
              \E i \in DOMAIN events' : events'[i] = events[m]
         /\ \E r \in DOMAIN events : events[r] = call[k].event
              /\ \A i \in DOMAIN events' : \E m \in DOMAIN events \ {r} : events'[i] = events[m]
<1>0. events \in Seq(Event) /\ events' \in Seq(Event) /\ Len(events) \in Nat
  BY AckType, LenProperties DEF TypeOK
<1>1. DOMAIN events = 1 .. Len(events) /\ DOMAIN events' = 1 .. Len(events') /\ 1 \in DOMAIN events
  BY <1>0, EmptySeq, LenProperties
<1>2. PICK r \in DOMAIN events : events' = RemoveAt(events, r) /\ events[r] = call[k].event
  BY <1>1 DEF Ack
<1>3. /\ Len(events') = Len(events) - 1
      /\ \A j \in 1 .. Len(events) - 1 : events'[j] = IF j < r THEN events[j] ELSE events[j + 1]
  BY <1>0, <1>1, <1>2, RemoveOne
<1> DEFINE from(j) == IF j < r THEN j ELSE j + 1
<1>4. /\ \A j \in DOMAIN events' : from(j) \in DOMAIN events \ {r} /\ events'[j] = events[from(j)]
      /\ \A i, j \in DOMAIN events' : i < j => from(i) < from(j)
  BY <1>0, <1>1, <1>3
<1>5. ASSUME NEW m \in DOMAIN events, events[m] # call[k].event
      PROVE  \E i \in DOMAIN events' : events'[i] = events[m]
  <2>1. m # r
    BY <1>2, <1>5
  <2>2. CASE m < r
    BY <1>0, <1>1, <1>3, <2>2
  <2>3. CASE m > r
    <3>1. m - 1 \in DOMAIN events' /\ ~(m - 1 < r) /\ (m - 1) + 1 = m
      BY <1>0, <1>1, <1>3, <2>3
    <3> QED BY <1>0, <1>1, <1>3, <3>1
  <2> QED BY <1>1, <2>1, <2>2, <2>3
<1> HIDE DEF from
<1> QED BY <1>2, <1>4, <1>5

\* A handler keeps its event until it ends, and only an answer takes one away.
LEMMA HandlerMoves ==
  ASSUME TypeInv, NEW k \in Call, Step(k)
  PROVE  /\ ~At(k, "idle")
         /\ \/ call'[k] = Silent
            \/ call'[k].event = call[k].event
               /\ (call'[k].pc \in EventSteps <=> call[k].pc \in EventSteps)
               /\ (call[k].pc \in EventSteps => UNCHANGED <<stripe, events>>)
<1> USE DEF TypeInv, TypeOK
<1>0. call \in [Call -> Handler]
  BY DEF Handler
<1>1. End(k) => call'[k] = Silent
  BY DEF End
<1>2. ASSUME NEW l \in Steps, Goto(k, l)
      PROVE  call'[k].event = call[k].event /\ call'[k].pc = l
  BY <1>0, <1>2 DEF Goto, Handler
<1>3. CASE \/ DowngradeStop(k) \/ DowngradeTenant(k) \/ DowngradeSub(k)
           \/ CancelStripe(k) \/ CancelMark(k)
           \/ DeleteStop(k) \/ DeleteSub(k) \/ DeleteTenant(k) \/ DeleteTx(k)
           \/ TeamCreateInsert(k) \/ TeamUpdateWrite(k) \/ TeamRemoveWrite(k)
  <2>1. /\ call[k].pc \notin EventSteps \cup {"idle"}
        /\ End(k) \/ \E l \in {"free", "freeSub", "mark", "closeSub", "closeTenant", "close"} :
                       Goto(k, l)
    BY <1>3 DEF DowngradeStop, DowngradeTenant, DowngradeSub, CancelStripe, CancelMark,
         DeleteStop, DeleteSub, DeleteTenant, DeleteTx, TeamCreateInsert, TeamUpdateWrite,
         TeamRemoveWrite, At, EventSteps
  <2> QED BY <1>1, <1>2, <2>1 DEF EventSteps, Steps, At
<1>4. CASE \/ ActivateTenant(k) \/ ActivateSub(k) \/ SubscriptionUpdated(k)
           \/ SubscriptionDeleted(k) \/ EndTenant(k) \/ PaymentFailed(k)
  <2>1. /\ call[k].pc \in EventSteps /\ UNCHANGED <<stripe, events>>
        /\ \E l \in {"actSub", "ack", "endTenant"} : Goto(k, l)
    BY <1>4 DEF ActivateTenant, ActivateSub, SubscriptionUpdated,
           SubscriptionDeleted, EndTenant, PaymentFailed, At, EventSteps
  <2> QED BY <1>2, <2>1 DEF EventSteps, Steps, At
<1>5. CASE Ack(k)
  BY <1>1, <1>5 DEF Ack, At
<1> QED BY <1>3, <1>4, <1>5 DEF Step

\* Deliveries come one at a time and in order, so a handler always has the oldest event.
LEMMA FacingStep ==
  ASSUME TypeInv, TypeInv', limits.serial, limits.ordered, QueueInv, [Next]_vars
  PROVE  \A k \in Call : call'[k].pc \in EventSteps => events' # <<>> /\ events'[1] = call'[k].event
<1> USE DEF TypeInv
<1> DEFINE Facing(k) == call[k].pc \in EventSteps => events # <<>> /\ events[1] = call[k].event
<1>a. call \in [Call -> Handler]
  BY DEF TypeOK, Handler
<1>0. Silent.pc \notin EventSteps /\ "idle" \notin EventSteps
  BY SilentType DEF EventSteps
<1>1. ASSUME NEW k \in Call, ~At(k, "idle") \/ Alone, \A j \in Call \ {k} : call'[j] = call[j]
      PROVE  \A j \in Call \ {k} : Facing(j)'
  <2>1. \A j \in Call \ {k} : call'[j].pc = "idle"
    BY <1>1 DEF QueueInv, Lone, Alone, At
  <2> QED BY <1>0, <2>1
<1>2. ASSUME NEW k \in Call, Step(k)
      PROVE  /\ Facing(k)' /\ ~At(k, "idle")
             /\ \A j \in Call \ {k} : call'[j] = call[j]
  <2>1. \A j \in Call \ {k} : call'[j] = call[j]
    BY <1>a, <1>2 DEF Step, DowngradeStop, DowngradeTenant, DowngradeSub, CancelStripe,
         CancelMark, DeleteStop, DeleteSub, DeleteTenant, DeleteTx, TeamCreateInsert,
         TeamUpdateWrite, TeamRemoveWrite, ActivateTenant, ActivateSub, SubscriptionUpdated,
         SubscriptionDeleted, EndTenant, PaymentFailed, Ack, Goto, End
  <2>2. Facing(k)'
    <3>1. Facing(k)
      BY DEF QueueInv
    <3> QED BY <1>0, <1>2, <3>1, HandlerMoves
  <2> QED BY <1>2, <2>1, <2>2, HandlerMoves
<1>3. ASSUME NEW k \in Call, Dies(k)
      PROVE  /\ Facing(k)' /\ ~At(k, "idle")
             /\ \A j \in Call \ {k} : call'[j] = call[j]
  BY <1>0, <1>3 DEF Dies, End, TypeOK
<1>4. ASSUME NEW k \in Call,
             \/ DowngradeRead(k) \/ CancelRead(k) \/ DeleteRead(k)
             \/ \E p \in PlanCode : Checkout(k, p)
             \/ \E u \in User : \/ TeamCreateRead(k, u) \/ TeamRemoveRead(k, u)
                               \/ \E on \in BOOLEAN : TeamUpdateRead(k, u, on)
      PROVE  /\ Facing(k)' /\ Alone
             /\ \A j \in Call \ {k} : call'[j] = call[j]
  <2>1. Alone /\ \A j \in Call \ {k} : call'[j] = call[j]
    BY <1>a, <1>4 DEF DowngradeRead, CancelRead, DeleteRead, Checkout, TeamCreateRead, TeamRemoveRead,
         TeamUpdateRead, Request
  <2>2. call'[k].pc \notin EventSteps
    <3>1. \A l \in Steps : \A x, b :
            /\ [Silent EXCEPT !.pc = l].pc = l
            /\ [Silent EXCEPT !.sid = x, !.pc = l].pc = l
            /\ [Silent EXCEPT !.pc = l, !.user = x].pc = l
            /\ [Silent EXCEPT !.pc = l, !.user = x, !.on = b].pc = l
      BY SilentType DEF Handler
    <3>2. call'[k].pc \in {"idle", "free", "stop", "mark", "end", "closeSub", "closeStop", "join",
                           "set", "drop"}
      <4>1. CASE DowngradeRead(k) \/ CancelRead(k) \/ DeleteRead(k)
        <5>1. \E l \in {"free", "stop", "mark", "end", "closeSub", "closeStop"} :
                call' = [call EXCEPT ![k] = [Silent EXCEPT !.sid = sub.sid, !.pc = l]]
          BY <4>1 DEF DowngradeRead, CancelRead, DeleteRead, Request
        <5> QED BY <1>a, <3>1, <5>1 DEF Steps
      <4>2. CASE \E p \in PlanCode : Checkout(k, p)
        BY <4>2, SilentType DEF Checkout, Request, TypeOK
      <4>3. ASSUME NEW u \in User, TeamCreateRead(k, u) \/ TeamRemoveRead(k, u)
            PROVE  call'[k].pc \in {"join", "drop"}
        <5>1. \E l \in {"join", "drop"} : call' = [call EXCEPT ![k] = [Silent EXCEPT !.pc = l, !.user = u]]
          BY <4>3 DEF TeamCreateRead, TeamRemoveRead, Request
        <5> QED BY <1>a, <3>1, <5>1 DEF Steps
      <4>4. ASSUME NEW u \in User, NEW on \in BOOLEAN, TeamUpdateRead(k, u, on)
            PROVE  call'[k].pc = "set"
        BY <1>a, <3>1, <4>4 DEF TeamUpdateRead, Request, Steps
      <4> QED BY <1>4, <4>1, <4>2, <4>3, <4>4
    <3> QED BY <3>2 DEF EventSteps
  <2> QED BY <2>1, <2>2
<1>5. ASSUME NEW k \in Call, NEW i \in DOMAIN events, Deliver(k, i)
      PROVE  /\ Facing(k)' /\ Alone
             /\ \A j \in Call \ {k} : call'[j] = call[j]
  <2>0. i = 1 /\ Alone /\ UNCHANGED events
    BY <1>5 DEF Deliver
  <2>1. PICK l : call' = [call EXCEPT ![k] = [Silent EXCEPT !.event = events[1], !.pc = l]]
    BY <1>5, <2>0 DEF Deliver
  <2>2. call'[k].event = events[1]
    <3>1. [Silent EXCEPT !.event = events[1], !.pc = l].event = events[1]
      BY SilentType DEF Handler
    <3> QED BY <1>a, <2>1, <3>1
  <2>3. events # <<>>
    BY EmptySeq
  <2> QED BY <1>a, <2>0, <2>1, <2>2, <2>3
<1>6. CASE UNCHANGED call
  <2>1. CASE UNCHANGED events
    BY <1>6, <2>1 DEF QueueInv
  <2>2. ASSUME NEW s \in Sid, Moved(s) PROVE \A k \in Call : Facing(k)'
    <3>1. events # <<>> => events' # <<>> /\ events'[1] = events[1]
      <4>1. events \in Seq(Event) /\ events' \in Seq(Event)
        BY DEF TypeOK
      <4>2. Len(events) > 0 /\ Len(events') > 0 => 1 \in 1 .. Len(events) /\ events' # <<>>
        BY <2>2, <4>1, EmptySeq DEF Moved
      <4> QED BY <2>2, <4>1, <4>2, EmptySeq DEF Moved
    <3> QED BY <1>6, <3>1 DEF QueueInv
  <2>3. \A k \in Call : ~Ack(k)
    BY <1>a, <1>0, <1>6, SilentType DEF Ack, End, At
  <2> QED BY <2>1, <2>2, <2>3, LedgerMoves DEF Opened
<1>7. ASSUME NEW s \in Sid,
             Pay(s) \/ PeriodEnds(s) \/ PaymentFails(s) \/ Pauses(s) \/ PaymentRecovers(s) \/ GivesUp(s)
      PROVE  UNCHANGED call
  BY <1>7, StripeMoves
<1>8. \A k \in Call : Facing(k)'
  BY <1>1, <1>2, <1>3, <1>4, <1>5, <1>6, <1>7 DEF Next, vars
<1> QED BY <1>8

\* A session that moved was nothing's purchase before, unless it was paid already.
LEMMA QueueMoved ==
  ASSUME TypeOK, TypeOK', QueueInv, NEW s \in Sid, Moved(s)
  PROVE  /\ \A i \in DOMAIN events' : Truthful(events[i])'
         /\ \A i, j \in DOMAIN events' :
              i < j /\ events'[j].type = "completed" => events'[i].sid # events'[j].sid
         /\ \A t \in Sid : Bought(t)' /\ stripe'[t].status = "canceled" => Over(t)'
<1> DEFINE n == Len(events)
           m == Len(events')
<1>1. /\ n \in Nat /\ m \in Nat /\ n < m /\ DOMAIN events = 1 .. n /\ DOMAIN events' = 1 .. m
  BY LenProperties DEF TypeOK, Moved
<1>2. \A i \in 1 .. n : events'[i] = events[i] /\ events[i] \in Event
  BY <1>1, ElementOfSeq DEF Moved, TypeOK
<1>3. \A i \in n + 1 .. m :
        events'[i].sid = s /\ (events'[i].type = "completed" => i = n + 1 /\ stripe[s].status = "open")
  BY DEF Moved
<1>b. ASSUME NEW i \in n + 1 .. m PROVE Truthful(events[i])'
  BY DEF Moved
<1>4. /\ stripe[s].status \in {"open", "active", "past_due"}
      /\ stripe'[s].status \in {"active", "past_due", "canceled"}
      /\ \A t \in Sid \ {s} : stripe'[t] = stripe[t]
      /\ stripe'[s].status = "canceled" => Over(s)'
  BY DEF Moved
<1>5. \A i \in 1 .. n : Truthful(events[i]) /\ events[i].sid \in Sid
  BY <1>1, <1>2 DEF QueueInv, Event
<1>6. ASSUME NEW i \in 1 .. n PROVE Truthful(events[i])'
  BY <1>2, <1>4, <1>5, <1>6 DEF Truthful
<1> HIDE DEF n, m
<1>7. \A i \in 1 .. m : Truthful(events[i])'
  <2> SUFFICES ASSUME NEW i \in 1 .. m PROVE Truthful(events[i])'
    OBVIOUS
  <2>1. CASE i \in 1 .. n
    BY <1>6, <2>1
  <2>2. CASE i \in n + 1 .. m
    BY <1>b, <2>2
  <2> QED BY <1>1, <2>1, <2>2
<1>8. ASSUME NEW i \in 1 .. m, NEW j \in 1 .. m, i < j, events'[j].type = "completed"
      PROVE  events'[i].sid # events'[j].sid
  <2>1. CASE j \in 1 .. n
    <3>1. i \in 1 .. n
      BY <1>1, <1>8, <2>1
    <3> QED BY <1>1, <1>2, <1>8, <2>1, <3>1 DEF QueueInv
  <2>2. CASE j \in n + 1 .. m
    <3>1. j = n + 1 /\ stripe[s].status = "open" /\ events'[j].sid = s
      BY <1>3, <1>8, <2>2
    <3>2. i \in 1 .. n
      BY <1>1, <1>8, <3>1
    <3> QED BY <1>2, <1>5, <3>1, <3>2 DEF Truthful
  <2> QED BY <1>1, <2>1, <2>2
<1>9. ASSUME NEW t \in Sid, Bought(t)', stripe'[t].status = "canceled" PROVE Over(t)'
  <2>1. CASE t = s
    BY <1>4, <1>9, <2>1
  <2>2. CASE t # s
    <3>1. stripe[t].status = "canceled"
      BY <1>4, <1>9, <2>2
    <3>2. PICK i \in 1 .. m : events'[i].type = "completed" /\ events'[i].sid = t
      BY <1>1, <1>9 DEF Bought
    <3>3. i \in 1 .. n
      BY <1>1, <1>3, <2>2, <3>2
    <3>4. Bought(t)
      BY <1>1, <1>2, <3>2, <3>3 DEF Bought
    <3>5. PICK j \in 1 .. n : events[j].status = "CANCELED" /\ events[j].sid = t
      BY <1>1, <3>1, <3>4 DEF QueueInv, Over
    <3>6. j \in DOMAIN events' /\ events'[j] = events[j]
      BY <1>1, <1>2, <3>5
    <3> QED BY <3>5, <3>6 DEF Over
  <2> QED BY <2>1, <2>2
<1> QED BY <1>1, <1>7, <1>8, <1>9

\* An answered end leaves no purchase of the same session behind it.
LEMMA QueueAnswered ==
  ASSUME TypeOK, TypeOK', QueueInv, NEW k \in Call, Ack(k)
  PROVE  /\ \A i \in DOMAIN events' : Truthful(events[i])'
         /\ \A i, j \in DOMAIN events' :
              i < j /\ events'[j].type = "completed" => events'[i].sid # events'[j].sid
         /\ \A t \in Sid : Bought(t)' /\ stripe'[t].status = "canceled" => Over(t)'
<1>1. events # <<>> /\ events[1] = call[k].event /\ UNCHANGED stripe
  BY DEF QueueInv, EventSteps, Ack, At
<1>2. /\ \A i, j \in DOMAIN events' : i < j =>
           \E m, n \in DOMAIN events : m < n /\ events'[i] = events[m] /\ events'[j] = events[n]
      /\ \A i \in DOMAIN events' : \E m \in DOMAIN events : events'[i] = events[m]
      /\ \A m \in DOMAIN events : events[m] # call[k].event =>
           \E i \in DOMAIN events' : events'[i] = events[m]
  BY <1>1, AckMoves
<1>3. \A i \in DOMAIN events' : Truthful(events[i])'
  BY <1>1, <1>2 DEF QueueInv, Truthful
<1>4. \A i, j \in DOMAIN events' :
        i < j /\ events'[j].type = "completed" => events'[i].sid # events'[j].sid
  BY <1>2 DEF QueueInv
<1>5. ASSUME NEW t \in Sid, Bought(t)', stripe'[t].status = "canceled" PROVE Over(t)'
  <2>1. PICK i \in DOMAIN events' : events'[i].type = "completed" /\ events'[i].sid = t
    BY <1>5 DEF Bought
  <2>2. PICK m \in DOMAIN events : events[m].type = "completed" /\ events[m].sid = t
    BY <1>2, <2>1
  <2>3. PICK n \in DOMAIN events : events[n].status = "CANCELED" /\ events[n].sid = t
    BY <1>1, <1>5, <2>2 DEF QueueInv, Bought, Over
  <2>4. events[n] # call[k].event
    <3>1. SUFFICES ASSUME events[n] = events[1] PROVE FALSE
      BY <1>1
    <3>2. m # 1
      BY <2>2, <2>3, <3>1 DEF QueueInv, Truthful
    <3>3. 1 \in DOMAIN events /\ m \in Nat /\ 1 < m
      BY <1>1, <2>2, <3>2, EmptySeq, LenProperties DEF TypeOK
    <3> QED BY <2>2, <2>3, <3>1, <3>3 DEF QueueInv
  <2> QED BY <1>2, <2>3, <2>4 DEF Over
<1> QED BY <1>3, <1>4, <1>5

\* The queue tells the truth in order, whatever the handlers do.
LEMMA QueueStep ==
  ASSUME TypeInv, TypeInv', limits.serial, limits.ordered, QueueInv, [Next]_vars
  PROVE  QueueInv'
<1>1. Lone'
  BY LoneStep, OneMoves DEF QueueInv
<1>2. /\ \A i \in DOMAIN events' : Truthful(events[i])'
      /\ \A i, j \in DOMAIN events' :
           i < j /\ events'[j].type = "completed" => events'[i].sid # events'[j].sid
      /\ \A t \in Sid : Bought(t)' /\ stripe'[t].status = "canceled" => Over(t)'
  <2>1. CASE UNCHANGED <<stripe, events>>
    BY <2>1 DEF QueueInv, Truthful, Bought, Over
  <2>2. ASSUME NEW s \in Sid, Opened(s)
        PROVE  /\ \A i \in DOMAIN events' : Truthful(events[i])'
               /\ \A i, j \in DOMAIN events' :
                    i < j /\ events'[j].type = "completed" => events'[i].sid # events'[j].sid
               /\ \A t \in Sid : Bought(t)' /\ stripe'[t].status = "canceled" => Over(t)'
    <3>1. \A i \in DOMAIN events : events[i].sid \in Sid
      <4>1. events \in Seq(Event)
        BY DEF TypeInv, TypeOK
      <4>2. \A i \in DOMAIN events : events[i] \in Event
        BY <4>1, ElementOfSeq, LenProperties
      <4> QED BY <4>2 DEF Event
    <3>2. \A i \in DOMAIN events : Truthful(events[i])'
      BY <2>2, <3>1 DEF Opened, QueueInv, Truthful
    <3>3. \A t \in Sid : stripe'[t].status = "canceled" => stripe[t].status = "canceled"
      BY <2>2 DEF Opened
    <3> QED BY <2>2, <3>2, <3>3 DEF Opened, QueueInv, Bought, Over
  <2> QED BY <2>1, <2>2, QueueMoved, QueueAnswered, LedgerMoves DEF TypeInv
<1> QED BY <1>1, <1>2, FacingStep DEF QueueInv

--------------------------------------------------------------------------------
(* The two rows that carry the plan.                                       *)

Agree == tenant.plan = sub.plan

\* An event is still to come that makes the rows agree, or a deletion will.
Healing == (\E s \in Sid : Bought(s)) \/ (sub.sid # NoSid /\ Over(sub.sid))
Unhealed == faults > 0 /\ \E k \in Call : At(k, "closeTenant")

\* The subscription's row against what Stripe holds.
SubInv ==
  /\ sub.sid = NoSid => sub.plan = "STARTER"
  /\ sub.sid # NoSid => /\ stripe[sub.sid].status \notin {"none", "open"}
                        /\ sub.plan \in {"STARTER", stripe[sub.sid].plan}
  /\ sub.sid # NoSid /\ ~Charged(sub.sid) => Over(sub.sid) \/ sub.plan = "STARTER"

\* What a handler relies on at each of its steps.
Ready(h) ==
  /\ h.pc \in {"actTenant", "actSub"} => h.event.type = "completed"
  /\ h.pc = "deleted" => h.event.status = "CANCELED"
  /\ h.pc \in {"updated", "deleted", "endTenant", "pastDue"} => h.event.type # "completed"
  /\ h.pc = "pastDue" => h.event.status # "CANCELED"
  /\ h.pc = "actSub" => tenant.plan = stripe[h.event.sid].plan
  /\ h.pc = "endTenant" =>
       h.event.status = "CANCELED" /\ (sub.sid = h.event.sid => sub.plan = "STARTER")
  /\ h.pc = "ack" /\ h.event.type = "completed" =>
       Agree /\ sub.sid = h.event.sid /\ tenant.plan = stripe[h.event.sid].plan
  /\ h.pc = "ack" /\ h.event.status = "CANCELED" /\ sub.sid = h.event.sid =>
       Agree /\ sub.plan = "STARTER"
  /\ h.pc \in {"stop", "free", "freeSub", "closeStop", "closeSub", "closeTenant"} =>
       h.sid = sub.sid
  /\ h.pc \in {"free", "freeSub"} => h.sid = NoSid \/ Over(h.sid)
  /\ h.pc = "freeSub" => tenant.plan = "STARTER"
  /\ h.pc \in {"closeSub", "closeTenant"} => h.sid = NoSid \/ ~Charged(h.sid) \/ faults > 0
  /\ h.pc = "closeTenant" => sub.plan = "STARTER"

RowsInv == SubInv /\ (\A k \in Call : Ready(call[k])) /\ (Agree \/ Healing \/ Unhealed)

\* Nothing is taken out of the queue, and a paid session stays paid or tells its end.
Onward ==
  \A t \in Sid :
    /\ Bought(t) => Bought(t)'
    /\ Over(t) => Over(t)'
    /\ stripe[t].status \notin {"none", "open"} =>
         /\ stripe'[t].status \notin {"none", "open"} /\ stripe'[t].plan = stripe[t].plan
         /\ Charged(t)' => Charged(t)
         /\ Charged(t) /\ ~Charged(t)' => Over(t)'
    /\ Charged(t)' /\ ~Charged(t) => Bought(t)'
    /\ Bought(t)' => Bought(t) \/ stripe[t].status = "open"

\* Only an answer is not onward.
LEMMA OnwardMoves ==
  ASSUME TypeOK, TypeOK', UNCHANGED <<stripe, events>> \/ \E s \in Sid : Moved(s) \/ Opened(s)
  PROVE  Onward
<1>1. CASE UNCHANGED <<stripe, events>>
  BY <1>1 DEF Onward, Bought, Over, Charged
<1>2. ASSUME NEW s \in Sid, Opened(s) PROVE Onward
  <2>1. \A t \in Sid : (Bought(t) => Bought(t)') /\ (Over(t) => Over(t)')
    BY <1>2 DEF Opened, Bought, Over
  <2>2. \A t \in Sid : stripe[t].status \notin {"none", "open"} => stripe'[t] = stripe[t]
    BY <1>2 DEF Opened
  <2>3. \A t \in Sid : (Charged(t)' => Charged(t)) /\ (Bought(t)' => Bought(t))
    BY <1>2 DEF Opened, Charged, Bought
  <2> QED BY <2>1, <2>2, <2>3 DEF Onward, Charged
<1>3. ASSUME NEW s \in Sid, Moved(s) PROVE Onward
  <2>1. \A i \in DOMAIN events : i \in DOMAIN events' /\ events'[i] = events[i]
    <3>1. DOMAIN events = 1 .. Len(events) /\ DOMAIN events' = 1 .. Len(events')
      BY LenProperties DEF TypeOK
    <3> QED BY <1>3, <3>1 DEF Moved
  <2>2. \A t \in Sid : (Bought(t) => Bought(t)') /\ (Over(t) => Over(t)')
    BY <2>1 DEF Bought, Over
  <2>3. ASSUME NEW t \in Sid, stripe[t].status \notin {"none", "open"}
        PROVE  /\ stripe'[t].status \notin {"none", "open"} /\ stripe'[t].plan = stripe[t].plan
               /\ Charged(t)' => Charged(t)
               /\ Charged(t) /\ ~Charged(t)' => Over(t)'
    <3>1. CASE t = s
      BY <1>3, <2>3, <3>1 DEF Moved, Charged
    <3>2. CASE t # s
      BY <1>3, <2>3, <3>2 DEF Moved, Charged
    <3> QED BY <3>1, <3>2
  <2>4. ASSUME NEW t \in Sid, Charged(t)', ~Charged(t) PROVE Bought(t)'
    BY <1>3, <2>4 DEF Moved, Charged
  <2>5. ASSUME NEW t \in Sid, Bought(t)', ~Bought(t) PROVE stripe[t].status = "open"
    <3>1. PICK i \in DOMAIN events' : events'[i].type = "completed" /\ events'[i].sid = t
      BY <2>5 DEF Bought
    <3>2. i \notin DOMAIN events
      BY <2>1, <2>5, <3>1 DEF Bought
    <3>3. i \in Len(events) + 1 .. Len(events')
      <4>1. DOMAIN events = 1 .. Len(events) /\ DOMAIN events' = 1 .. Len(events')
        BY LenProperties DEF TypeOK
      <4> QED BY <1>3, <3>2, <4>1 DEF Moved
    <3> QED BY <1>3, <3>1, <3>3 DEF Moved
  <2> QED BY <2>2, <2>3, <2>4, <2>5 DEF Onward
<1> QED BY <1>1, <1>2, <1>3

\* The plans and the recorded subscription are not written.
SamePlans == tenant'.plan = tenant.plan /\ sub'.plan = sub.plan /\ sub'.sid = sub.sid

\* What holds of the rows is kept by what Stripe does.
LEMMA RowsCarried ==
  ASSUME TypeOK, SubInv, Onward, SamePlans
  PROVE  SubInv' /\ (Agree => Agree') /\ (Healing => Healing')
<1>0. sub.sid \in Sid \cup {NoSid}
  BY DEF TypeOK, Subscription
<1>1. SubInv'
  BY <1>0 DEF SubInv, Onward, SamePlans
<1>2. Healing => Healing'
  BY <1>0 DEF Healing, Onward, SamePlans
<1> QED BY <1>1, <1>2 DEF Agree, SamePlans

\* Who does not move relies on what still holds.
LEMMA ReadyCarried ==
  ASSUME TypeOK, TypeOK', SubInv, Onward, SamePlans, faults \in Nat, faults' \in Nat, faults <= faults',
         NEW h \in Handler, Ready(h),
         h.pc \in EventSteps => stripe[h.event.sid].status \notin {"none", "open"}
  PROVE  Ready(h)'
<1>0. h.event.sid \in Sid /\ h.sid \in Sid \cup {NoSid}
  BY DEF Handler, Event
<1>1. h.pc \in EventSteps => stripe'[h.event.sid].plan = stripe[h.event.sid].plan
  BY <1>0 DEF Onward
<1>2. h.sid # NoSid => (Over(h.sid) => Over(h.sid)')
  BY <1>0 DEF Onward
<1>3. h.sid # NoSid /\ h.sid = sub.sid => (~Charged(h.sid) => ~Charged(h.sid)')
  BY <1>0 DEF Onward, SubInv
<1>4. (Agree => Agree') /\ (faults > 0 => faults' > 0)
  BY DEF Agree, SamePlans
<1> QED BY <1>1, <1>2, <1>3, <1>4 DEF Ready, SamePlans, EventSteps

\* When one handler acts in a serial instance the others are idle.
LEMMA ActorDecides ==
  ASSUME limits.serial, QueueInv, NEW k \in Call, ~At(k, "idle") \/ Alone,
         \A j \in Call \ {k} : call'[j] = call[j], Ready(call[k])'
  PROVE  \A j \in Call : Ready(call[j])'
<1>1. ASSUME NEW j \in Call \ {k} PROVE Ready(call[j])'
  <2>1. call'[j].pc = "idle"
    BY <1>1 DEF QueueInv, Lone, Alone, At
  <2> QED BY <2>1 DEF Ready
<1> QED BY <1>1

\* A handler that goes on keeps its record.
LEMMA GoesOn ==
  ASSUME TypeOK, NEW k \in Call, NEW l \in Steps, Goto(k, l)
  PROVE  /\ call'[k].pc = l /\ call'[k].sid = call[k].sid /\ call'[k].event = call[k].event
         /\ \A j \in Call \ {k} : call'[j] = call[j]
  BY DEF Goto, TypeOK

\* A handler that ends relies on nothing.
LEMMA Ends ==
  ASSUME TypeOK, NEW k \in Call, End(k)
  PROVE  /\ call'[k].pc = "idle" /\ Ready(call[k])'
         /\ \A j \in Call \ {k} : call'[j] = call[j]
<1>1. call'[k].pc = "idle" /\ \A j \in Call \ {k} : call'[j] = call[j]
  BY SilentType DEF End, TypeOK
<1> QED BY <1>1 DEF Ready

\* A handler of an event acts on an event that is true.
LEMMA Faces ==
  ASSUME TypeOK, QueueInv, NEW k \in Call, call[k].pc \in EventSteps
  PROVE  /\ 1 \in DOMAIN events /\ events[1] = call[k].event /\ Truthful(call[k].event)
         /\ call[k].event.sid \in Sid
<1>1. events # <<>> /\ events[1] = call[k].event
  BY DEF QueueInv
<1>2. 1 \in DOMAIN events
  BY <1>1, EmptySeq, LenProperties DEF TypeOK
<1> QED BY <1>1, <1>2 DEF QueueInv, TypeOK, Event

\* Requests read what is stored.
LEMMA BooksRead ==
  ASSUME TypeInv, TypeInv', limits.serial, QueueInv, RowsInv, Onward, NEW k \in Call,
         \/ DowngradeRead(k) \/ CancelRead(k) \/ DeleteRead(k)
         \/ \E p \in PlanCode : Checkout(k, p)
         \/ \E u \in User : \/ TeamCreateRead(k, u) \/ TeamRemoveRead(k, u)
                           \/ \E on \in BOOLEAN : TeamUpdateRead(k, u, on)
  PROVE  RowsInv'
<1>a. call \in [Call -> Handler]
  BY DEF TypeInv, TypeOK, Handler
<1>1. /\ Alone /\ \A j \in Call \ {k} : call'[j] = call[j]
      /\ SamePlans
  BY <1>a DEF DowngradeRead, CancelRead, DeleteRead, Checkout, TeamCreateRead, TeamRemoveRead,
       TeamUpdateRead, Request, rows, SamePlans
<1>2. Ready(call[k])'
  <2>1. CASE DowngradeRead(k) \/ CancelRead(k) \/ DeleteRead(k)
    <3>1. PICK l \in {"free", "stop", "mark", "end", "closeSub", "closeStop"} :
            /\ call' = [call EXCEPT ![k] = [Silent EXCEPT !.sid = sub.sid, !.pc = l]]
            /\ l \in {"free", "closeSub"} => sub.sid = NoSid
      BY <2>1 DEF DowngradeRead, CancelRead, DeleteRead, Request
    <3>2. call'[k].pc = l /\ call'[k].sid = sub.sid
      BY <1>a, <3>1, SilentType DEF Handler
    <3> QED BY <1>1, <3>1, <3>2 DEF Ready, SamePlans
  <2>2. ASSUME NEW p \in PlanCode, Checkout(k, p) PROVE Ready(call[k])'
    <3>1. call'[k].pc = "idle"
      BY <1>a, <2>2, SilentType DEF Checkout, Request
    <3> QED BY <3>1 DEF Ready
  <2>3. ASSUME NEW u \in User,
               TeamCreateRead(k, u) \/ TeamRemoveRead(k, u)
                 \/ \E on \in BOOLEAN : TeamUpdateRead(k, u, on)
        PROVE  Ready(call[k])'
    <3>1. PICK l \in {"join", "drop", "set"}, on \in BOOLEAN :
            \/ call' = [call EXCEPT ![k] = [Silent EXCEPT !.pc = l, !.user = u]]
            \/ call' = [call EXCEPT ![k] = [Silent EXCEPT !.pc = l, !.user = u, !.on = on]]
      BY <2>3 DEF TeamCreateRead, TeamRemoveRead, TeamUpdateRead, Request
    <3>2. /\ [Silent EXCEPT !.pc = l, !.user = u].pc = l
          /\ [Silent EXCEPT !.pc = l, !.user = u, !.on = on].pc = l
      BY SilentType DEF Handler
    <3>3. call'[k].pc = l
      BY <1>a, <3>1, <3>2
    <3> QED BY <3>3 DEF Ready
  <2> QED BY <2>1, <2>2, <2>3
<1>3. SubInv' /\ (Agree => Agree') /\ (Healing => Healing')
  BY <1>1, RowsCarried DEF RowsInv, TypeInv
<1>4. \A j \in Call : Ready(call[j])'
  BY <1>1, <1>2, ActorDecides
<1>5. ~Unhealed
  BY <1>1 DEF Alone, Unhealed, At
<1> QED BY <1>3, <1>4, <1>5 DEF RowsInv

\* A delivery begins with the type of its event.
LEMMA BooksDeliver ==
  ASSUME TypeInv, TypeInv', limits.serial, limits.ordered, QueueInv, RowsInv, Onward,
         NEW k \in Call, NEW i \in DOMAIN events, Deliver(k, i)
  PROVE  RowsInv'
<1>a. call \in [Call -> Handler]
  BY DEF TypeInv, TypeOK, Handler
<1>0. Alone /\ SamePlans /\ Truthful(events[i]) /\ events[i] \in Event
  BY ElementOfSeq, LenProperties DEF Deliver, rows, SamePlans, QueueInv, TypeInv, TypeOK
<1>1. PICK l :
        /\ call' = [call EXCEPT ![k] = [Silent EXCEPT !.event = events[i], !.pc = l]]
        /\ l = CASE events[i].type = "completed" -> "actTenant"
                 [] events[i].type = "updated" -> "updated"
                 [] events[i].type = "deleted" -> "deleted"
                 [] events[i].type = "payment_failed" -> "pastDue"
  BY DEF Deliver
<1>2. call'[k].pc = l /\ call'[k].event = events[i] /\ \A j \in Call \ {k} : call'[j] = call[j]
  BY <1>a, <1>1, SilentType DEF Handler
<1>3. Ready(call[k])'
  <2>1. events[i].type \in {"completed", "updated", "deleted", "payment_failed"}
    BY <1>0 DEF Event
  <2>2. /\ l \in {"actTenant", "updated", "deleted", "pastDue"}
        /\ l = "actTenant" => events[i].type = "completed"
        /\ l = "deleted" => events[i].status = "CANCELED"
        /\ l # "actTenant" => events[i].type # "completed"
        /\ l = "pastDue" => events[i].status # "CANCELED"
    BY <1>0, <1>1, <2>1 DEF Truthful
  <2> QED BY <1>2, <2>2 DEF Ready
<1>4. SubInv' /\ (Agree => Agree') /\ (Healing => Healing')
  BY <1>0, RowsCarried DEF RowsInv, TypeInv
<1>5. \A j \in Call : Ready(call[j])'
  BY <1>0, <1>2, <1>3, ActorDecides
<1>6. ~Unhealed
  BY <1>0 DEF Alone, Unhealed, At
<1> QED BY <1>4, <1>5, <1>6 DEF RowsInv

\* What Stripe does on its own leaves the handlers where they are.
LEMMA BooksStripe ==
  ASSUME TypeInv, TypeInv', QueueInv, RowsInv, Onward, NEW s \in Sid,
         Pay(s) \/ PeriodEnds(s) \/ PaymentFails(s) \/ Pauses(s) \/ PaymentRecovers(s) \/ GivesUp(s)
  PROVE  RowsInv'
<1>1. UNCHANGED <<call, faults>> /\ SamePlans
  BY StripeMoves DEF SamePlans, rows, TypeInv
<1>2. SubInv' /\ (Agree => Agree') /\ (Healing => Healing')
  BY <1>1, RowsCarried DEF RowsInv, TypeInv
<1>3. ASSUME NEW k \in Call PROVE Ready(call[k])'
  <2>1. call[k] \in Handler /\ Ready(call[k])
    BY DEF RowsInv, TypeInv, TypeOK, Handler
  <2>2. call[k].pc \in EventSteps => stripe[call[k].event.sid].status \notin {"none", "open"}
    BY Faces DEF TypeInv, Truthful
  <2>3. faults \in Nat /\ faults <= faults'
    BY <1>1, LimitsAssumption DEF TypeInv, TypeOK
  <2>4. \A h \in Handler : Ready(h) /\ (h.pc \in EventSteps => stripe[h.event.sid].status \notin {"none", "open"})
          => Ready(h)'
    BY <1>1, <2>3, ReadyCarried DEF RowsInv, TypeInv
  <2>5. ASSUME NEW h \in Handler, h = call[k] PROVE Ready(h)'
    BY <2>1, <2>2, <2>4, <2>5
  <2> QED BY <1>1, <2>1, <2>5 DEF Ready
<1>4. Unhealed => Unhealed'
  BY <1>1 DEF Unhealed, At
<1> QED BY <1>2, <1>3, <1>4 DEF RowsInv

\* A handler that dies leaves what it wrote; the second failure is not promised about.
LEMMA BooksDies ==
  ASSUME TypeInv, TypeInv', limits.serial, QueueInv, RowsInv, Onward, faults' <= 1,
         NEW k \in Call, Dies(k)
  PROVE  RowsInv'
<1>1. SamePlans /\ ~At(k, "idle") /\ End(k) /\ ~Unhealed
  BY LimitsAssumption DEF Dies, rows, SamePlans, Fault, Unhealed, TypeInv, TypeOK
<1>2. SubInv' /\ (Agree => Agree') /\ (Healing => Healing')
  BY <1>1, RowsCarried DEF RowsInv, TypeInv
<1>3. \A j \in Call : Ready(call[j])'
  BY <1>1, Ends, ActorDecides DEF TypeInv
<1> QED BY <1>1, <1>2, <1>3 DEF RowsInv

\* The calls to Stripe of a downgrade, a cancellation and a deletion.
LEMMA BooksCall ==
  ASSUME TypeInv, TypeInv', limits.serial, QueueInv, RowsInv, Onward,
         NEW k \in Call, DowngradeStop(k) \/ CancelStripe(k) \/ DeleteStop(k)
  PROVE  RowsInv'
<1>0. PICK s \in Sid : s = call[k].sid
  BY DEF TypeInv, TypeOK, Aimed, DowngradeStop, CancelStripe, DeleteStop, At
<1>1. SamePlans /\ ~At(k, "idle") /\ ~Unhealed
  <2>1. SamePlans /\ ~At(k, "idle") /\ ~At(k, "closeTenant")
    BY DEF DowngradeStop, CancelStripe, DeleteStop, At, rows, SamePlans
  <2> QED BY <2>1 DEF QueueInv, Lone, Unhealed, At
<1>2. SubInv' /\ (Agree => Agree') /\ (Healing => Healing')
  BY <1>1, RowsCarried DEF RowsInv, TypeInv
<1>3. /\ Ready(call[k])'
      /\ \A j \in Call \ {k} : call'[j] = call[j]
  <2>1. CASE End(k)
    BY <2>1, Ends DEF TypeInv
  <2>2. CASE DowngradeStop(k) /\ ~End(k)
    <3>1. CancelNow(s) /\ Goto(k, "free") /\ s = sub.sid
      BY <1>0, <2>2 DEF DowngradeStop, RowsInv, Ready, At
    <3>2. Over(s)'
      BY <1>0, <3>1, CancelMoves DEF Moved, TypeInv
    <3> QED BY <1>1, <3>1, <3>2, <1>0, GoesOn DEF Ready, SamePlans, TypeInv, Steps
  <2>3. CASE CancelStripe(k) /\ ~End(k)
    <3>1. Goto(k, "mark")
      BY <2>3 DEF CancelStripe
    <3> QED BY <3>1, GoesOn DEF Ready, TypeInv, Steps
  <2>4. CASE DeleteStop(k)
    <3>1. Goto(k, "closeSub") /\ s = sub.sid
      BY <1>0, <2>4 DEF DeleteStop, RowsInv, Ready, At
    <3>2. CASE CancelNow(s)
      <4>1. ~Charged(s)'
        BY <1>0, <3>2, CancelMoves DEF Charged, TypeInv
      <4> QED BY <1>1, <3>1, <4>1, <1>0, GoesOn DEF Ready, SamePlans, TypeInv, Steps
    <3>3. CASE UNCHANGED stripe /\ (~Charged(s) \/ Fault)
      <4>1. ~Charged(s)' \/ faults' > 0
        BY <3>3, LimitsAssumption DEF Charged, Fault, TypeInv, TypeOK
      <4> QED BY <1>1, <3>1, <4>1, <1>0, GoesOn DEF Ready, SamePlans, TypeInv, Steps
    <3> QED BY <1>0, <2>4, <3>2, <3>3 DEF DeleteStop
  <2> QED BY <2>1, <2>2, <2>3, <2>4
<1>4. \A j \in Call : Ready(call[j])'
  BY <1>1, <1>3, ActorDecides
<1> QED BY <1>1, <1>2, <1>4 DEF RowsInv

\* The statements that write neither plan.
LEMMA BooksAside ==
  ASSUME TypeInv, TypeInv', limits.serial, QueueInv, RowsInv, UNCHANGED <<stripe, events>>,
         NEW k \in Call,
         \/ CancelMark(k) \/ DeleteTx(k) \/ TeamCreateInsert(k) \/ TeamUpdateWrite(k)
         \/ TeamRemoveWrite(k) \/ PaymentFailed(k)
  PROVE  RowsInv'
<1>0. Onward
  BY OnwardMoves DEF TypeInv
<1>1. SamePlans /\ ~At(k, "idle") /\ ~Unhealed
  <2>1. SamePlans /\ ~At(k, "idle") /\ ~At(k, "closeTenant")
    <3>1. \A x \in Subscription, st \in SubscriptionStatus :
            /\ [x EXCEPT !.cancelAtPeriodEnd = TRUE].plan = x.plan
            /\ [x EXCEPT !.cancelAtPeriodEnd = TRUE].sid = x.sid
            /\ [x EXCEPT !.status = st].plan = x.plan /\ [x EXCEPT !.status = st].sid = x.sid
      BY DEF Subscription
    <3>2. sub \in Subscription /\ "PAST_DUE" \in SubscriptionStatus
      BY DEF TypeInv, TypeOK, SubscriptionStatus
    <3>3. tenant'.plan = tenant.plan
      BY DEF CancelMark, DeleteTx, TeamCreateInsert, TeamUpdateWrite, TeamRemoveWrite,
           PaymentFailed, TypeInv, TypeOK
    <3> QED BY <3>1, <3>2, <3>3 DEF CancelMark, DeleteTx, TeamCreateInsert, TeamUpdateWrite,
              TeamRemoveWrite, PaymentFailed, At, SamePlans
  <2> QED BY <2>1 DEF QueueInv, Lone, Unhealed, At
<1>2. SubInv' /\ (Agree => Agree') /\ (Healing => Healing')
  BY <1>0, <1>1, RowsCarried DEF RowsInv, TypeInv
<1>3. /\ Ready(call[k])'
      /\ \A j \in Call \ {k} : call'[j] = call[j]
  <2>1. CASE End(k)
    BY <2>1, Ends DEF TypeInv
  <2>2. CASE PaymentFailed(k)
    <3>1. Goto(k, "ack") /\ call[k].event.type # "completed" /\ call[k].event.status # "CANCELED"
      BY <2>2 DEF PaymentFailed, RowsInv, Ready, At
    <3> QED BY <3>1, GoesOn DEF Ready, TypeInv, Steps
  <2> QED BY <2>1, <2>2 DEF CancelMark, DeleteTx, TeamCreateInsert, TeamUpdateWrite, TeamRemoveWrite
<1>4. \A j \in Call : Ready(call[j])'
  BY <1>1, <1>3, ActorDecides
<1> QED BY <1>1, <1>2, <1>4 DEF RowsInv

\* An answer comes when its event has done its work.
LEMMA BooksAck ==
  ASSUME TypeInv, TypeInv', limits.serial, QueueInv, RowsInv, NEW k \in Call, Ack(k)
  PROVE  RowsInv'
<1>1. /\ UNCHANGED <<tenant, sub, stripe>> /\ End(k) /\ call[k].pc = "ack" /\ ~Unhealed
      /\ call[k].pc \in EventSteps /\ Ready(call[k])
  BY DEF Ack, rows, At, QueueInv, Lone, Unhealed, EventSteps, RowsInv
<1>2. call[k].event \in Event /\ events # <<>> /\ events[1] = call[k].event
  BY <1>1 DEF QueueInv, TypeInv, TypeOK
<1>3. \A m \in DOMAIN events : events[m] # call[k].event =>
        \E i \in DOMAIN events' : events'[i] = events[m]
  BY <1>2, AckMoves DEF TypeInv
<1>4. \A t \in Sid :
        /\ Bought(t) /\ ~(call[k].event.type = "completed") => Bought(t)'
        /\ Over(t) /\ ~(call[k].event.status = "CANCELED" /\ call[k].event.sid = t) => Over(t)'
  BY <1>3 DEF Bought, Over
<1>5. sub.sid \in Sid \cup {NoSid}
  BY DEF TypeInv, TypeOK, Subscription
<1>6. SubInv'
  BY <1>1, <1>4, <1>5 DEF SubInv, RowsInv, Ready, Charged
<1>7. (Agree \/ Healing)'
  <2>1. CASE Agree
    BY <1>1, <2>1 DEF Agree
  <2>2. ASSUME NEW t \in Sid, Bought(t) PROVE (Agree \/ Healing)'
    BY <1>1, <1>4, <2>2 DEF Agree, Healing, Ready
  <2>3. CASE sub.sid # NoSid /\ Over(sub.sid)
    BY <1>1, <1>4, <1>5, <2>3 DEF Agree, Healing, Ready
  <2> QED BY <1>1, <2>1, <2>2, <2>3 DEF RowsInv, Healing
<1>8. \A j \in Call : Ready(call[j])'
  <2>1. ~At(k, "idle")
    BY <1>1 DEF At
  <2> QED BY <1>1, <2>1, Ends, ActorDecides DEF TypeInv
<1> QED BY <1>6, <1>7, <1>8 DEF RowsInv

\* The statements of a downgrade and of a deletion.
LEMMA BooksLeave ==
  ASSUME TypeInv, TypeInv', limits.serial, QueueInv, RowsInv, UNCHANGED <<stripe, events>>,
         NEW k \in Call,
         DowngradeTenant(k) \/ DowngradeSub(k) \/ DeleteSub(k) \/ DeleteTenant(k)
  PROVE  RowsInv'
<1> DEFINE h == call[k]
<1>0. sub \in Subscription /\ Ready(h) /\ SubInv /\ sub.sid \in Sid \cup {NoSid}
  BY DEF TypeInv, TypeOK, RowsInv, Subscription
<1>1. \A t : (Bought(t)' <=> Bought(t)) /\ (Over(t)' <=> Over(t)) /\ (Charged(t)' <=> Charged(t))
  BY DEF Bought, Over, Charged
<1>2. CASE DowngradeTenant(k)
  <2>1. /\ tenant'.plan = "STARTER" /\ UNCHANGED <<sub, faults>> /\ Goto(k, "freeSub") /\ ~At(k, "idle")
        /\ h.sid = sub.sid /\ (h.sid = NoSid \/ Over(h.sid))
    BY <1>0, <1>2 DEF DowngradeTenant, SetPlan, At, Ready, TypeInv, TypeOK
  <2>2. SubInv'
    BY <1>0, <1>1, <2>1 DEF SubInv
  <2>3. (Agree \/ Healing)'
    BY <1>0, <1>1, <2>1 DEF SubInv, Agree, Healing
  <2>4. Ready(call[k])'
    BY <1>1, <2>1, GoesOn DEF Ready, TypeInv, Steps
  <2> QED BY <2>1, <2>2, <2>3, <2>4, GoesOn, ActorDecides DEF RowsInv, TypeInv, Steps
<1>3. CASE DowngradeSub(k)
  <2>1. /\ tenant'.plan = "STARTER" /\ sub'.plan = "STARTER" /\ sub'.sid = NoSid
        /\ End(k) /\ ~At(k, "idle")
    BY <1>0, <1>3 DEF DowngradeSub, At, Ready
  <2>2. SubInv' /\ Agree'
    BY <2>1 DEF SubInv, Agree
  <2> QED BY <2>1, <2>2, Ends, ActorDecides DEF RowsInv, TypeInv
<1>4. CASE DeleteSub(k)
  <2>1. /\ sub'.plan = "STARTER" /\ sub'.sid = sub.sid /\ UNCHANGED <<tenant, faults>>
        /\ Goto(k, "closeTenant") /\ ~At(k, "idle") /\ ~Unhealed
        /\ h.sid = sub.sid /\ (h.sid = NoSid \/ ~Charged(h.sid) \/ faults > 0)
    BY <1>0, <1>4 DEF DeleteSub, At, Ready, Subscription, QueueInv, Lone, Unhealed
  <2>2. SubInv'
    BY <1>0, <1>1, <2>1 DEF SubInv
  <2>3. Ready(call[k])' /\ call'[k].pc = "closeTenant"
    BY <1>1, <2>1, GoesOn DEF Ready, TypeInv, Steps
  <2>4. (Agree \/ Healing \/ Unhealed)'
    <3>1. Healing <=> Healing'
      BY <1>0, <1>1, <2>1 DEF Healing
    <3>2. faults > 0 => Unhealed'
      BY <2>1, <2>3 DEF Unhealed, At
    <3>3. sub.plan = "STARTER" \/ Healing \/ faults > 0
      BY <1>0, <2>1 DEF SubInv, Healing
    <3>4. sub.plan = "STARTER" => (Agree <=> Agree')
      BY <2>1 DEF Agree
    <3> QED BY <2>1, <3>1, <3>2, <3>3, <3>4 DEF RowsInv
  <2> QED BY <2>1, <2>2, <2>3, <2>4, GoesOn, ActorDecides DEF RowsInv, TypeInv, Steps
<1>5. CASE DeleteTenant(k)
  <2>1. /\ tenant'.plan = "STARTER" /\ sub.plan = "STARTER" /\ UNCHANGED sub
        /\ Goto(k, "close") /\ ~At(k, "idle")
    BY <1>0, <1>5 DEF DeleteTenant, SetPlan, At, Ready, TypeInv, TypeOK
  <2>2. SubInv' /\ Agree'
    BY <1>0, <1>1, <2>1 DEF SubInv, Agree
  <2>3. Ready(call[k])'
    BY <2>1, GoesOn DEF Ready, TypeInv, Steps
  <2> QED BY <2>1, <2>2, <2>3, GoesOn, ActorDecides DEF RowsInv, TypeInv, Steps
<1> QED BY <1>2, <1>3, <1>4, <1>5

\* The statements of Stripe's events.
LEMMA BooksEvent ==
  ASSUME TypeInv, TypeInv', limits.serial, QueueInv, RowsInv, UNCHANGED <<stripe, events>>,
         NEW k \in Call,
         \/ ActivateTenant(k) \/ ActivateSub(k) \/ SubscriptionUpdated(k)
         \/ SubscriptionDeleted(k) \/ EndTenant(k)
  PROVE  RowsInv'
<1>0. PICK e \in Event : e = call[k].event
  BY DEF TypeInv, TypeOK
<1>a. /\ call[k].pc \in EventSteps /\ ~At(k, "idle") /\ ~Unhealed
  <2>1. call[k].pc \in {"actTenant", "actSub", "updated", "deleted", "endTenant"}
    BY DEF ActivateTenant, ActivateSub, SubscriptionUpdated, SubscriptionDeleted, EndTenant, At
  <2> QED BY <2>1 DEF QueueInv, Lone, Unhealed, At, EventSteps
<1>b. /\ 1 \in DOMAIN events /\ events[1] = e /\ Truthful(e) /\ e.sid \in Sid
      /\ stripe[e.sid] \in StripeSub
  BY <1>0, <1>a, Faces DEF TypeInv, TypeOK
<1>c. sub \in Subscription /\ Ready(call[k]) /\ SubInv /\ sub.sid \in Sid \cup {NoSid}
  BY DEF TypeInv, TypeOK, RowsInv, Subscription
<1>d. \A t : (Bought(t)' <=> Bought(t)) /\ (Over(t)' <=> Over(t)) /\ (Charged(t)' <=> Charged(t))
  BY DEF Bought, Over, Charged
<1>e. e.status = "CANCELED" => Over(e.sid)
  BY <1>b DEF Over
<1>f. ASSUME NEW l \in Steps, Goto(k, l)
      PROVE  /\ call'[k].pc = l /\ call'[k].event = e
             /\ Ready(call[k])' => \A j \in Call : Ready(call[j])'
  BY <1>0, <1>a, <1>f, GoesOn, ActorDecides DEF TypeInv
<1>1. CASE ActivateTenant(k)
  <2>1. /\ tenant'.plan = stripe[e.sid].plan /\ UNCHANGED sub
        /\ Goto(k, "actSub") /\ e.type = "completed"
    BY <1>0, <1>1, <1>c DEF ActivateTenant, SetPlan, At, Ready, TypeInv, TypeOK
  <2>2. Bought(e.sid)
    BY <1>b, <2>1 DEF Bought
  <2>3. SubInv' /\ Healing'
    BY <1>b, <1>c, <1>d, <2>1, <2>2 DEF SubInv, Healing
  <2>4. Ready(call[k])'
    BY <1>f, <2>1 DEF Ready, Steps
  <2> QED BY <1>f, <2>1, <2>3, <2>4 DEF RowsInv, Steps
<1>2. CASE ActivateSub(k)
  <2>1. /\ tenant'.plan = stripe[e.sid].plan /\ sub'.plan = stripe[e.sid].plan /\ sub'.sid = e.sid
        /\ Goto(k, "ack") /\ e.type = "completed" /\ e.status # "CANCELED"
    BY <1>0, <1>2, <1>b, <1>c DEF ActivateSub, At, Ready, Truthful
  <2>2. Bought(e.sid)
    BY <1>b, <2>1 DEF Bought
  <2>3. Agree'
    BY <2>1 DEF Agree
  <2>4. SubInv'
    <3>1. ~Charged(e.sid) => stripe[e.sid].status = "canceled"
      BY <1>b DEF Charged, Truthful, StripeSub
    <3>2. ~Charged(e.sid) => Over(e.sid)
      BY <1>b, <2>2, <3>1 DEF QueueInv
    <3>3. e.sid # NoSid
      BY <1>b, SidAssumption
    <3> QED BY <1>b, <1>d, <2>1, <3>2, <3>3 DEF SubInv, Truthful
  <2>5. Ready(call[k])'
    BY <1>f, <2>1, <2>3 DEF Ready, Steps
  <2> QED BY <1>f, <2>1, <2>3, <2>4, <2>5 DEF RowsInv, Steps
<1>3. CASE SubscriptionUpdated(k) \/ SubscriptionDeleted(k)
  <2>1. /\ sub'.sid = sub.sid /\ UNCHANGED tenant /\ e.type # "completed"
        /\ sub'.plan = IF sub.sid = e.sid /\ e.status = "CANCELED" THEN "STARTER" ELSE sub.plan
        /\ Goto(k, IF e.status = "CANCELED" THEN "endTenant" ELSE "ack")
    <3>1. CASE SubscriptionUpdated(k)
      BY <1>0, <1>c, <3>1 DEF SubscriptionUpdated, Mine, At, Ready, Subscription
    <3>2. CASE SubscriptionDeleted(k)
      BY <1>0, <1>c, <3>2 DEF SubscriptionDeleted, Mine, At, Ready, Subscription
    <3> QED BY <1>3, <3>1, <3>2
  <2>2. SubInv'
    BY <1>c, <1>d, <2>1 DEF SubInv
  <2>3. (Agree \/ Healing)'
    <3>1. CASE sub.sid = e.sid /\ e.status = "CANCELED"
      BY <1>b, <1>d, <1>e, <2>1, <3>1, SidAssumption DEF Healing
    <3>2. CASE ~(sub.sid = e.sid /\ e.status = "CANCELED")
      BY <1>a, <1>d, <2>1, <3>2 DEF Healing, Agree, RowsInv
    <3> QED BY <3>1, <3>2
  <2>4. Ready(call[k])'
    BY <1>f, <2>1 DEF Ready, Steps
  <2> QED BY <1>f, <2>1, <2>2, <2>3, <2>4 DEF RowsInv, Steps
<1>4. CASE EndTenant(k)
  <2>1. /\ UNCHANGED sub /\ Goto(k, "ack") /\ e.status = "CANCELED" /\ e.type # "completed"
        /\ IF sub.sid = e.sid THEN tenant'.plan = "STARTER" /\ sub.plan = "STARTER"
           ELSE UNCHANGED tenant
    BY <1>0, <1>4, <1>c DEF EndTenant, SetPlan, Mine, At, Ready, TypeInv, TypeOK
  <2>2. SubInv'
    BY <1>c, <1>d, <2>1 DEF SubInv
  <2>3. (Agree \/ Healing)'
    BY <1>a, <1>d, <2>1 DEF Healing, Agree, RowsInv
  <2>4. Ready(call[k])'
    BY <1>f, <2>1 DEF Ready, Agree, Steps
  <2> QED BY <1>f, <2>1, <2>2, <2>3, <2>4 DEF RowsInv, Steps
<1> QED BY <1>1, <1>2, <1>3, <1>4

\* One step of the books, the first failure included.
LEMMA BooksStep ==
  ASSUME TypeInv, TypeInv', limits.serial, limits.ordered, faults' <= 1,
         QueueInv, RowsInv, [Next]_vars
  PROVE  RowsInv'
<1> USE DEF TypeInv
<1>1. ASSUME NEW k \in Call, Ack(k) PROVE RowsInv'
  BY <1>1, BooksAck
<1>2. (\A k \in Call : ~Ack(k)) => Onward
  BY LedgerMoves, OnwardMoves
<1>3. ASSUME NEW k \in Call,
             \/ CancelMark(k) \/ DeleteTx(k) \/ TeamCreateInsert(k) \/ TeamUpdateWrite(k)
             \/ TeamRemoveWrite(k) \/ PaymentFailed(k)
      PROVE  RowsInv'
  <2>1. UNCHANGED <<stripe, events>>
    BY <1>3 DEF CancelMark, DeleteTx, TeamCreateInsert, TeamUpdateWrite, TeamRemoveWrite,
         PaymentFailed
  <2> QED BY <1>3, <2>1, BooksAside
<1>4. ASSUME NEW k \in Call,
             \/ DowngradeTenant(k) \/ DowngradeSub(k) \/ DeleteSub(k) \/ DeleteTenant(k)
      PROVE  RowsInv'
  <2>1. UNCHANGED <<stripe, events>>
    BY <1>4 DEF DowngradeTenant, DowngradeSub, DeleteSub, DeleteTenant
  <2> QED BY <1>4, <2>1, BooksLeave
<1>5. ASSUME NEW k \in Call,
             \/ ActivateTenant(k) \/ ActivateSub(k) \/ SubscriptionUpdated(k)
             \/ SubscriptionDeleted(k) \/ EndTenant(k)
      PROVE  RowsInv'
  <2>1. UNCHANGED <<stripe, events>>
    BY <1>5 DEF ActivateTenant, ActivateSub, SubscriptionUpdated, SubscriptionDeleted, EndTenant
  <2> QED BY <1>5, <2>1, BooksEvent
<1>6. CASE UNCHANGED vars
  BY <1>6 DEF vars, RowsInv, SubInv, Ready, Agree, Healing, Unhealed, Bought, Over, Charged, At
<1>7. CASE \A k \in Call : ~Ack(k)
  <2>1. Onward
    BY <1>2, <1>7
  <2>2. ASSUME NEW k \in Call, Step(k) PROVE RowsInv'
    BY <1>3, <1>4, <1>5, <1>7, <2>1, <2>2, BooksCall DEF Step
  <2>3. ASSUME NEW k \in Call, Dies(k) \/ DowngradeRead(k) \/ CancelRead(k) \/ DeleteRead(k)
        PROVE  RowsInv'
    BY <2>1, <2>3, BooksDies, BooksRead
  <2>6. ASSUME NEW k \in Call, NEW u \in User,
               TeamCreateRead(k, u) \/ TeamRemoveRead(k, u) \/ \E on \in BOOLEAN : TeamUpdateRead(k, u, on)
        PROVE  RowsInv'
    BY <2>1, <2>6, BooksRead
  <2>7. ASSUME NEW k \in Call, NEW p \in PlanCode, Checkout(k, p) PROVE RowsInv'
    BY <2>1, <2>7, BooksRead
  <2>4. ASSUME NEW k \in Call, NEW i \in DOMAIN events, Deliver(k, i) PROVE RowsInv'
    BY <2>1, <2>4, BooksDeliver
  <2>5. ASSUME NEW s \in Sid,
               Pay(s) \/ PeriodEnds(s) \/ PaymentFails(s) \/ Pauses(s) \/ PaymentRecovers(s) \/ GivesUp(s)
        PROVE  RowsInv'
    BY <2>1, <2>5, BooksStripe
  <2> QED BY <1>6, <2>2, <2>3, <2>4, <2>5, <2>6, <2>7 DEF Next
<1> QED BY <1>1, <1>7

\* Failures are counted and never forgotten.
LEMMA FaultsGrow ==
  ASSUME TypeOK, [Next]_vars
  PROVE  faults \in Nat /\ faults <= faults' /\ UNCHANGED limits
<1>1. faults \in Nat
  BY LimitsAssumption DEF TypeOK
<1>2. UNCHANGED limits /\ (UNCHANGED faults \/ Fault)
  BY DEF Next, vars, Step, Dies, DowngradeRead, CancelRead, DeleteRead, Checkout, TeamCreateRead,
       TeamRemoveRead, TeamUpdateRead, Request, Deliver, Pay, PeriodEnds, PaymentFails,
       Pauses, PaymentRecovers, GivesUp, StripeStep, static, DowngradeStop, DowngradeTenant,
       DowngradeSub, CancelStripe, CancelMark, DeleteStop, DeleteSub, DeleteTenant, DeleteTx,
       TeamCreateInsert, TeamUpdateWrite, TeamRemoveWrite, ActivateTenant, ActivateSub,
       SubscriptionUpdated, SubscriptionDeleted, EndTenant, PaymentFailed, Ack
<1> QED BY <1>1, <1>2 DEF Fault

\* What a serial instance with ordered events keeps: the queue always, the rows until the
\* second failure.
BooksInv ==
  limits.serial /\ limits.ordered => QueueInv /\ (faults <= 1 => RowsInv)

\* The books of a tenant as register leaves it.
LEMMA BooksInit ==
  ASSUME Init
  PROVE  TypeInv /\ BooksInv
<1>1. /\ DOMAIN events = {} /\ events = <<>> /\ \A k \in Call : call[k].pc = "idle"
      /\ sub.sid = NoSid /\ sub.plan = "STARTER" /\ tenant.plan = "STARTER"
  BY SilentType DEF Init
<1>2. QueueInv
  BY <1>1 DEF QueueInv, Lone, At, EventSteps, Bought
<1>3. RowsInv
  BY <1>1 DEF RowsInv, SubInv, Ready, Agree
<1> QED BY <1>2, <1>3, TenantTypesInit DEF BooksInv

\* Every step keeps them.
LEMMA BooksInvStep ==
  ASSUME TypeInv, BooksInv, [Next]_vars
  PROVE  (TypeInv /\ BooksInv)'
<1>1. TypeInv'
  BY TypeStep, AimedStep DEF TypeInv
<1>2. faults \in Nat /\ faults' \in Nat /\ faults <= faults' /\ UNCHANGED limits
  BY <1>1, FaultsGrow, LimitsAssumption DEF TypeInv, TypeOK
<1> QED BY <1>1, <1>2, QueueStep, BooksStep DEF BooksInv

\* The tenant's plan and the subscription's agree whenever nothing is left to handle, one
\* failure notwithstanding: the statement that was lost is made up for by the event that is
\* sent again.
THEOREM RowsAgree == Spec => []PlansAgree
<1>1. Init => TypeInv /\ BooksInv
  BY BooksInit
<1>2. TypeInv /\ BooksInv /\ [Next]_vars => (TypeInv /\ BooksInv)'
  BY BooksInvStep
<1>3. TypeInv /\ BooksInv => PlansAgree
  <2> SUFFICES ASSUME TypeInv, BooksInv, limits.serial, limits.ordered, faults <= 1, Quiet
               PROVE  Agree
    BY DEF PlansAgree, Agree
  <2>1. RowsInv /\ DOMAIN events = {} /\ \A k \in Call : At(k, "idle")
    BY DEF BooksInv, Quiet
  <2>2. ~Healing /\ ~Unhealed
    BY <2>1 DEF Healing, Unhealed, Bought, Over, At
  <2> QED BY <2>1, <2>2 DEF RowsInv
<1> QED BY <1>1, <1>2, <1>3, PTL DEF Spec

--------------------------------------------------------------------------------
(* A tenant that buys one plan at a time, when nothing fails.               *)

\* Sessions are bought one after another, and each is paid for the plan the tenant has,
\* from its purchase on.
OneAtATime ==
  /\ \A s \in Sid : stripe[s].status # "none" =>
       /\ stripe[s].plan # "STARTER"
       /\ \A t \in Sid : t < s => stripe[t].status = "canceled"
  /\ \A i, j \in DOMAIN events : i < j => events[i].sid <= events[j].sid
  /\ \A s \in Sid : Bought(s) =>
       \/ sub.sid = NoSid \/ sub.sid < s
       \/ sub.sid = s /\ \E k \in Call :
            At(k, "ack") /\ call[k].event.type = "completed" /\ call[k].event.sid = s
  /\ \A s \in Sid : Charged(s) => Bought(s) \/ (sub.sid = s /\ tenant.plan # "STARTER")

\* Sessions are numbers.
LEMMA SidNat == Sid \subseteq Nat /\ \A s, t \in Sid : s < t \/ s = t \/ t < s
<1>1. \A n \in Nat : 1 .. n \subseteq Nat
  OBVIOUS
<1>2. Sid \subseteq Nat
  BY <1>1, SidAssumption, FS_CardinalityType
<1>3. \A s, t \in Nat : s < t \/ s = t \/ t < s
  OBVIOUS
<1> QED BY <1>2, <1>3

\* A session is opened, and moves, after all that came before it are over.
LEMMA InOrder ==
  ASSUME TypeInv, TypeInv', QueueInv, OneAtATime, "upgrade" \notin limits.ops, [Next]_vars
  PROVE  /\ \A s \in Sid : stripe'[s].status # "none" =>
              /\ stripe'[s].plan # "STARTER"
              /\ \A t \in Sid : t < s => stripe'[t].status = "canceled"
         /\ \A i, j \in DOMAIN events' : i < j => events'[i].sid <= events'[j].sid
<1> DEFINE Ordered == \A s \in Sid : stripe[s].status # "none" =>
                        /\ stripe[s].plan # "STARTER"
                        /\ \A t \in Sid : t < s => stripe[t].status = "canceled"
           Sorted == \A i, j \in DOMAIN events : i < j => events[i].sid <= events[j].sid
<1> USE DEF TypeInv
<1>1. Ordered /\ Sorted
  BY DEF OneAtATime
<1>2. CASE UNCHANGED <<stripe, events>>
  BY <1>1, <1>2
<1>3. ASSUME NEW k \in Call, Ack(k) PROVE Ordered' /\ Sorted'
  <2>1. UNCHANGED stripe /\ call[k].pc \in EventSteps
    BY <1>3 DEF Ack, At, EventSteps
  <2>2. events # <<>> /\ events[1] = call[k].event
    BY <2>1 DEF QueueInv
  <2>3. \A i, j \in DOMAIN events' : i < j =>
          \E m, n \in DOMAIN events : m < n /\ events'[i] = events[m] /\ events'[j] = events[n]
    BY <1>3, <2>2, AckMoves
  <2>4. Sorted'
    BY <1>1, <2>3
  <2> QED BY <1>1, <2>1, <2>4
<1>4. ASSUME NEW s \in Sid, Opened(s) PROVE Ordered' /\ Sorted'
  <2>1. Sorted'
    BY <1>1, <1>4 DEF Opened
  <2>2. ASSUME NEW u \in Sid, stripe'[u].status # "none"
        PROVE  /\ stripe'[u].plan # "STARTER"
               /\ \A t \in Sid : t < u => stripe'[t].status = "canceled"
    <3>1. CASE u = s
      <4>1. ASSUME NEW t \in Sid, t < s PROVE stripe'[t].status = "canceled"
        <5>1. t # s
          BY <4>1, SidNat
        <5> QED BY <1>4, <4>1, <5>1 DEF Opened
      <4> QED BY <1>4, <3>1, <4>1 DEF Opened
    <3>2. CASE u # s
      <4>1. stripe'[u] = stripe[u] /\ stripe[u].status # "none"
        BY <1>4, <2>2, <3>2 DEF Opened
      <4>2. ~(s < u)
        BY <1>1, <1>4, <4>1 DEF Opened
      <4> QED BY <1>1, <1>4, <4>1, <4>2 DEF Opened
    <3> QED BY <3>1, <3>2
  <2> QED BY <2>1, <2>2
<1>5. ASSUME NEW s \in Sid, Moved(s) PROVE Ordered' /\ Sorted'
  <2>1. stripe[s].status \notin {"none", "canceled"} /\ stripe'[s].plan = stripe[s].plan
        /\ \A t \in Sid \ {s} : stripe'[t] = stripe[t]
    BY <1>5 DEF Moved
  <2>2. \A u \in Sid : s < u => stripe[u].status = "none"
    BY <1>1, <2>1
  <2>3. Ordered'
    <3> SUFFICES ASSUME NEW u \in Sid, stripe'[u].status # "none"
                 PROVE  /\ stripe'[u].plan # "STARTER"
                        /\ \A t \in Sid : t < u => stripe'[t].status = "canceled"
      OBVIOUS
    <3>1. stripe[u].status # "none" /\ stripe'[u].plan = stripe[u].plan
      BY <2>1
    <3>2. ~(s < u)
      BY <2>2, <3>1
    <3> QED BY <1>1, <2>1, <3>1, <3>2
  <2>4. \A i \in DOMAIN events : events[i].sid \in Sid /\ events[i].sid <= s
    <3>1. \A i \in DOMAIN events : events[i].sid \in Sid
      <4>1. events \in Seq(Event)
        BY DEF TypeOK
      <4>2. \A i \in DOMAIN events : events[i] \in Event
        BY <4>1, ElementOfSeq, LenProperties
      <4> QED BY <4>2 DEF Event
    <3>2. \A i \in DOMAIN events : stripe[events[i].sid].status # "none"
      BY DEF QueueInv, Truthful
    <3>3. \A t \in Sid : ~(s < t) => t <= s
      BY SidNat
    <3> QED BY <2>2, <3>1, <3>2, <3>3
  <2>5. Sorted'
    <3> DEFINE n == Len(events)
               m == Len(events')
    <3>1. /\ n \in Nat /\ m \in Nat /\ n < m /\ DOMAIN events = 1 .. n /\ DOMAIN events' = 1 .. m
      BY <1>5, LenProperties DEF TypeOK, Moved
    <3>2. \A i \in 1 .. n : events'[i] = events[i]
      BY <1>5 DEF Moved
    <3>3. \A i \in n + 1 .. m : events'[i].sid = s
      BY <1>5 DEF Moved
    <3> HIDE DEF n, m
    <3>4. ASSUME NEW i \in 1 .. m, NEW j \in 1 .. m, i < j PROVE events'[i].sid <= events'[j].sid
      <4>1. CASE j \in 1 .. n
        <5>1. i \in 1 .. n
          BY <3>1, <3>4, <4>1
        <5> QED BY <1>1, <3>1, <3>2, <3>4, <4>1, <5>1
      <4>2. CASE j \in n + 1 .. m
        <5>1. CASE i \in 1 .. n
          BY <2>4, <3>1, <3>2, <3>3, <4>2, <5>1
        <5>2. CASE i \in n + 1 .. m
          BY <3>3, <4>2, <5>2, SidNat
        <5> QED BY <3>1, <5>1, <5>2
      <4> QED BY <3>1, <4>1, <4>2
    <3> QED BY <3>1, <3>4
  <2> QED BY <2>3, <2>5
<1> QED BY <1>2, <1>3, <1>4, <1>5, LedgerMoves

\* The purchases against the rows: the part of OneAtATime that handlers write.
BuyInv ==
  /\ \A s \in Sid : Bought(s) =>
       \/ sub.sid = NoSid \/ sub.sid < s
       \/ sub.sid = s /\ \E k \in Call :
            At(k, "ack") /\ call[k].event.type = "completed" /\ call[k].event.sid = s
  /\ \A s \in Sid : Charged(s) => Bought(s) \/ (sub.sid = s /\ tenant.plan # "STARTER")

\* Steps that leave the tenant's plan and the recorded subscription alone.
LEMMA BuyCarried ==
  ASSUME TypeOK, SubInv, OneAtATime, Onward,
         tenant'.plan = tenant.plan, sub'.sid = sub.sid,
         \A k \in Call : At(k, "ack") => call'[k] = call[k]
  PROVE  BuyInv'
<1>0. sub.sid \in Sid \cup {NoSid}
  BY DEF TypeOK, Subscription
<1>1. ASSUME NEW s \in Sid, Bought(s)'
      PROVE  \/ sub'.sid = NoSid \/ sub'.sid < s
             \/ sub'.sid = s /\ \E k \in Call :
                  At(k, "ack")' /\ call'[k].event.type = "completed" /\ call'[k].event.sid = s
  <2>1. CASE Bought(s)
    BY <2>1 DEF OneAtATime, At
  <2>2. CASE ~Bought(s) /\ sub.sid # NoSid
    <3>1. stripe[s].status = "open"
      BY <1>1, <2>2 DEF Onward
    <3>2. sub.sid \in Sid /\ stripe[sub.sid].status \notin {"none", "open"}
      BY <1>0, <2>2 DEF SubInv
    <3>3. ~(s < sub.sid) /\ s # sub.sid
      BY <3>1, <3>2 DEF OneAtATime
    <3> QED BY <3>2, <3>3, SidNat
  <2>3. CASE sub.sid = NoSid
    BY <2>3
  <2> QED BY <2>1, <2>2, <2>3
<1>2. ASSUME NEW s \in Sid, Charged(s)'
      PROVE  Bought(s)' \/ (sub'.sid = s /\ tenant'.plan # "STARTER")
  BY <1>2 DEF OneAtATime, Onward
<1> QED BY <1>1, <1>2 DEF BuyInv

\* The answer to a purchase leaves it recorded.
LEMMA BuyAck ==
  ASSUME TypeInv, QueueInv, RowsInv, OneAtATime, NEW k \in Call, Ack(k)
  PROVE  BuyInv'
<1>0. PICK e \in Event : e = call[k].event
  BY DEF TypeInv, TypeOK
<1>1. /\ UNCHANGED <<tenant, sub, stripe>> /\ call[k].pc = "ack"
      /\ call[k].pc \in EventSteps /\ Ready(call[k])
  BY DEF Ack, rows, At, EventSteps, RowsInv
<1>2. events # <<>> /\ events[1] = call[k].event /\ Truthful(e) /\ e.sid \in Sid
  BY <1>0, <1>1, Faces DEF QueueInv, TypeInv
<1>3. /\ \A m \in DOMAIN events : events[m] # e => \E i \in DOMAIN events' : events'[i] = events[m]
      /\ \E r \in DOMAIN events : events[r] = e
           /\ \A i \in DOMAIN events' : \E m \in DOMAIN events \ {r} : events'[i] = events[m]
  BY <1>0, <1>2, AckMoves DEF TypeInv
<1>4. ASSUME NEW s \in Sid, Bought(s)'
      PROVE  Bought(s) /\ ~(e.type = "completed" /\ e.sid = s)
  <2>1. PICK r \in DOMAIN events, m \in DOMAIN events :
          m # r /\ events[r] = e /\ events[m].type = "completed" /\ events[m].sid = s
    BY <1>3, <1>4 DEF Bought
  <2>2. r < m \/ m < r
    BY <2>1, LenProperties DEF TypeInv, TypeOK
  <2> QED BY <2>1, <2>2 DEF Bought, QueueInv
<1>5. ASSUME NEW s \in Sid, Bought(s), ~Bought(s)' PROVE e.type = "completed" /\ e.sid = s
  BY <1>3, <1>5 DEF Bought
<1>6. ASSUME NEW s \in Sid, Bought(s)'
      PROVE  sub'.sid = NoSid \/ sub'.sid < s
  <2>1. \A j \in Call : At(j, "ack") => j = k
    BY <1>1 DEF QueueInv, Lone, At
  <2> QED BY <1>0, <1>1, <1>4, <1>6, <2>1 DEF OneAtATime
<1>7. ASSUME NEW s \in Sid, Charged(s)'
      PROVE  Bought(s)' \/ (sub'.sid = s /\ tenant'.plan # "STARTER")
  <2>1. CASE Bought(s) /\ ~Bought(s)'
    <3>1. e.type = "completed" /\ e.sid = s
      BY <1>5, <2>1
    <3>2. sub.sid = s /\ tenant.plan = stripe[s].plan
      BY <1>0, <1>1, <3>1 DEF Ready
    <3>3. stripe[s].plan # "STARTER"
      BY <1>2, <3>1 DEF OneAtATime, Truthful
    <3> QED BY <1>1, <3>2, <3>3
  <2>2. CASE ~(Bought(s) /\ ~Bought(s)')
    BY <1>1, <1>7, <2>2 DEF OneAtATime, Charged
  <2> QED BY <2>1, <2>2
<1> QED BY <1>6, <1>7 DEF BuyInv

\* The statements that write the tenant's plan or the recorded subscription.
LEMMA BuyWrite ==
  ASSUME TypeInv, QueueInv, RowsInv, OneAtATime, faults = 0, UNCHANGED <<stripe, events>>,
         NEW k \in Call,
         \/ DowngradeTenant(k) \/ DowngradeSub(k) \/ DeleteTenant(k)
         \/ ActivateTenant(k) \/ ActivateSub(k) \/ EndTenant(k)
  PROVE  BuyInv'
<1>a. sub \in Subscription /\ Ready(call[k]) /\ SubInv /\ sub.sid \in Sid \cup {NoSid}
  BY DEF TypeInv, TypeOK, RowsInv, Subscription
<1>b. \A t : (Bought(t)' <=> Bought(t)) /\ (Over(t)' <=> Over(t)) /\ (Charged(t)' <=> Charged(t))
  BY DEF Bought, Over, Charged
<1>c. \A j \in Call : ~At(j, "ack")
  <2>1. call[k].pc \notin {"ack", "idle"}
    BY DEF DowngradeTenant, DowngradeSub, DeleteTenant, ActivateTenant, ActivateSub, EndTenant, At
  <2> QED BY <2>1 DEF QueueInv, Lone, At
<1>d. \A s \in Sid : Bought(s) => sub.sid = NoSid \/ sub.sid < s
  BY <1>c DEF OneAtATime
<1>e. \A t \in Sid : Over(t) => ~Charged(t)
  BY DEF Over, QueueInv, Truthful, Charged
<1>1. ASSUME sub' = sub, \A s \in Sid : Charged(s) /\ sub.sid = s => tenant'.plan # "STARTER"
      PROVE  BuyInv'
  BY <1>1, <1>b, <1>d DEF BuyInv, OneAtATime
<1>2. CASE DowngradeTenant(k)
  <2>1. UNCHANGED sub /\ call[k].sid = sub.sid /\ (call[k].sid = NoSid \/ Over(call[k].sid))
    BY <1>2, <1>a DEF DowngradeTenant, At, Ready
  <2> QED BY <1>1, <1>e, <2>1, SidAssumption
<1>3. CASE DowngradeSub(k)
  <2>1. sub'.sid = NoSid /\ tenant.plan = "STARTER"
    BY <1>3, <1>a DEF DowngradeSub, At, Ready
  <2> QED BY <1>b, <2>1 DEF BuyInv, OneAtATime
<1>4. CASE DeleteTenant(k)
  <2>1. UNCHANGED sub /\ call[k].sid = sub.sid /\ (call[k].sid = NoSid \/ ~Charged(call[k].sid))
    BY <1>4, <1>a DEF DeleteTenant, At, Ready
  <2> QED BY <1>1, <2>1, SidAssumption
<1>5. PICK e \in Event : e = call[k].event
  BY DEF TypeInv, TypeOK
<1>f. CASE ActivateTenant(k) \/ ActivateSub(k) \/ EndTenant(k)
  <2>0. call[k].pc \in EventSteps
    BY <1>f DEF ActivateTenant, ActivateSub, EndTenant, At, EventSteps
  <2>1. /\ 1 \in DOMAIN events /\ events[1] = e /\ Truthful(e) /\ e.sid \in Sid
    BY <1>5, <2>0, Faces DEF TypeInv
  <2>2. stripe[e.sid].plan # "STARTER"
    BY <2>1 DEF OneAtATime, Truthful
  <2>3. CASE ActivateTenant(k)
    <3>1. UNCHANGED sub /\ tenant'.plan # "STARTER"
      BY <1>5, <2>2, <2>3 DEF ActivateTenant, SetPlan, TypeInv, TypeOK
    <3> QED BY <1>1, <3>1
  <2>4. CASE EndTenant(k)
    <3>1. /\ UNCHANGED sub /\ e.status = "CANCELED"
          /\ sub.sid = e.sid \/ UNCHANGED tenant
      BY <1>5, <1>a, <2>4 DEF EndTenant, Mine, At, Ready
    <3>2. ~Charged(e.sid)
      BY <2>1, <3>1 DEF Truthful, Charged
    <3>3. CASE sub.sid = e.sid
      BY <1>1, <3>1, <3>2, <3>3
    <3>4. CASE UNCHANGED tenant
      BY <1>b, <1>d, <3>1, <3>4 DEF BuyInv, OneAtATime
    <3> QED BY <3>1, <3>3, <3>4
  <2>5. CASE ActivateSub(k)
    <3>1. /\ sub'.sid = e.sid /\ UNCHANGED tenant /\ tenant.plan # "STARTER"
          /\ e.type = "completed" /\ Goto(k, "ack")
      BY <1>5, <1>a, <2>2, <2>5 DEF ActivateSub, At, Ready
    <3>2. Bought(e.sid)
      BY <2>1, <3>1 DEF Bought
    <3>3. At(k, "ack")' /\ call'[k].event = e
      BY <1>5, <3>1, GoesOn DEF At, TypeInv, Steps
    <3>4. ASSUME NEW s \in Sid, Bought(s), s # e.sid PROVE e.sid < s
      <4>1. PICK i \in DOMAIN events : events[i].sid = s
        BY <3>4 DEF Bought
      <4>2. 1 < i
        BY <2>1, <3>4, <4>1, LenProperties DEF TypeInv, TypeOK
      <4>3. e.sid <= s
        BY <2>1, <4>1, <4>2 DEF OneAtATime
      <4> QED BY <2>1, <3>4, <4>3, SidNat
    <3>5. ASSUME NEW s \in Sid, Charged(s), ~Bought(s) PROVE s = e.sid
      <4>1. sub.sid = s
        BY <3>5 DEF OneAtATime
      <4>2. s # NoSid
        BY SidAssumption
      <4>3. s < e.sid
        BY <1>d, <2>1, <3>2, <4>1, <4>2
      <4>4. stripe[s].status = "canceled"
        BY <2>1, <4>3 DEF OneAtATime, Truthful
      <4> QED BY <3>5, <4>4 DEF Charged
    <3> QED BY <1>b, <3>1, <3>2, <3>3, <3>4, <3>5 DEF BuyInv
  <2> QED BY <1>f, <2>3, <2>4, <2>5
<1> QED BY <1>2, <1>3, <1>4, <1>f

\* A handler that has done its work is alone and only answers, or dies.
LEMMA AckStays ==
  ASSUME TypeInv, limits.serial, QueueInv, [Next]_vars, NEW k \in Call, At(k, "ack"),
         ~Ack(k), ~Dies(k)
  PROVE  call'[k] = call[k]
<1>1. CASE UNCHANGED call
  BY <1>1
<1>2. ASSUME NEW j \in Call, ~At(j, "idle") \/ Alone, \A i \in Call \ {j} : call'[i] = call[i],
             j = k
      PROVE  call'[k] = call[k]
  <2>1. ~Alone
    BY DEF Alone, At
  <2>2. ~Step(k)
    BY DEF Step, DowngradeStop, DowngradeTenant, DowngradeSub, CancelStripe, CancelMark,
         DeleteStop, DeleteSub, DeleteTenant, DeleteTx, TeamCreateInsert, TeamUpdateWrite,
         TeamRemoveWrite, ActivateTenant, ActivateSub, SubscriptionUpdated,
         SubscriptionDeleted, EndTenant, PaymentFailed, At
  <2>3. ASSUME NEW i \in Call, Step(i) \/ Dies(i) PROVE call'[k] = call[k]
    <3>1. i # k /\ ~At(i, "idle")
      BY <2>2, <2>3, HandlerMoves DEF Dies
    <3> QED BY <3>1 DEF QueueInv, Lone, At
  <2>4. ASSUME NEW s \in Sid,
               Pay(s) \/ PeriodEnds(s) \/ PaymentFails(s) \/ Pauses(s) \/ PaymentRecovers(s) \/ GivesUp(s)
        PROVE  call' = call
    BY <2>4 DEF Pay, PeriodEnds, PaymentFails, Pauses, PaymentRecovers, GivesUp, StripeStep
  <2>5. ~ \E i \in Call : \/ DowngradeRead(i) \/ CancelRead(i) \/ DeleteRead(i)
                          \/ \E p \in PlanCode : Checkout(i, p)
                          \/ \E u \in User : \/ TeamCreateRead(i, u) \/ TeamRemoveRead(i, u)
                                            \/ \E on \in BOOLEAN : TeamUpdateRead(i, u, on)
                          \/ \E e \in DOMAIN events : Deliver(i, e)
    BY <2>1 DEF DowngradeRead, CancelRead, DeleteRead, Checkout, TeamCreateRead,
         TeamRemoveRead, TeamUpdateRead, Request, Deliver
  <2> QED BY <2>3, <2>4, <2>5 DEF Next, vars
<1>3. ASSUME NEW j \in Call, \A i \in Call \ {j} : call'[i] = call[i], j # k
      PROVE  call'[k] = call[k]
  BY <1>3
<1> QED BY <1>1, <1>2, <1>3, OneMoves

\* One step of a tenant that buys one plan at a time.
LEMMA OneAtATimeStep ==
  ASSUME TypeInv, TypeInv', limits.serial, limits.ordered, "upgrade" \notin limits.ops,
         faults = 0, faults' = 0, QueueInv, RowsInv, OneAtATime, [Next]_vars
  PROVE  OneAtATime'
<1> USE DEF TypeInv
<1>0. \A k \in Call : ~Dies(k)
  BY DEF Dies, Fault
<1>1. ASSUME NEW k \in Call, Ack(k) PROVE BuyInv'
  BY <1>1, BuyAck
<1>2. ASSUME NEW k \in Call,
             \/ DowngradeTenant(k) \/ DowngradeSub(k) \/ DeleteTenant(k)
             \/ ActivateTenant(k) \/ ActivateSub(k) \/ EndTenant(k)
      PROVE  BuyInv'
  <2>1. UNCHANGED <<stripe, events>>
    BY <1>2 DEF DowngradeTenant, DowngradeSub, DeleteTenant, ActivateTenant, ActivateSub, EndTenant
  <2> QED BY <1>2, <2>1, BuyWrite
<1>3. ASSUME \A k \in Call :
               /\ ~Ack(k) /\ ~DowngradeTenant(k) /\ ~DowngradeSub(k) /\ ~DeleteTenant(k)
               /\ ~ActivateTenant(k) /\ ~ActivateSub(k) /\ ~EndTenant(k)
      PROVE  BuyInv'
  <2>1. Onward
    BY <1>3, LedgerMoves, OnwardMoves
  <2>2. \A k \in Call : At(k, "ack") => call'[k] = call[k]
    BY <1>0, <1>3, AckStays
  <2>3. tenant'.plan = tenant.plan /\ sub'.sid = sub.sid
    <3>1. CASE UNCHANGED <<tenant, sub>>
      BY <3>1
    <3>2. ASSUME NEW k \in Call, DeleteTx(k) PROVE tenant'.plan = tenant.plan /\ sub'.sid = sub.sid
      BY <3>2 DEF DeleteTx, TypeOK
    <3>3. ASSUME NEW k \in Call,
                 \/ CancelMark(k) \/ DeleteSub(k) \/ SubscriptionUpdated(k)
                 \/ SubscriptionDeleted(k) \/ PaymentFailed(k)
          PROVE  tenant'.plan = tenant.plan /\ sub'.sid = sub.sid
      BY <3>3 DEF CancelMark, DeleteSub, SubscriptionUpdated, SubscriptionDeleted, PaymentFailed,
           TypeOK, Subscription
    <3>4. ASSUME NEW k \in Call, Step(k) PROVE tenant'.plan = tenant.plan /\ sub'.sid = sub.sid
      BY <1>3, <3>1, <3>2, <3>3, <3>4 DEF Step, DowngradeStop, CancelStripe, DeleteStop,
           TeamCreateInsert, TeamUpdateWrite, TeamRemoveWrite, rows
    <3>5. ASSUME NEW k \in Call,
                 \/ DowngradeRead(k) \/ CancelRead(k) \/ DeleteRead(k)
                 \/ \E p \in PlanCode : Checkout(k, p)
                 \/ \E u \in User : \/ TeamCreateRead(k, u) \/ TeamRemoveRead(k, u)
                                   \/ \E on \in BOOLEAN : TeamUpdateRead(k, u, on)
                 \/ \E i \in DOMAIN events : Deliver(k, i)
          PROVE  UNCHANGED <<tenant, sub>>
      BY <3>5 DEF DowngradeRead, CancelRead, DeleteRead, Checkout, TeamCreateRead,
           TeamRemoveRead, TeamUpdateRead, Deliver, rows
    <3>6. ASSUME NEW s \in Sid,
                 Pay(s) \/ PeriodEnds(s) \/ PaymentFails(s) \/ Pauses(s) \/ PaymentRecovers(s) \/ GivesUp(s)
          PROVE  UNCHANGED <<tenant, sub>>
      BY <3>6 DEF Pay, PeriodEnds, PaymentFails, Pauses, PaymentRecovers, GivesUp, StripeStep, rows
    <3> QED BY <1>0, <3>1, <3>4, <3>5, <3>6 DEF Next, vars
  <2> QED BY <2>1, <2>2, <2>3, BuyCarried DEF RowsInv
<1>4. BuyInv'
  BY <1>1, <1>2, <1>3
<1> QED BY <1>4, InOrder DEF OneAtATime, BuyInv

\* Without failures, Stripe charges a tenant at rest for the plan it has and for nothing
\* else: a paid plan is never kept for nothing, and a tenant that buys one plan at a time is
\* not charged on the free plan.
THEOREM PlanIsCharged == Spec => []ChargedForPlan
<1> DEFINE Buys == /\ limits.serial /\ limits.ordered /\ limits.faults = 0
                   /\ "upgrade" \notin limits.ops
           Inv == TypeInv /\ BooksInv /\ (Buys => OneAtATime)
<1>0. ASSUME TypeInv, limits.faults = 0 PROVE faults = 0
  BY <1>0 DEF TypeInv, TypeOK
<1>1. Init => Inv
  <2> SUFFICES ASSUME Init PROVE OneAtATime /\ TypeInv /\ BooksInv
    OBVIOUS
  <2>1. /\ DOMAIN events = {} /\ \A s \in Sid : stripe[s].status = "none"
    BY DEF Init
  <2>2. OneAtATime
    BY <2>1 DEF OneAtATime, Bought, Charged
  <2> QED BY <2>2, BooksInit
<1>2. Inv /\ [Next]_vars => Inv'
  <2> SUFFICES ASSUME Inv, [Next]_vars PROVE Inv'
    OBVIOUS
  <2>1. (TypeInv /\ BooksInv)'
    BY BooksInvStep
  <2>2. UNCHANGED limits
    BY OneMoves
  <2>3. ASSUME Buys PROVE OneAtATime'
    <3>1. faults = 0 /\ faults' = 0
      BY <2>1, <2>2, <2>3 DEF TypeInv, TypeOK
    <3> QED BY <2>1, <2>3, <3>1, OneAtATimeStep DEF BooksInv
  <2> QED BY <2>1, <2>2, <2>3
<1>3. Inv => ChargedForPlan
  <2> SUFFICES ASSUME Inv, limits.serial, limits.ordered, limits.faults = 0, Quiet
               PROVE  /\ tenant.plan # "STARTER" =>
                           sub.sid # NoSid /\ Charged(sub.sid) /\ stripe[sub.sid].plan = tenant.plan
                      /\ "upgrade" \notin limits.ops /\ tenant.plan = "STARTER" =>
                           \A s \in Sid : ~Charged(s)
    BY DEF ChargedForPlan
  <2>1. RowsInv /\ DOMAIN events = {} /\ \A k \in Call : At(k, "idle")
    BY <1>0 DEF BooksInv, Quiet
  <2>2. /\ \A s : ~Bought(s) /\ ~Over(s)
        /\ Agree /\ SubInv
    BY <1>0, <2>1 DEF RowsInv, Healing, Unhealed, Bought, Over
  <2> QED BY <2>2 DEF Agree, SubInv, OneAtATime
<1> QED BY <1>1, <1>2, <1>3, PTL DEF Spec
================================================================================
