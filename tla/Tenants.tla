--------------------------------- MODULE Tenants ---------------------------------
(***************************************************************************)
(* One tenant's plan: the tenant's row and its subscription's row, the     *)
(* subscriptions Stripe keeps for it, Stripe's events, the team that the   *)
(* plan admits, and the deletion of the account.                           *)
(*                                                                         *)
(* A handler of the API is a record with its next step; each step is one   *)
(* statement or one call to Stripe, and no transaction joins them (except  *)
(* the one that ends deleteAccount).  Stripe sends an event again until a  *)
(* handler has answered it.                                                *)
(*                                                                         *)
(* Left out: Stripe's customer record, prices, periods, the local demo     *)
(* mode, passwords, and the personal data that exportData reads and        *)
(* deleteAccount blanks.                                                   *)
(***************************************************************************)
EXTENDS Naturals, Sequences, FiniteSets, FiniteSetsExt, SequencesExt

CONSTANTS
  Sid,          \* checkout sessions and the subscriptions paid through them
  User, Owner,  \* members the team may have
  Call,         \* handlers of the API
  Limits,       \* instances
  NoSid, NoUser

PlanCode == {"STARTER", "PRO", "BUSINESS"}
SubscriptionStatus == {"TRIALING", "ACTIVE", "PAST_DUE", "CANCELED", "INCOMPLETE"}
maxProfessionals == [p \in PlanCode |-> IF p = "BUSINESS" THEN 2 ELSE 1]

ASSUME SidAssumption ==
  IsFiniteSet(Sid) /\ Sid # {} /\ Sid = 1 .. Cardinality(Sid) /\ NoSid \notin Sid
ASSUME UserAssumption == Owner \in User /\ NoUser \notin User
ASSUME CallAssumption == IsFiniteSet(Call) /\ Call # {}
ASSUME LimitsAssumption ==
  Limits \subseteq [serial : BOOLEAN,   \* one handler at a time
                    ordered : BOOLEAN,  \* events arrive once and in order
                    faults : 0 .. 2, calls : 1 .. 6, plans : SUBSET PlanCode,
                    ops : SUBSET {"starter", "checkout", "upgrade", "cancel", "delete",
                                  "create", "update", "remove", "unpaid"}]

VARIABLES
  tenant,    \* the tenant's row: plan, deleted
  sub,       \* the subscription's row
  stripe,    \* Stripe's sessions and subscriptions
  events,    \* Stripe's events that no handler has answered
  users,     \* "none", "active", "inactive" or "deleted"
  call, begun,
  \* History, read by nobody:
  held,      \* the plans the tenant has had
  revived,   \* the members who were made active again
  limits, faults

vars == <<tenant, sub, stripe, events, users, call, begun, held, revived, limits, faults>>

Subscription == [plan : PlanCode, status : SubscriptionStatus, cancelAtPeriodEnd : BOOLEAN,
                 limit : PlanCode, sid : Sid \cup {NoSid}]
StripeSub == [status : {"none", "open", "active", "past_due", "canceled"},
              plan : PlanCode, ending : BOOLEAN]
Event == [type : {"completed", "updated", "deleted", "payment_failed"}, sid : Sid,
          status : SubscriptionStatus, ending : BOOLEAN]
Steps == {"idle", "stop", "free", "freeSub", "end", "mark", "closeStop", "closeSub",
          "closeTenant", "close", "join", "set", "drop", "actTenant", "actSub",
          "updated", "deleted", "endTenant", "pastDue", "ack"}
EventSteps == {"actTenant", "actSub", "updated", "deleted", "endTenant", "pastDue", "ack"}
NoEvent == [type |-> "completed", sid |-> 1, status |-> "ACTIVE", ending |-> FALSE]
Silent == [pc |-> "idle", sid |-> NoSid, user |-> NoUser, on |-> FALSE, event |-> NoEvent]

\* register: an owner alone, on the free plan, its limit written in the row.
Init ==
  /\ tenant = [plan |-> "STARTER", deleted |-> FALSE]
  /\ sub = [plan |-> "STARTER", status |-> "TRIALING", cancelAtPeriodEnd |-> FALSE,
            limit |-> "STARTER", sid |-> NoSid]
  /\ stripe = [s \in Sid |-> [status |-> "none", plan |-> "STARTER", ending |-> FALSE]]
  /\ events = <<>>
  /\ users = [u \in User |-> IF u = Owner THEN "active" ELSE "none"]
  /\ call = [k \in Call |-> Silent] /\ begun = 0
  /\ held = {"STARTER"} /\ revived = {}
  /\ limits \in Limits /\ faults = 0

At(k, l) == call[k].pc = l
Goto(k, l) == call' = [call EXCEPT ![k].pc = l]
End(k) == call' = [call EXCEPT ![k] = Silent]
Fault == faults < limits.faults /\ faults' = faults + 1
Alone == limits.serial => \A k \in Call : At(k, "idle")
Charged(s) == stripe[s].status \in {"active", "past_due"}
ActiveUsers == {u \in User : users[u] = "active"}
rows == <<tenant, sub, users, held, revived>>
static == <<limits, begun>>

\* A request of the owner, whose session JwtStrategy checks against the database.
Request(k, op, record) ==
  /\ op \in limits.ops /\ At(k, "idle") /\ Alone /\ begun < limits.calls
  /\ users[Owner] = "active" /\ ~tenant.deleted
  /\ call' = [call EXCEPT ![k] = record] /\ begun' = begun + 1

Tell(es) == events' = events \o es
EventOf(type, s, status, ending) ==
  [type |-> type, sid |-> s, status |-> status, ending |-> ending]

SetPlan(p) == tenant' = [tenant EXCEPT !.plan = p] /\ held' = held \cup {p}

--------------------------------------------------------------------------------
(* BillingService: the owner's requests.                                   *)

\* Mutant: the free plan is written whatever Stripe still charges.
DowngradeRead_NoStop(k) ==
  /\ Request(k, "starter", [Silent EXCEPT !.pc = "free"])
  /\ UNCHANGED <<rows, stripe, events, limits, faults>>

\* createCheckout(STARTER) reads the subscription it must cancel first.
DowngradeRead(k) ==
  /\ Request(k, "starter", [Silent EXCEPT !.sid = sub.sid,
                              !.pc = IF sub.sid = NoSid THEN "free" ELSE "stop"])
  /\ UNCHANGED <<rows, stripe, events, limits, faults>>

\* Stripe cancels a subscription at once, or refuses one it no longer has.
CancelNow(s) ==
  /\ Charged(s)
  /\ stripe' = [stripe EXCEPT ![s].status = "canceled"]
  /\ Tell(<<EventOf("deleted", s, "CANCELED", FALSE)>>)

\* Unless Stripe has answered that it is cancelled, the plan stays.
DowngradeStop(k) ==
  /\ At(k, "stop")
  /\ \/ CancelNow(call[k].sid) /\ Goto(k, "free") /\ UNCHANGED faults
     \/ CancelNow(call[k].sid) /\ End(k) /\ Fault  \* the answer is lost
     \/ /\ End(k) /\ UNCHANGED <<stripe, events>>
        /\ IF Charged(call[k].sid) THEN Fault ELSE UNCHANGED faults
  /\ UNCHANGED <<rows, static>>

DowngradeTenant(k) ==
  /\ At(k, "free") /\ SetPlan("STARTER") /\ Goto(k, "freeSub")
  /\ UNCHANGED <<sub, stripe, events, users, revived, static, faults>>

DowngradeSub(k) ==
  /\ At(k, "freeSub") /\ End(k)
  /\ sub' = [plan |-> "STARTER", status |-> "ACTIVE", cancelAtPeriodEnd |-> FALSE,
             limit |-> "STARTER", sid |-> NoSid]
  /\ UNCHANGED <<tenant, held, stripe, events, users, revived, static, faults>>

\* createCheckout of a paid plan opens a session; nothing is written here.  The
\* page offers every plan but the current one, so an upgrade leaves the former
\* subscription as it is.
Checkout(k, p) ==
  \E s \in Sid :
    /\ Request(k, "checkout", Silent)
    /\ p \in limits.plans \ {"STARTER", tenant.plan}
    /\ stripe[s].status = "none" /\ \A t \in Sid : t < s => stripe[t].status # "none"
    /\ \/ "upgrade" \in limits.ops
       \/ sub.sid = NoSid /\ \A t \in Sid : stripe[t].status \in {"none", "canceled"}
    /\ stripe' = [stripe EXCEPT ![s] = [status |-> "open", plan |-> p, ending |-> FALSE]]
    /\ UNCHANGED <<rows, events, limits, faults>>

\* cancel(): at the end of the period.
CancelRead(k) ==
  /\ Request(k, "cancel", [Silent EXCEPT !.sid = sub.sid,
                             !.pc = IF sub.sid = NoSid THEN "mark" ELSE "end"])
  /\ UNCHANGED <<rows, stripe, events, limits, faults>>

CancelStripe(k) ==
  LET s == call[k].sid IN
  /\ At(k, "end")
  /\ \/ /\ Charged(s) /\ Goto(k, "mark") /\ UNCHANGED faults
        /\ stripe' = [stripe EXCEPT ![s].ending = TRUE]
        /\ Tell(<<EventOf("updated", s,
                    IF stripe[s].status = "active" THEN "ACTIVE" ELSE "PAST_DUE", TRUE)>>)
     \/ /\ End(k) /\ UNCHANGED <<stripe, events>>
        /\ IF Charged(s) THEN Fault ELSE UNCHANGED faults
  /\ UNCHANGED <<rows, static>>

CancelMark(k) ==
  /\ At(k, "mark") /\ End(k)
  /\ sub' = [sub EXCEPT !.cancelAtPeriodEnd = TRUE]
  /\ UNCHANGED <<tenant, held, stripe, events, users, revived, static, faults>>

--------------------------------------------------------------------------------
(* AccountService.deleteAccount.                                           *)

DeleteRead(k) ==
  /\ Request(k, "delete", [Silent EXCEPT !.sid = sub.sid,
                             !.pc = IF sub.sid = NoSid THEN "closeSub" ELSE "closeStop"])
  /\ UNCHANGED <<rows, stripe, events, limits, faults>>

\* A failure of Stripe is logged and the deletion goes on.
DeleteStop(k) ==
  /\ At(k, "closeStop") /\ Goto(k, "closeSub")
  /\ \/ CancelNow(call[k].sid) /\ UNCHANGED faults
     \/ /\ UNCHANGED <<stripe, events>>
        /\ IF Charged(call[k].sid) THEN Fault ELSE UNCHANGED faults
  /\ UNCHANGED <<rows, static>>

DeleteSub(k) ==
  /\ At(k, "closeSub") /\ Goto(k, "closeTenant")
  /\ sub' = [sub EXCEPT !.status = "CANCELED", !.plan = "STARTER", !.cancelAtPeriodEnd = FALSE]
  /\ UNCHANGED <<tenant, held, stripe, events, users, revived, static, faults>>

DeleteTenant(k) ==
  /\ At(k, "closeTenant") /\ SetPlan("STARTER") /\ Goto(k, "close")
  /\ UNCHANGED <<sub, stripe, events, users, revived, static, faults>>

\* One transaction removes every user and closes the tenant.
DeleteTx(k) ==
  /\ At(k, "close") /\ End(k)
  /\ users' = [u \in User |-> IF users[u] = "none" THEN "none" ELSE "deleted"]
  /\ tenant' = [tenant EXCEPT !.deleted = TRUE]
  /\ UNCHANGED <<sub, held, revived, stripe, events, static, faults>>

--------------------------------------------------------------------------------
(* TeamService.                                                            *)

\* Mutant: the comparison admits one member more.
TeamCreateRead_OffByOne(k, u) ==
  /\ Request(k, "create", [Silent EXCEPT !.pc = "join", !.user = u])
  /\ users[u] = "none" /\ Cardinality(ActiveUsers) <= maxProfessionals[tenant.plan]
  /\ UNCHANGED <<rows, stripe, events, limits, faults>>

\* create() counts the active members against the tenant's plan...
TeamCreateRead(k, u) ==
  /\ Request(k, "create", [Silent EXCEPT !.pc = "join", !.user = u])
  /\ users[u] = "none" /\ Cardinality(ActiveUsers) < maxProfessionals[tenant.plan]
  /\ UNCHANGED <<rows, stripe, events, limits, faults>>

\* ... and inserts; an address inserted meanwhile is refused by its index.
TeamCreateInsert(k) ==
  LET u == call[k].user IN
  /\ At(k, "join") /\ End(k)
  /\ users' = IF users[u] = "none" THEN [users EXCEPT ![u] = "active"] ELSE users
  /\ UNCHANGED <<tenant, sub, held, revived, stripe, events, static, faults>>

TeamUpdateRead(k, u, on) ==
  /\ Request(k, "update", [Silent EXCEPT !.pc = "set", !.user = u, !.on = on])
  /\ users[u] \in {"active", "inactive"} /\ (u = Owner => on)
  /\ UNCHANGED <<rows, stripe, events, limits, faults>>

TeamUpdateWrite(k) ==
  LET u == call[k].user IN
  /\ At(k, "set") /\ End(k)
  /\ users' = [users EXCEPT ![u] = IF @ = "deleted" THEN @
                                   ELSE IF call[k].on THEN "active" ELSE "inactive"]
  /\ revived' = IF call[k].on THEN revived \cup {v \in User : v = u /\ users[v] # "active"}
                ELSE revived \ {u}
  /\ UNCHANGED <<tenant, sub, held, stripe, events, static, faults>>

TeamRemoveRead(k, u) ==
  /\ Request(k, "remove", [Silent EXCEPT !.pc = "drop", !.user = u])
  /\ users[u] \in {"active", "inactive"} /\ u # Owner
  /\ UNCHANGED <<rows, stripe, events, limits, faults>>

TeamRemoveWrite(k) ==
  /\ At(k, "drop") /\ End(k)
  /\ users' = [users EXCEPT ![call[k].user] = "deleted"]
  /\ revived' = revived \ {call[k].user}
  /\ UNCHANGED <<tenant, sub, held, stripe, events, static, faults>>

--------------------------------------------------------------------------------
(* Stripe.                                                                 *)

StripeStep(s, from, to, es) ==
  /\ stripe[s].status = from
  /\ stripe' = [stripe EXCEPT ![s].status = to] /\ Tell(es)
  /\ UNCHANGED <<rows, call, static, faults>>

Pay(s) == StripeStep(s, "open", "active", <<EventOf("completed", s, "ACTIVE", FALSE)>>)

PeriodEnds(s) ==
  /\ stripe[s].ending
  /\ StripeStep(s, "active", "canceled", <<EventOf("deleted", s, "CANCELED", FALSE)>>)

PaymentFails(s) ==
  /\ "unpaid" \in limits.ops /\ Len(events) < 2
  /\ StripeStep(s, "active", "past_due",
       <<EventOf("payment_failed", s, "PAST_DUE", stripe[s].ending),
         EventOf("updated", s, "PAST_DUE", stripe[s].ending)>>)

\* Paused, it is not paid for either; billing.service knows the status by no name.
Pauses(s) ==
  /\ "unpaid" \in limits.ops /\ Len(events) < 2
  /\ StripeStep(s, "active", "past_due",
       <<EventOf("updated", s, "INCOMPLETE", stripe[s].ending)>>)

PaymentRecovers(s) ==
  /\ Len(events) < 2
  /\ StripeStep(s, "past_due", "active",
       <<EventOf("updated", s, "ACTIVE", stripe[s].ending)>>)

\* After its last attempt Stripe cancels, and says so in one way or the other.
GivesUp(s) ==
  \E type \in {"updated", "deleted"} :
    StripeStep(s, "past_due", "canceled", <<EventOf(type, s, "CANCELED", FALSE)>>)

--------------------------------------------------------------------------------
(* BillingService.handleStripeWebhook.                                     *)

\* Any event not answered yet may arrive, and arrive again while the first
\* delivery is being handled; in an ordered instance only the oldest, once.
Deliver(k, i) ==
  /\ At(k, "idle") /\ Alone /\ i \in DOMAIN events
  /\ limits.ordered => i = 1 /\ \A k2 \in Call : call[k2].event # events[1] \/ At(k2, "idle")
  /\ call' = [call EXCEPT ![k] = [Silent EXCEPT !.event = events[i],
                !.pc = CASE events[i].type = "completed" -> "actTenant"
                         [] events[i].type = "updated" -> "updated"
                         [] events[i].type = "deleted" -> "deleted"
                         [] events[i].type = "payment_failed" -> "pastDue"]]
  /\ UNCHANGED <<rows, stripe, events, static, faults>>

\* activatePlanLocally writes the tenant's row...
ActivateTenant(k) ==
  /\ At(k, "actTenant") /\ SetPlan(stripe[call[k].event.sid].plan) /\ Goto(k, "actSub")
  /\ UNCHANGED <<sub, stripe, events, users, revived, static, faults>>

\* ... and then the subscription's.
ActivateSub(k) ==
  LET s == call[k].event.sid
      p == stripe[s].plan IN
  /\ At(k, "actSub") /\ Goto(k, "ack")
  /\ sub' = [plan |-> p, status |-> "ACTIVE", cancelAtPeriodEnd |-> FALSE, limit |-> p, sid |-> s]
  /\ UNCHANGED <<tenant, held, stripe, events, users, revived, static, faults>>

\* The rows of another subscription are left alone.
Mine(k) == sub.sid = call[k].event.sid

\* Mutant: the update copies the status and leaves the plan.
SubscriptionUpdated_StatusOnly(k) ==
  LET e == call[k].event IN
  /\ At(k, "updated") /\ Goto(k, "ack")
  /\ sub' = IF Mine(k) THEN [sub EXCEPT !.status = e.status, !.cancelAtPeriodEnd = e.ending]
            ELSE sub
  /\ UNCHANGED <<tenant, held, stripe, events, users, revived, static, faults>>

SubscriptionUpdated(k) ==
  LET e == call[k].event IN
  /\ At(k, "updated") /\ Goto(k, IF e.status = "CANCELED" THEN "endTenant" ELSE "ack")
  /\ sub' = IF ~Mine(k) THEN sub
            ELSE [sub EXCEPT !.status = e.status, !.cancelAtPeriodEnd = e.ending,
                             !.plan = IF e.status = "CANCELED" THEN "STARTER" ELSE @]
  /\ UNCHANGED <<tenant, held, stripe, events, users, revived, static, faults>>

\* Mutant: the event ends the subscription's row and forgets the tenant's.
SubscriptionDeleted_SubOnly(k) ==
  /\ At(k, "deleted") /\ Goto(k, "ack")
  /\ sub' = IF ~Mine(k) THEN sub
            ELSE [sub EXCEPT !.status = "CANCELED", !.plan = "STARTER",
                             !.cancelAtPeriodEnd = FALSE]
  /\ UNCHANGED <<tenant, held, stripe, events, users, revived, static, faults>>

SubscriptionDeleted(k) ==
  /\ At(k, "deleted") /\ Goto(k, "endTenant")
  /\ sub' = IF ~Mine(k) THEN sub
            ELSE [sub EXCEPT !.status = "CANCELED", !.plan = "STARTER",
                             !.cancelAtPeriodEnd = FALSE]
  /\ UNCHANGED <<tenant, held, stripe, events, users, revived, static, faults>>

EndTenant(k) ==
  /\ At(k, "endTenant") /\ Goto(k, "ack")
  /\ IF Mine(k) THEN SetPlan("STARTER") ELSE UNCHANGED <<tenant, held>>
  /\ UNCHANGED <<sub, stripe, events, users, revived, static, faults>>

\* Mutant: Stripe's own word for the status goes into the row.
PaymentFailed_RawStatus(k) ==
  /\ At(k, "pastDue") /\ Goto(k, "ack")
  /\ sub' = IF Mine(k) THEN [sub EXCEPT !.status = "past_due"] ELSE sub
  /\ UNCHANGED <<tenant, held, stripe, events, users, revived, static, faults>>

PaymentFailed(k) ==
  /\ At(k, "pastDue") /\ Goto(k, "ack")
  /\ sub' = IF Mine(k) THEN [sub EXCEPT !.status = "PAST_DUE"] ELSE sub
  /\ UNCHANGED <<tenant, held, stripe, events, users, revived, static, faults>>

\* The answer ends the event's deliveries.
Ack(k) ==
  /\ At(k, "ack") /\ End(k)
  /\ \E i \in DOMAIN events \cup {0} :
       /\ i = 0 => \A j \in DOMAIN events : events[j] # call[k].event
       /\ i # 0 => events[i] = call[k].event
       /\ events' = IF i = 0 THEN events ELSE RemoveAt(events, i)
  /\ UNCHANGED <<rows, stripe, static, faults>>

\* A statement fails or the process stops: what was done stays done.
Dies(k) ==
  /\ ~At(k, "idle") /\ Fault /\ End(k)
  /\ UNCHANGED <<rows, stripe, events, static>>

--------------------------------------------------------------------------------
Step(k) ==
  \/ DowngradeStop(k) \/ DowngradeTenant(k) \/ DowngradeSub(k)
  \/ CancelStripe(k) \/ CancelMark(k)
  \/ DeleteStop(k) \/ DeleteSub(k) \/ DeleteTenant(k) \/ DeleteTx(k)
  \/ TeamCreateInsert(k) \/ TeamUpdateWrite(k) \/ TeamRemoveWrite(k)
  \/ ActivateTenant(k) \/ ActivateSub(k) \/ SubscriptionUpdated(k)
  \/ SubscriptionDeleted(k) \/ EndTenant(k) \/ PaymentFailed(k) \/ Ack(k)

Next ==
  \/ \E k \in Call : Step(k) \/ Dies(k) \/ DowngradeRead(k) \/ CancelRead(k) \/ DeleteRead(k)
  \/ \E k \in Call, p \in PlanCode : Checkout(k, p)
  \/ \E k \in Call, u \in User :
       TeamCreateRead(k, u) \/ TeamRemoveRead(k, u) \/ \E on \in BOOLEAN : TeamUpdateRead(k, u, on)
  \/ \E k \in Call : \E i \in DOMAIN events : Deliver(k, i)
  \/ \E s \in Sid : \/ Pay(s) \/ PeriodEnds(s) \/ PaymentFails(s) \/ Pauses(s)
                   \/ PaymentRecovers(s) \/ GivesUp(s)

Spec == Init /\ [][Next]_vars

\* A handler that has begun goes on, and Stripe sends its oldest event again
\* until a handler has answered it.
Fairness == \A k \in Call : WF_vars(Step(k)) /\ SF_vars(Deliver(k, 1))
FairSpec == Spec /\ Fairness

--------------------------------------------------------------------------------
(* Properties.                                                             *)

\* Every variable has its type.
TypeOK ==
  /\ tenant \in [plan : PlanCode, deleted : BOOLEAN]
  /\ sub \in Subscription /\ stripe \in [Sid -> StripeSub]
  /\ events \in Seq(Event) /\ users \in [User -> {"none", "active", "inactive", "deleted"}]
  /\ call \in [Call -> [pc : Steps, sid : Sid \cup {NoSid}, user : User \cup {NoUser},
                        on : BOOLEAN, event : Event]]
  /\ begun \in 0 .. limits.calls /\ faults \in 0 .. limits.faults
  /\ held \subseteq PlanCode /\ revived \subseteq User /\ limits \in Limits

Quiet == events = <<>> /\ \A k \in Call : At(k, "idle")

\* The two rows that carry the plan are written by different statements.  With
\* one handler at a time and events in order they agree again once Stripe's events
\* are answered, even when a handler of a webhook, a downgrade or a deletion dies
\* between the two.  (Two failures are too many: Stripe cannot be reached, and then
\* the deletion dies between the rows; no event will come to repair them.  So is an
\* end that arrives before the purchase it ends: its subscription is not recorded
\* yet and it changes nothing.)
PlansAgree ==
  limits.serial /\ limits.ordered /\ faults <= 1 /\ Quiet => tenant.plan = sub.plan

\* At rest, without failures and with events in order, Stripe charges for the plan
\* the tenant has: nobody keeps a paid plan whose subscription Stripe has ended, and
\* nobody on the free plan is charged, for a downgrade and a deletion end the
\* subscription at Stripe first.  The latter holds for tenants that buy one plan at
\* a time.
ChargedForPlan ==
  limits.serial /\ limits.ordered /\ limits.faults = 0 /\ Quiet =>
    /\ tenant.plan # "STARTER" =>
         sub.sid # NoSid /\ Charged(sub.sid) /\ stripe[sub.sid].plan = tenant.plan
    /\ "upgrade" \notin limits.ops /\ tenant.plan = "STARTER" => \A s \in Sid : ~Charged(s)

\* A team outgrows the plans the tenant has had in two ways only: by members made
\* active again, which no plan is asked about (team.service.ts: update), and by creations
\* that have counted the same members (create, which takes no lock): those admit one
\* too many for each handler but one, and none when requests follow one another.
TeamWithinPlans ==
  \E p \in held :
    Cardinality(ActiveUsers \ revived) <=
      maxProfessionals[p] + (IF limits.serial THEN 0 ELSE Cardinality(Call) - 1)

\* Whether a handler is at work on an event of a subscription, and what Stripe has told
\* of it that no handler has answered.
Handled(s) == \E k \in Call : call[k].pc \in EventSteps /\ call[k].event.sid = s
Told(s, type) == \E i \in DOMAIN events : events[i].sid = s /\ events[i].type = type
EndTold(s) == \E i \in DOMAIN events : events[i].sid = s /\ events[i].status = "CANCELED"

\* The end of the recorded subscription reaches both rows, unless another subscription
\* replaces it: however the deliveries of its events are repeated, reordered and
\* overlap, whatever requests and events of others cross them, and when a handler dies
\* between the rows.  The purchase must have been answered before the end is handled:
\* an end that overtakes it finds no row that names its subscription, and is lost.
CancellationReaches ==
  \A s \in Sid :
    EndTold(s) /\ sub.sid = s /\ ~Told(s, "completed") /\ ~Handled(s)
      ~> sub.sid # s \/ (sub.plan = "STARTER" /\ tenant.plan = "STARTER")
================================================================================
