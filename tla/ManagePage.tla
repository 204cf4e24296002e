------------------------------- MODULE ManagePage -------------------------------
(***************************************************************************)
(* The page behind a manage link (agendamento/[token]): its customer       *)
(* confirms, cancels, moves or reviews the appointment, and the page loads *)
(* it again after each change.  A failed load leaves the old data shown.   *)
(* An emptied date field (NoTime) loads nothing: the times shown, and the  *)
(* one picked, stay those of the former date.                              *)
(* History: hurried, the date was chosen while a list of times or a move   *)
(* was on its way.                                                         *)
(***************************************************************************)
EXTENDS DeskServer

VARIABLE mp   \* the page

ManageInit ==
  mp = [phase |-> "loading", data |-> Nothing, busy |-> "", open |-> "", date |-> limits.today,
        slots |-> {}, slotsLoading |-> FALSE, pick |-> NoTime, hurried |-> FALSE]

Send(kind, arg, then) == Call("manage", kind, arg, then)
ManageStart == IF isOpen("manage") THEN <<Send("get", Nothing, "")>> ELSE <<>>

load(cs, then) == Append(cs, Send("get", Nothing, then))

\* Mutant: the time picked stays picked.
loadSlots_KeepPick(p, cs, date, then) ==
  mp' = [p EXCEPT !.slotsLoading = TRUE] /\ calls' = Append(cs, Send("slots", date, then))

loadSlots(p, cs, date, then) ==
  /\ mp' = [p EXCEPT !.slotsLoading = TRUE, !.pick = NoTime]
  /\ calls' = Append(cs, Send("slots", date, then))

\* The effect on [rescheduleOpen, newDate]; data changes only while it is closed.
Effect(p, cs) ==
  IF p.open = "reschedule" /\ p.date # NoTime /\ <<p.open, p.date>> # <<mp.open, mp.date>>
  THEN loadSlots(p, cs, p.date, "") ELSE mp' = p /\ calls' = cs

isIdle == mp.phase = "ready" /\ mp.busy = ""
isActive == mp.data.status \in ACTIVE_APPOINTMENT_STATUSES

Submit(kind, arg) ==
  mp' = [mp EXCEPT !.busy = kind] /\ calls' = Append(calls, Send(kind, arg, ""))

confirmPresence ==
  /\ isIdle /\ mp.open = "" /\ mp.data.status = "SCHEDULED" /\ Click
  /\ Submit("confirm", [at |-> mp.data.at])

\* The buttons of the section open a modal, which covers them.
Toggle(modal) ==
  /\ isIdle /\ mp.open = "" /\ isActive /\ mp.data.canCancel /\ Click
  /\ Effect([mp EXCEPT !.open = modal], calls)

CloseModal == mp.phase = "ready" /\ mp.open # "" /\ Click /\ Effect([mp EXCEPT !.open = ""], calls)

cancelAppointment ==
  isIdle /\ mp.open = "cancel" /\ isActive /\ Click /\ Submit("cancel", Nothing)

ChangeDate(d) ==
  /\ mp.open = "reschedule" /\ d # mp.date /\ Click
  /\ Effect([mp EXCEPT !.date = d, !.hurried = IF d = NoTime THEN @
                                               ELSE inFlight("slots") \/ inFlight("reschedule")], calls)

PickSlot(d) ==
  /\ mp.open = "reschedule" /\ ~mp.slotsLoading /\ d \in mp.slots /\ d # mp.pick /\ Click
  /\ mp' = [mp EXCEPT !.pick = d] /\ UNCHANGED calls

reschedule ==
  /\ isIdle /\ mp.open = "reschedule" /\ isActive /\ mp.pick # NoTime /\ Click
  /\ Submit("reschedule", [to |-> mp.pick, shown |-> mp.date, hurried |-> mp.hurried])

submitReview ==
  /\ isIdle /\ mp.data.review = "none" /\ mp.data.canReview /\ Click /\ Submit("review", Nothing)

--------------------------------------------------------------------------------

LoadReply(i) ==
  LET r == calls[i].res
  IN /\ Answers(i, "manage", "get") /\ calls' = Others(i)
     /\ mp' = [mp EXCEPT !.data = IF r.ok THEN r.val ELSE @, !.busy = "",
                 !.phase = IF r.ok \/ mp.data # Nothing THEN "ready" ELSE "lost"]

SlotsReply(i) ==
  /\ Answers(i, "manage", "slots") /\ calls' = Others(i)
  /\ mp' = [mp EXCEPT !.slots = IF calls[i].res.ok THEN calls[i].res.val ELSE {},
              !.slotsLoading = FALSE,
              !.busy = IF calls[i].then = "" THEN @ ELSE ""]

\* A change was accepted: the appointment is loaded, busy until it is here.
Changed(i, p) == mp' = p /\ calls' = load(Others(i), calls[i].kind)

MutationReply(i, kind) ==
  /\ Answers(i, "manage", kind)
  /\ LET r == calls[i].res
         closes == kind \in {"cancel", "reschedule"}
     IN IF r.ok THEN Changed(i, IF closes THEN [mp EXCEPT !.open = ""] ELSE mp)
        ELSE IF kind = "reschedule" /\ r.code = 409
        THEN loadSlots(mp, Others(i), calls[i].arg.shown, kind)
        ELSE mp' = [mp EXCEPT !.busy = ""] /\ calls' = Others(i)

ManageClicks ==
  \/ confirmPresence \/ cancelAppointment \/ reschedule \/ submitReview \/ CloseModal
  \/ \E m \in {"cancel", "reschedule"} : Toggle(m)
  \/ \E d \in limits.days \cup {NoTime} : ChangeDate(d)
  \/ \E d \in limits.days : PickSlot(d)

ManageReply(i) ==
  \/ LoadReply(i) \/ SlotsReply(i)
  \/ \E kind \in {"confirm", "cancel", "reschedule", "review"} : MutationReply(i, kind)
================================================================================
