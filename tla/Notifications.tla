----------------------------- MODULE Notifications -----------------------------
(***************************************************************************)
(* The notification outbox: rows of notification_jobs, the BullMQ queue    *)
(* that refers to them, the handlers that create and invalidate rows, and  *)
(* the workers that send them.                                             *)
(*                                                                         *)
(* A handler or a worker in flight is a record with its next step in pc;   *)
(* each database statement, queue call and send is a step, and any other   *)
(* process may run between two of them.  The appointment is kept only as   *)
(* far as messages depend on it: its status and its start.  BullMQ is      *)
(* external: it delays an entry, gives it to one worker, gives it out      *)
(* again once if that worker stalls, and retries a failed one.             *)
(*                                                                         *)
(* Left out: the texts and links, the tenant, and messages to a contact    *)
(* that changes after the row was created.                                 *)
(***************************************************************************)
EXTENDS Integers, Sequences, FiniteSets, SequencesExt

CONSTANTS
  Appt,         \* appointments
  Start,        \* start times an appointment may have
  Job,          \* ids of notification_jobs rows, in order of creation
  Req,          \* handlers that may be in flight together
  Worker,       \* concurrent executions of the BullMQ processor
  Leads,        \* how long before the start reminders go out (24h and 2h)
  MaxTries,     \* attempts of a queue entry (3)
  MaxClock,     \* the last instant of the model
  Limits,       \* instances: how many rows and faults, which handlers, workers and
                \* operations take part, which channels customer and plan allow
  NoAppt, NoJob

Channels == {"EMAIL", "WHATSAPP"}
Operations == {"book", "move", "cancel", "absent", "call"}

ASSUME JobAssumption == IsFiniteSet(Job) /\ Job = 1 .. Cardinality(Job)
ASSUME TimeAssumption ==
  Start \subseteq Nat /\ Leads \subseteq Nat /\ IsFiniteSet(Leads) /\ MaxClock \in Nat
ASSUME TriesAssumption == MaxTries \in Nat \ {0}
ASSUME LimitsAssumption ==
  Limits \subseteq [rows : 0 .. Cardinality(Job), faults : 0 .. 3, handlers : SUBSET Req,
                    workers : SUBSET Worker, ops : SUBSET Operations,
                    contacts : SUBSET Channels]
ASSUME NamesAssumption == IsFiniteSet(Appt) /\ NoAppt \notin Appt /\ NoJob \notin Job

VARIABLES
  appt,     \* appointments: status and startsAt
  row,      \* notification_jobs
  queue,    \* BullMQ's entry for a row: state, failed tries, times it stalled
  req,      \* handlers in flight
  wk,       \* workers
  clock,    \* now
  limits,   \* the instance of this behaviour
  faults,   \* processes, sends, queue calls and statements that failed so far
  spare,    \* rows that no handler has promised to create (bound of the model)
  \* History, read by no process:
  copies,   \* how often the message of a row went out
  current,  \* the worker's reminder was right at some instant since its claim
  dropped   \* appointments whose cancellation was decided, or handler died

vars == <<appt, row, queue, req, wk, clock, limits, faults, spare, copies, current, dropped>>

JobStatus == {"PENDING", "PROCESSING", "COMPLETED", "FAILED"}
JobType == {"BOOKING_CONFIRMATION", "BOOKING_REMINDER", "BOOKING_CANCELLED",
            "WAITLIST_SLOT_OPEN"}
Message == [type : JobType, channel : Channels, appt : Appt \cup {NoAppt},
            at : Start \cup {0}, due : Int]

Mail(type, a) == [type |-> type, channel |-> "EMAIL", appt |-> a, at |-> 0, due |-> 0]
NoRow == [msg |-> Mail("BOOKING_CONFIRMATION", NoAppt), status |-> "NONE"]
Row == [msg : Message, status : JobStatus]
Entry == [state : {"absent", "waiting", "active", "completed", "failed"},
          tries : 0 .. MaxTries, stalls : 0 .. 2]

HandlerPc == {"idle", "write", "void", "read", "create", "add"}
Handler == [pc : HandlerPc, op : Operations, a : Appt \cup {NoAppt},
            at : Start \cup {0}, todo : Seq(Message), j : Job \cup {NoJob}]
NoHandler == [pc |-> "idle", op |-> "call", a |-> NoAppt, at |-> 0,
              todo |-> <<>>, j |-> NoJob]

WorkerPc == {"idle", "read", "precheck", "claim", "void", "latest", "recheck",
             "revoid", "send", "complete", "error"}
Claimed == {"latest", "recheck", "revoid", "send", "complete", "error"}
Execution == [pc : WorkerPc, j : Job \cup {NoJob}, owner : BOOLEAN]
NoExecution == [pc |-> "idle", j |-> NoJob, owner |-> FALSE]

\* A reminder for each lead time, by WhatsApp if the plan has it, by e-mail if the
\* customer left an address.  Their rows are created in some order: no property
\* depends on which (the code's is the longest lead first, WhatsApp first).
Reminder(a, at, lead, c) ==
  [type |-> "BOOKING_REMINDER", channel |-> c, appt |-> a, at |-> at, due |-> at - lead]
Reminders(a, at) == {Reminder(a, at, lead, c) : lead \in Leads, c \in limits.contacts}
AllReminders(a, at) == SetToSeq(Reminders(a, at))

\* Appointments were booked already and wait for their reminders, or will be.
Init ==
  /\ limits \in Limits
  /\ \E booked \in [Appt -> Start \cup {0}] :
       LET old == SetToSeq(UNION {Reminders(a, booked[a]) : a \in {b \in Appt : booked[b] # 0}})
       IN /\ appt = [a \in Appt |-> [status |-> IF booked[a] = 0 THEN "NONE" ELSE "CONFIRMED",
                                      startsAt |-> booked[a]]]
          /\ row = [j \in Job |-> IF j <= Len(old) THEN [msg |-> old[j], status |-> "PENDING"]
                                   ELSE NoRow]
          /\ queue = [j \in Job |-> [state |-> IF j <= Len(old) THEN "waiting" ELSE "absent",
                                      tries |-> 0, stalls |-> 0]]
          /\ Len(old) <= limits.rows
          /\ spare = limits.rows - Len(old)
  /\ req = [r \in Req |-> NoHandler]
  /\ wk = [w \in Worker |-> NoExecution]
  /\ clock = 0 /\ faults = 0
  /\ copies = [j \in Job |-> 0]
  /\ current = [w \in Worker |-> FALSE]
  /\ dropped = {}

Exists(j) == row[j].status # "NONE"
Fault == faults < limits.faults /\ faults' = faults + 1

\* What isBookingReminderStillValid answers for a message at this instant.
Matches(m, rec) ==
  rec.status \notin {"NONE", "CANCELLED", "NO_SHOW"} /\ rec.startsAt = m.at
isBookingReminderStillValid(m) == Matches(m, appt[m.appt])

IsReminder(j) == row[j].msg.type = "BOOKING_REMINDER"

\* The worker has claimed a reminder for a, which would be right if a were rec.
Right(w, a, rec) ==
  /\ wk[w].pc \in Claimed /\ IsReminder(wk[w].j)
  /\ row[wk[w].j].msg.appt = a /\ Matches(row[wk[w].j].msg, rec)

--------------------------------------------------------------------------------
(* The handlers: they write the appointment, then call the service.        *)

\* A handler starts only if the model has the rows it may create.
Rows(op) ==
  CASE op \in {"book", "move"} -> 1 + Cardinality(Leads) * Cardinality(limits.contacts)
    [] op = "cancel" -> Cardinality(limits.contacts \cap {"EMAIL"})
    [] op = "call" -> Cardinality(limits.contacts)
    [] op = "absent" -> 0

Goto(r, l) == req' = [req EXCEPT ![r].pc = l]
Serve(r, h) ==
  /\ r \in limits.handlers /\ h.op \in limits.ops
  /\ req[r].pc = "idle" /\ spare >= Rows(h.op)
  /\ req' = [req EXCEPT ![r] = h] /\ spare' = spare - Rows(h.op)
Finish(r) == req' = [req EXCEPT ![r] = NoHandler]
serviceVars == <<row, queue, wk, limits, copies>>

\* A change of an appointment is an instant at which a reminder may become
\* right again.
SetAppt(a, rec) ==
  /\ appt' = [appt EXCEPT ![a] = rec]
  /\ current' = [w \in Worker |-> current[w] \/ Right(w, a, rec)]

\* bookPublic inserted the appointment and goes on to announce it; the same
\* happens when confirmPaid settles a deposit.
Book(r, a, s) ==
  /\ appt[a].status = "NONE" /\ s > clock
  /\ SetAppt(a, [status |-> "CONFIRMED", startsAt |-> s])
  /\ Serve(r, [NoHandler EXCEPT !.pc = "read", !.op = "book", !.a = a])
  /\ UNCHANGED <<serviceVars, clock, faults, dropped>>

\* rescheduleByToken, cancelByToken and updateStatus read the appointment, and
\* write it by id in a later statement.
Decide(r, a, op, s) ==
  /\ op \in {"move", "cancel", "absent"}
  /\ appt[a].status = "CONFIRMED"
  /\ IF op = "move" THEN s > clock ELSE s = 0
  /\ Serve(r, [NoHandler EXCEPT !.pc = "write", !.op = op, !.a = a, !.at = s])
  /\ dropped' = IF op = "move" THEN dropped ELSE dropped \cup {a}
  /\ UNCHANGED <<appt, serviceVars, clock, faults, current>>

Write(r) ==
  LET a == req[r].a IN
  /\ req[r].pc = "write"
  /\ CASE req[r].op = "move" ->
            SetAppt(a, [status |-> "CONFIRMED", startsAt |-> req[r].at]) /\ Goto(r, "void")
       [] req[r].op = "cancel" ->
            SetAppt(a, [appt[a] EXCEPT !.status = "CANCELLED"]) /\ Goto(r, "void")
       [] req[r].op = "absent" ->
            SetAppt(a, [appt[a] EXCEPT !.status = "NO_SHOW"]) /\ Finish(r)
  /\ UNCHANGED <<serviceVars, clock, faults, spare, dropped>>

\* Rows of the appointment that were not sent yet are failed; the workers are
\* not told.
cancelPendingForAppointment(r) ==
  /\ req[r].pc = "void"
  /\ row' = [j \in Job |->
               IF Exists(j) /\ row[j].msg.appt = req[r].a
                  /\ row[j].status \in {"PENDING", "PROCESSING"}
               THEN [row[j] EXCEPT !.status = "FAILED"] ELSE row[j]]
  /\ Goto(r, "read")
  /\ UNCHANGED <<appt, queue, wk, clock, limits, faults, spare, copies, current, dropped>>

\* Mutant: a move announces the time it wrote instead of reading the row again.
ReadAppointment_OwnTime(r) ==
  LET a == req[r].a
      messages ==
        IF req[r].op = "cancel"
        THEN IF "EMAIL" \in limits.contacts THEN <<Mail("BOOKING_CANCELLED", a)>> ELSE <<>>
        ELSE <<Mail("BOOKING_CONFIRMATION", a)>>
               \o AllReminders(a, IF req[r].op = "move" THEN req[r].at ELSE appt[a].startsAt)
  IN /\ req[r].pc = "read"
     /\ req' = [req EXCEPT ![r].pc = "create", ![r].todo = messages]
     /\ UNCHANGED <<appt, serviceVars, clock, faults, spare, current, dropped>>

\* enqueueBookingConfirmation and enqueueBookingCancelled read the appointment
\* once, and create their rows one after the other from what they read.
ReadAppointment(r) ==
  LET a == req[r].a
      messages ==
        IF req[r].op = "cancel"
        THEN IF "EMAIL" \in limits.contacts THEN <<Mail("BOOKING_CANCELLED", a)>> ELSE <<>>
        ELSE <<Mail("BOOKING_CONFIRMATION", a)>>
               \o AllReminders(a, appt[a].startsAt)
  IN /\ req[r].pc = "read"
     /\ req' = [req EXCEPT ![r].pc = "create", ![r].todo = messages]
     /\ UNCHANGED <<appt, serviceVars, clock, faults, spare, current, dropped>>

\* notifyNextWaitlistCandidate calls a customer whose date opened: rows without
\* an appointment, like those of enqueuePasswordReset.
enqueueWaitlistSlotOpen(r) ==
  /\ Serve(r, [NoHandler EXCEPT !.pc = "create",
                 !.todo = SetToSeq({[Mail("WAITLIST_SLOT_OPEN", NoAppt)
                                       EXCEPT !.channel = c] : c \in limits.contacts})])
  /\ UNCHANGED <<appt, serviceVars, clock, faults, current, dropped>>

\* A reminder whose time has come is not created: its delay is not positive.
TooLate(m) == m.type = "BOOKING_REMINDER" /\ m.due <= clock

Skip(r) ==
  /\ req[r].pc = "create"
  /\ IF req[r].todo = <<>> THEN Finish(r)
     ELSE /\ TooLate(Head(req[r].todo))
          /\ req' = [req EXCEPT ![r].todo = Tail(@)]
  /\ UNCHANGED <<appt, serviceVars, clock, faults, spare, current, dropped>>

\* createAndEnqueue inserts the row ...
CreateRow(r) ==
  /\ req[r].pc = "create" /\ req[r].todo # <<>> /\ ~TooLate(Head(req[r].todo))
  /\ \E j \in Job :
       /\ ~Exists(j) /\ \A i \in 1 .. j - 1 : Exists(i)
       /\ row' = [row EXCEPT ![j] = [msg |-> Head(req[r].todo), status |-> "PENDING"]]
       /\ req' = [req EXCEPT ![r].pc = "add", ![r].j = j, ![r].todo = Tail(@)]
  /\ UNCHANGED <<appt, queue, wk, clock, limits, faults, spare, copies, current, dropped>>

\* ... and then adds it to the queue; if that fails it only logs.
Enqueue(r) ==
  /\ req[r].pc = "add"
  /\ \/ queue' = [queue EXCEPT ![req[r].j].state = "waiting"] /\ UNCHANGED faults
     \/ Fault /\ UNCHANGED queue
  /\ req' = [req EXCEPT ![r].pc = "create", ![r].j = NoJob]
  /\ UNCHANGED <<appt, row, wk, clock, limits, spare, copies, current, dropped>>

\* The API process stops, or a statement of the handler throws.
HandlerDies(r) ==
  /\ req[r].pc \notin {"idle"} /\ Fault
  /\ Finish(r)
  /\ dropped' = dropped \cup {req[r].a}
  /\ UNCHANGED <<appt, serviceVars, clock, spare, current>>

--------------------------------------------------------------------------------
(* The workers: processJob.                                                *)

At(w, l) == wk[w].pc = l
Step(w, l) == wk' = [wk EXCEPT ![w].pc = l]
quiet == <<appt, req, clock, limits, spare, dropped>>

\* The processor returned: the entry is completed, unless BullMQ has given it
\* out again meanwhile.
Return(w) ==
  /\ wk' = [wk EXCEPT ![w] = NoExecution]
  /\ current' = [current EXCEPT ![w] = FALSE]
  /\ queue' = IF wk[w].owner THEN [queue EXCEPT ![wk[w].j].state = "completed"] ELSE queue

\* The processor threw: the entry waits for another try while it has one.
Throw(w) ==
  LET j == wk[w].j
      tries == queue[j].tries + 1 IN
  /\ wk' = [wk EXCEPT ![w] = NoExecution]
  /\ current' = [current EXCEPT ![w] = FALSE]
  /\ queue' = IF wk[w].owner
              THEN [queue EXCEPT ![j].tries = tries,
                      ![j].state = IF tries < MaxTries THEN "waiting" ELSE "failed"]
              ELSE queue

\* BullMQ gives an entry whose delay has passed to one worker.
Take(w, j) ==
  /\ w \in limits.workers /\ At(w, "idle") /\ queue[j].state = "waiting" /\ clock >= row[j].msg.due
  /\ queue' = [queue EXCEPT ![j].state = "active"]
  /\ wk' = [wk EXCEPT ![w] = [pc |-> "read", j |-> j, owner |-> TRUE]]
  /\ UNCHANGED <<quiet, row, faults, copies, current>>

\* Mutant: a second execution returns when it finds the row claimed.
ReadRow_SkipsClaimed(w) ==
  LET j == wk[w].j IN
  /\ At(w, "read")
  /\ IF row[j].status # "PENDING" THEN Return(w)
     ELSE /\ Step(w, IF IsReminder(j) THEN "precheck" ELSE "claim")
          /\ UNCHANGED <<queue, current>>
  /\ UNCHANGED <<quiet, row, faults, copies>>

\* A row that is settled is not sent again; a reminder is checked first.
ReadRow(w) ==
  LET j == wk[w].j IN
  /\ At(w, "read")
  /\ IF row[j].status \in {"COMPLETED", "FAILED"} THEN Return(w)
     ELSE /\ Step(w, IF IsReminder(j) THEN "precheck" ELSE "claim")
          /\ UNCHANGED <<queue, current>>
  /\ UNCHANGED <<quiet, row, faults, copies>>

PreCheck(w) ==
  /\ At(w, "precheck")
  /\ Step(w, IF isBookingReminderStillValid(row[wk[w].j].msg) THEN "claim" ELSE "void")
  /\ UNCHANGED <<quiet, row, queue, faults, copies, current>>

SetStatus(w, s) == row' = [row EXCEPT ![wk[w].j].status = s]

\* Mutant: the claim writes a status the column does not have.
Claim_NewStatus(w) ==
  /\ At(w, "claim")
  /\ SetStatus(w, "CLAIMED") /\ Step(w, "latest")
  /\ current' = [current EXCEPT ![w] =
                   IsReminder(wk[w].j) /\ isBookingReminderStillValid(row[wk[w].j].msg)]
  /\ UNCHANGED <<quiet, queue, faults, copies>>

\* The claim does not look at the status: it takes back a row invalidated since.
Claim(w) ==
  /\ At(w, "claim")
  /\ SetStatus(w, "PROCESSING") /\ Step(w, "latest")
  /\ current' = [current EXCEPT ![w] =
                   IsReminder(wk[w].j) /\ isBookingReminderStillValid(row[wk[w].j].msg)]
  /\ UNCHANGED <<quiet, queue, faults, copies>>

\* Mutant: the reminder is checked before the claim only.
ReadLatest_NoRecheck(w) ==
  /\ At(w, "latest")
  /\ IF row[wk[w].j].status = "FAILED" THEN Return(w)
     ELSE Step(w, "send") /\ UNCHANGED <<queue, current>>
  /\ UNCHANGED <<quiet, row, faults, copies>>

ReadLatest(w) ==
  /\ At(w, "latest")
  /\ IF row[wk[w].j].status = "FAILED" THEN Return(w)
     ELSE /\ Step(w, IF IsReminder(wk[w].j) THEN "recheck" ELSE "send")
          /\ UNCHANGED <<queue, current>>
  /\ UNCHANGED <<quiet, row, faults, copies>>

ReCheck(w) ==
  /\ At(w, "recheck")
  /\ Step(w, IF isBookingReminderStillValid(row[wk[w].j].msg) THEN "send" ELSE "revoid")
  /\ UNCHANGED <<quiet, row, queue, faults, copies, current>>

InvalidateRow(w) ==
  /\ At(w, "void") \/ At(w, "revoid")
  /\ SetStatus(w, "FAILED") /\ Return(w)
  /\ UNCHANGED <<quiet, faults, copies>>

\* The message goes out, or cannot: the channel has no address or no API, and
\* the job counts as done all the same.
Sent(w) == copies' = [copies EXCEPT ![wk[w].j] = @ + 1] /\ Step(w, "complete") /\ UNCHANGED faults
OnlyLogged(w) == Step(w, "complete") /\ UNCHANGED <<copies, faults>>
NotSent(w) == Fault /\ Step(w, "error") /\ UNCHANGED copies

sendEmail(w) ==
  /\ At(w, "send") /\ row[wk[w].j].msg.channel = "EMAIL"
  /\ IF "EMAIL" \in limits.contacts THEN Sent(w) \/ NotSent(w) ELSE OnlyLogged(w)
  /\ UNCHANGED <<quiet, row, queue, current>>

\* Whether the WhatsApp API is configured is not the customer's affair: both.
sendText(w) ==
  /\ At(w, "send") /\ row[wk[w].j].msg.channel = "WHATSAPP"
  /\ Sent(w) \/ OnlyLogged(w) \/ NotSent(w)
  /\ UNCHANGED <<quiet, row, queue, current>>

Complete(w) ==
  /\ At(w, "complete")
  /\ \/ SetStatus(w, "COMPLETED") /\ Return(w) /\ UNCHANGED faults
     \/ Fault /\ Step(w, "error") /\ UNCHANGED <<row, queue, current>>
  /\ UNCHANGED <<quiet, copies>>

\* Mutant: the row is kept for the retry.
FailRow_Pending(w) ==
  /\ At(w, "error")
  /\ SetStatus(w, "PENDING") /\ Throw(w)
  /\ UNCHANGED <<quiet, faults, copies>>

\* The catch block fails the row and throws on; the next try will find it FAILED.
FailRow(w) ==
  /\ At(w, "error")
  /\ SetStatus(w, "FAILED") /\ Throw(w)
  /\ UNCHANGED <<quiet, faults, copies>>

\* A statement throws, and the processor with it: before the try block and in
\* the catch block the row stays as it is.
StatementFails(w) ==
  /\ \E l \in {"read", "precheck", "void", "claim", "error"} : At(w, l)
  /\ Fault /\ Throw(w)
  /\ UNCHANGED <<quiet, row, copies>>

\* A statement of the try block throws, and is caught.
StatementCaught(w) ==
  /\ \E l \in {"latest", "recheck", "revoid"} : At(w, l)
  /\ Fault /\ Step(w, "error")
  /\ UNCHANGED <<quiet, row, queue, copies, current>>

\* BullMQ believes the worker is gone.  It gives the entry out once more, and
\* fails it the second time.
Stall(w, dead) ==
  LET j == wk[w].j IN
  /\ ~At(w, "idle") /\ wk[w].owner /\ Fault
  /\ queue' = [queue EXCEPT ![j].stalls = @ + 1,
                 ![j].state = IF queue[j].stalls = 0 THEN "waiting" ELSE "failed"]
  /\ IF dead THEN /\ wk' = [wk EXCEPT ![w] = NoExecution]
                  /\ current' = [current EXCEPT ![w] = FALSE]
     ELSE wk' = [wk EXCEPT ![w].owner = FALSE] /\ UNCHANGED current
  /\ UNCHANGED <<quiet, row, copies>>

WorkerDies(w) == Stall(w, TRUE)
LockLost(w) == Stall(w, FALSE)

\* A worker whose entry was given out again stops too.
StalledDies(w) ==
  /\ ~At(w, "idle") /\ ~wk[w].owner /\ Fault
  /\ wk' = [wk EXCEPT ![w] = NoExecution]
  /\ current' = [current EXCEPT ![w] = FALSE]
  /\ UNCHANGED <<quiet, row, queue, copies>>

Tick ==
  /\ clock < MaxClock /\ clock' = clock + 1
  /\ UNCHANGED <<appt, row, queue, req, wk, limits, faults, spare, copies, current, dropped>>

HandlerStep(r) ==
  \/ Write(r) \/ cancelPendingForAppointment(r) \/ ReadAppointment(r)
  \/ Skip(r) \/ CreateRow(r) \/ Enqueue(r)
WorkerStep(w) ==
  \/ \E j \in Job : Take(w, j)
  \/ ReadRow(w) \/ PreCheck(w) \/ Claim(w) \/ ReadLatest(w) \/ ReCheck(w)
  \/ InvalidateRow(w) \/ sendEmail(w) \/ sendText(w) \/ Complete(w) \/ FailRow(w)

Next ==
  \/ \E r \in Req :
       \/ HandlerStep(r) \/ HandlerDies(r) \/ enqueueWaitlistSlotOpen(r)
       \/ \E a \in Appt, s \in Start : Book(r, a, s)
       \/ \E a \in Appt, op \in Operations, s \in Start \cup {0} : Decide(r, a, op, s)
  \/ \E w \in Worker :
       \/ WorkerStep(w) \/ StatementFails(w) \/ StatementCaught(w)
       \/ WorkerDies(w) \/ LockLost(w) \/ StalledDies(w)
  \/ Tick

Spec == Init /\ [][Next]_vars

\* The queue keeps giving out entries, a worker that was given one goes on, and
\* time passes.  Nobody has to book, and nothing has to fail.
Fairness == WF_vars(Tick) /\ \A w \in Worker : WF_vars(WorkerStep(w))
FairSpec == Spec /\ Fairness

--------------------------------------------------------------------------------
(* Properties.                                                             *)

\* Type invariant.
TypeOK ==
  /\ appt \in [Appt -> [status : {"NONE", "CONFIRMED", "CANCELLED", "NO_SHOW"},
                        startsAt : Start \cup {0}]]
  /\ row \in [Job -> Row \cup {NoRow}]
  /\ queue \in [Job -> Entry]
  /\ req \in [Req -> Handler]
  /\ wk \in [Worker -> Execution]
  /\ clock \in 0 .. MaxClock /\ limits \in Limits
  /\ faults \in 0 .. limits.faults /\ spare \in 0 .. limits.rows
  /\ copies \in [Job -> Nat]
  /\ current \in [Worker -> BOOLEAN]
  /\ dropped \subseteq Appt \cup {NoAppt}

\* A reminder that goes out was right at some instant after its worker claimed
\* it: a cancellation or a move before the claim silences it, even one that
\* slipped between the first check and the claim (notifications.service.ts:439).
RemindersAreCurrent ==
  [][\A w \in Worker :
       At(w, "send") /\ copies' # copies /\ wk'[w].pc = "complete" /\ IsReminder(wk[w].j)
         => current[w]]_vars

\* No single failure makes a retry repeat a message, except a worker that stalls
\* around its send: that one, and the next, send one copy each.  (Two failures
\* can: COMPLETED cannot be written after the send, and FAILED cannot either.)
OneCopyPerWorker == faults <= 1 => \A j \in Job : copies[j] <= 1 + queue[j].stalls

\* However bookings, moves and workers interleave, when no handler is under way
\* every appointment that nobody tried to cancel has, for each lead time still
\* ahead, a live reminder for the time it now starts (cancelPendingForAppointment
\* of one move may have removed those of another, which then renews them).
ActiveIsReminded ==
  (faults = 0 /\ \A r \in Req : req[r].pc = "idle") =>
    \A a \in Appt, lead \in Leads, c \in limits.contacts :
      (appt[a].status = "CONFIRMED" /\ a \notin dropped /\ appt[a].startsAt - lead > clock)
        => \E j \in Job :
             /\ Exists(j)
             /\ row[j].msg = Reminder(a, appt[a].startsAt, lead, c)
             /\ row[j].status = "PENDING" /\ queue[j].state = "waiting"

\* Again and again there is no backlog: every row that reached the queue and is
\* due has been settled, although a worker may die with one, its send or one of
\* its statements may fail.  (Two workers that die with one entry leave its row
\* PROCESSING for ever: BullMQ fails an entry that stalls twice.)
BacklogDrains ==
  []<>(faults <= 1 =>
         \A j \in Job : (queue[j].state # "absent" /\ row[j].msg.due <= MaxClock)
                           => row[j].status \in {"COMPLETED", "FAILED"})
================================================================================
