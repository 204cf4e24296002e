------------------------------ MODULE SettingsPage ------------------------------
(***************************************************************************)
(* The settings page (dashboard/settings): three forms over one row, each  *)
(* saved whole, and every answer fills all three again, typed or not.      *)
(*                                                                         *)
(* A form is one value here, which its save may skip (a name too short is  *)
(* not sent), replace (0 points become 1) or have refused (out of range).  *)
(* History: typed, the forms edited since the last answer.                 *)
(***************************************************************************)
EXTENDS DeskServer

VARIABLE sp

SettingsInit ==
  sp = [form |-> Nothing, typed |-> {}, saving |-> {}, loading |-> isOpen("settings"), errors |-> {}]

SettingsStart == IF isOpen("settings") THEN <<Call("settings", "settings", Nothing, "")>> ELSE <<>>

\* The three forms show what the answer says.
applySettings(p, s) == [p EXCEPT !.form = s, !.typed = {}]

SettingsReply(i) ==
  /\ Answers(i, "settings", "settings") /\ calls' = Others(i)
  /\ sp' = [(IF calls[i].res.ok THEN applySettings(sp, calls[i].res.val) ELSE sp)
              EXCEPT !.loading = FALSE]

formShown == ~sp.loading /\ sp.form # Nothing

Type(f, x) ==
  /\ formShown /\ x # sp.form[f] /\ Click
  /\ sp' = [sp EXCEPT !.form[f] = x, !.typed = @ \cup {f}] /\ UNCHANGED calls

tooShort(f, x) == f = "profile" /\ x = 1
outOfRange(f, x) == f = "booking" /\ x = 1
sentAs(f, x) == IF f = "loyalty" /\ x = 0 THEN 1 ELSE x

SaveForm(f) ==
  /\ formShown /\ f \notin sp.saving /\ Click
  /\ sp' = [sp EXCEPT !.saving = @ \cup {f}, !.errors = @ \ {f}]
  /\ calls' = Append(calls, Call("settings", "save",
                [form |-> f, value |-> sentAs(f, sp.form[f]),
                 skipped |-> tooShort(f, sp.form[f]), refused |-> outOfRange(f, sp.form[f])], ""))

SaveFormReply(i) ==
  LET f == calls[i].arg.form
  IN /\ Answers(i, "settings", "save") /\ calls' = Others(i)
     /\ sp' = [(IF calls[i].res.ok THEN applySettings(sp, calls[i].res.val)
                ELSE [sp EXCEPT !.errors = @ \cup {f}]) EXCEPT !.saving = @ \ {f}]

SettingsClicks == \E f \in Forms : SaveForm(f) \/ \E x \in limits.values : Type(f, x)
SettingsPageReply(i) == SettingsReply(i) \/ SaveFormReply(i)
================================================================================
