--------------------------------- MODULE MCDesk ---------------------------------
(***************************************************************************)
(* Instances of Desk for TLC: one behaviour of limits per page.            *)
(***************************************************************************)
EXTENDS Desk

CONSTANTS v1, v2, c1, c2, ana, bia

Row(c, p, at, s, price) ==
  [client |-> c, pro |-> p, at |-> at, status |-> s, price |-> price, review |-> "none", ver |-> 0,
   undone |-> FALSE]
All == [from |-> 0, to |-> 9, pro |-> Nothing]

Base ==
  [pages |-> {}, actor |-> ana, now |-> 0, until |-> 0, clicks |-> 0, outside |-> 0, faults |-> 0,
   reorder |-> FALSE, today |-> 1, days |-> {}, statuses |-> {},
   visits |-> (v1 :> Row(c1, ana, 2, "SCHEDULED", 1) @@ v2 :> Row(c2, ana, 3, "SCHEDULED", 1)),
   cards |-> (c1 :> [notes |-> c1, tags |-> Nothing, consent |-> FALSE]
              @@ c2 :> [notes |-> Nothing, tags |-> c2, consent |-> FALSE]),
   tenant |-> [profile |-> 2, booking |-> 2, loyalty |-> 2], values |-> {},
   created |-> (c1 :> 0 @@ c2 :> 1), filters |-> <<All>>, period |-> <<0, 9>>,
   searches |-> {}, segments |-> {}, inactive |-> {}]

ManageBase == [Base EXCEPT !.pages = {"manage"}, !.days = {1, 3, 4}]
AgendaBase == [Base EXCEPT !.pages = {"agenda"},
                 !.filters = <<All, [from |-> 0, to |-> 2, pro |-> Nothing]>>]
ClientsBase == [Base EXCEPT !.pages = {"clients"}]

MCLimits ==
  { \* a customer moves, confirms, cancels while others book and the staff acts
    [ManageBase EXCEPT !.clicks = 6],
    [ManageBase EXCEPT !.clicks = 5, !.outside = 1, !.statuses = {"CONFIRMED", "COMPLETED", "CANCELLED"}, !.until = 1],
    [ManageBase EXCEPT !.clicks = 4, !.faults = 2, !.reorder = TRUE],
    \* the customer and the agenda at the same time
    [ManageBase EXCEPT !.pages = {"manage", "agenda"}, !.clicks = 4, !.statuses = {"COMPLETED", "CONFIRMED"}],
    \* the agenda: two filters, two pages, changes elsewhere
    [AgendaBase EXCEPT !.clicks = 5, !.statuses = {"CONFIRMED", "COMPLETED"}, !.outside = 1],
    [AgendaBase EXCEPT !.clicks = 4, !.statuses = {"CONFIRMED", "NO_SHOW"}, !.faults = 2, !.reorder = TRUE],
    [AgendaBase EXCEPT !.clicks = 3, !.actor = bia, !.visits[v1].pro = bia, !.statuses = {"CANCELLED"},
                       !.filters = <<All, [from |-> 0, to |-> 9, pro |-> ana]>>],
    \* reviews
    [Base EXCEPT !.pages = {"reviews", "manage"}, !.clicks = 5, !.visits[v1].status = "COMPLETED",
                 !.visits[v1].review = "shown", !.visits[v2].review = "hidden"],
    [Base EXCEPT !.pages = {"reviews", "manage"}, !.clicks = 3, !.visits[v1].status = "COMPLETED",
                 !.visits[v2].review = "hidden", !.faults = 2],
    \* the list of clients
    [ClientsBase EXCEPT !.clicks = 4, !.searches = {Client, {c1}}, !.segments = {"", "new"}],
    [ClientsBase EXCEPT !.clicks = 3, !.searches = {{c1}}, !.segments = {"new"}, !.inactive = {1}, !.faults = 2],
    [ClientsBase EXCEPT !.actor = bia, !.visits[v1].pro = bia, !.clicks = 1],
    \* the cards
    [ClientsBase EXCEPT !.clicks = 6],
    [ClientsBase EXCEPT !.clicks = 4, !.faults = 2, !.reorder = TRUE],
    \* time and visits, for the segments and the report
    [Base EXCEPT !.until = 7, !.outside = 3, !.statuses = {"COMPLETED", "NO_SHOW", "CANCELLED"},
                 !.visits[v2].client = c1, !.pages = {"report"}, !.clicks = 1, !.days = {1}, !.period = <<0, 2>>],
    \* the settings
    [Base EXCEPT !.pages = {"settings"}, !.values = {0, 1, 3}, !.clicks = 5],
    [Base EXCEPT !.pages = {"settings"}, !.values = {0, 3}, !.clicks = 4, !.faults = 2, !.reorder = TRUE] }
=================================================================================
