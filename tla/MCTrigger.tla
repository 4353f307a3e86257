----------------------------- MODULE MCTrigger ------------------------------
(* The instance of Trigger for TLC: an internal source; files of events,   *)
(* one of which has no fragment of the trigger, or with the largest ID, so *)
(* that m_max_l1id wraps; files of links, the second of which has missed   *)
(* an event, some IDs of which overflow when shifted, or has one more.     *)
EXTENDS Trigger

Sources == {
  [plugin |-> "internal", files |-> <<>>],
  [plugin |-> "events", files |-> << << <<1, 1>>, <<>> >>, << <<0>> >> >>],
  [plugin |-> "events", files |-> << << <<4>>, <<0>> >> >>],
  [plugin |-> "links", files |-> << <<0, 1, 2>>, <<1, 2>> >>],
  [plugin |-> "links", files |-> << <<0>>, <<0, 1>> >>]}
=============================================================================
