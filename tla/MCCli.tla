------------------------------- MODULE MCCli -------------------------------
(* Instance of Cli for TLC. *)
EXTENDS Cli

Window(kind, scope, period, trusted, values, labels) ==
  [kind |-> kind, scope |-> scope, period |-> period, trusted |-> trusted,
   availability |-> "known", values |-> values, labels |-> labels]

(* Two windows of one fixed period; one of another that comes from an      *)
(* unknown source, with texts and quantities that nobody would accept; one *)
(* of a period without a slot; a technical one with a quantity below one;  *)
(* and one of another kind.  With the last two and the three slots the     *)
(* windows are too many.                                                   *)
SampleWindows ==
  {Window("commercial_quota", "account", "weekly", TRUE, {"plain"}, {"requests"}),
   Window("commercial_quota", "team", "weekly", TRUE, {"plain"}, {"requests"}),
   Window("commercial_quota", "secret", "monthly", FALSE, {"below_one"}, {"secret"}),
   Window("commercial_quota", "account", "daily", TRUE, {"below_one"}, {"secret"}),
   Window("technical_rate_limit", "account", "minute", TRUE, {"plain", "below_one"}, {"requests"}),
   Window("other", "account", "weekly", TRUE, {"plain"}, {"requests"})}

SampleUnsafe == {"secret"}

SampleSnapshots ==
  [codex |-> {Snapshot("available", {}),
              Snapshot("available", {Window("technical_rate_limit", "account", "weekly", TRUE,
                                            {"plain"}, {"secret"})})},
   opencode_go |->
     {Snapshot("available", windows) :
        windows \in {ws \in SUBSET SampleWindows : ValidSnapshot("available", ws)}}
     \cup {Snapshot("rate_limited", {w \in SampleWindows : w.kind = "technical_rate_limit"}),
           Snapshot("unavailable", {w \in SampleWindows : w.kind = "commercial_quota"})}]

SampleRooms == {-1, 0, 2, 3}

=============================================================================
