---------------------------- MODULE MCSetupAssist ----------------------------
(* Instance of SetupAssist for TLC. *)
EXTENDS SetupAssist, TLC

(* Whoever of the assistants is asked for something is asked for this.     *)
Askers(count, request) ==
  {asking \in [Writer -> {<<>>, request}] : Cardinality({w \in Writer : asking[w] # <<>>}) = count}

(* What setup.exe asks for after its own installation (path-add apart), of *)
(* one assistant; two that meet in .env, and three in config.json.         *)
SetupRequests ==
  Askers(1, <<"env-block-apply", "config-apply">>)
    \cup Askers(2, <<"env-block-apply">>) \cup Askers(3, <<"config-apply">>)

WriterSymmetry == Permutations(Writer)

=============================================================================
