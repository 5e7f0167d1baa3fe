---------------------------- MODULE ConfigStore ----------------------------
(***************************************************************************)
(* What a guarded change of config.json promises, whatever crashes or      *)
(* fails on the way: the document is changed as a whole and from its       *)
(* current state, one change at a time; a change that has not been         *)
(* confirmed may be taken back, and then the document is exactly what it   *)
(* was before; a document that is not valid is left alone.                 *)
(*                                                                         *)
(* While two are at it at once, less is promised: the document that stood  *)
(* before keeps all that is in it, and nothing of what they add is certain *)
(* until the last of them has left.                                        *)
(***************************************************************************)

CONSTANTS Writer,     \* those who change the document
          NoWriter    \* nobody

VARIABLES doc,    \* the document: its kind and the changes it contains
          open,   \* the writer whose change can still be taken back
          crowd,  \* two are at it
          prior   \* the document before that change, or before they were two

storeVars == <<doc, open, crowd, prior>>

NoDoc == [kind |-> "absent", fields |-> {}]

Changed(d, w) == [kind |-> "valid", fields |-> d.fields \cup {w}]

StoreInit ==
  /\ doc \in {NoDoc, [kind |-> "valid", fields |-> {}], [kind |-> "invalid", fields |-> {}]}
  /\ open = NoWriter /\ ~crowd
  /\ prior = NoDoc

(* All that is in one document is in another.                              *)
Keeps(one, another) ==
  /\ one.fields \subseteq another.fields
  /\ another.kind # one.kind => one.kind = "absent" /\ another.kind = "valid"

Change(w) ==
  /\ ~crowd /\ open = NoWriter /\ doc.kind # "invalid"
  /\ doc' = Changed(doc, w)
  /\ open' = w /\ prior' = doc /\ UNCHANGED crowd

TakeBack ==
  /\ open # NoWriter
  /\ doc' = prior
  /\ open' = NoWriter /\ prior' = NoDoc /\ UNCHANGED crowd

Confirm ==
  /\ open # NoWriter
  /\ open' = NoWriter /\ prior' = NoDoc
  /\ UNCHANGED <<doc, crowd>>

Meet ==
  /\ ~crowd /\ crowd'
  /\ prior' = IF open = NoWriter THEN doc ELSE prior
  /\ open' = NoWriter
  /\ UNCHANGED doc

Muddle ==
  /\ crowd
  /\ Keeps(prior, doc')
  /\ prior' = IF crowd' THEN prior ELSE NoDoc
  /\ UNCHANGED open

StoreNext == (\E w \in Writer : Change(w)) \/ TakeBack \/ Confirm \/ Meet \/ Muddle

StoreSpec == StoreInit /\ [][StoreNext]_storeVars

=============================================================================
