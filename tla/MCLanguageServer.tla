---------------------------- MODULE MCLanguageServer ---------------------------
(* Instances of LanguageServer for TLC *)
EXTENDS LanguageServer

CONSTANTS queries, plain

\* As quick as it likes with every document; while a refresh runs it opens further ones, and
\* a close is dealt with before it asks for one.
MCCalm ==
  {[rapid |-> Notices, during |-> {"didOpen"}, before |-> {"didOpen", "didChange"}]}

\* An editor that goes on editing while a refresh runs
MCEditing == {[rapid |-> {"didChange"}, during |-> {"didChange"}, before |-> {}]}
===============================================================================
