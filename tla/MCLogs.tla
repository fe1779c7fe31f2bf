------------------------------- MODULE MCLogs -------------------------------
(***************************************************************************)
(* Lists of at most three logs of two contracts: events with their own     *)
(* topics, with a foreign topic before or after, and with no topic at all, *)
(* with data of the right and of a wrong length.                           *)
(***************************************************************************)
EXTENDS Logs, SequencesExt, TLC

MCTopics == {<< >>, <<"Sync">>, <<"Sync", "Other">>, <<"Other", "Sync">>,
             <<"Swap">>, <<"Swap", "Other">>, <<"Other", "Swap">>}
MCData == {<<0, 1>>, <<1, 0>>, Malformed}
MCLogLists == BoundedSeq([address : Addresses, topics : MCTopics, data : MCData], 3)
=============================================================================
