------------------------------- MODULE Routes -------------------------------
(***************************************************************************)
(* The routes of six parts of the gateway that share nothing but the       *)
(* process they run in: a behaviour is about one of them.                  *)
(***************************************************************************)
EXTENDS Chats, Polls, PreKeys, MediaUploads, History, Ranks

VARIABLE part     \* which one

routesVars == <<part, pollTables, pollHistory, keyTables, keyHistory,
                stores, mediaHistory,
                clock, posts, walk, chatTables, chatHistory, departures, rankTables, handlers>>

Init ==
    /\ part \in {"polls", "keys", "media", "history", "chats", "ranks"}
    /\ HandlersInit /\ PollsInit /\ PreKeysInit /\ MediaInit /\ HistoryInit /\ ChatsInit
    /\ RanksInit

PollVars == <<pollTables, pollHistory>>
KeyVars == <<keyTables, keyHistory>>
MediaVars == <<stores, mediaHistory>>
PageVars == <<clock, posts, walk>>
ChatVars == <<chatTables, chatHistory, departures>>

Next ==
    /\ \/ part = "polls" /\ PollsNext /\ UNCHANGED <<KeyVars, MediaVars, PageVars, ChatVars, rankTables>>
       \/ part = "keys" /\ PreKeysNext /\ UNCHANGED <<PollVars, MediaVars, PageVars, ChatVars, rankTables>>
       \/ part = "media" /\ MediaNext /\ UNCHANGED <<PollVars, KeyVars, PageVars, ChatVars, rankTables>>
       \/ part = "history" /\ HistoryNext /\ UNCHANGED <<PollVars, KeyVars, MediaVars, ChatVars, rankTables>>
       \/ part = "chats" /\ ChatsNext /\ UNCHANGED <<PollVars, KeyVars, MediaVars, PageVars, rankTables>>
       \/ part = "ranks" /\ RanksNext /\ UNCHANGED <<PollVars, KeyVars, MediaVars, PageVars, ChatVars>>
    /\ UNCHANGED part

Spec == Init /\ [][Next]_routesVars

(* Every table, file and local variable has its type.                      *)
TypeOK ==
    /\ DOMAIN pc = Procs /\ DOMAIN task = Procs /\ faults \in 0..MaxFaults
    /\ part = "polls" => PollsTypeOK
    /\ part = "keys" => PreKeysTypeOK
    /\ part = "media" => MediaTypeOK
    /\ part = "history" => HistoryTypeOK
    /\ part = "chats" => ChatsTypeOK
    /\ part = "ranks" => RanksTypeOK

=============================================================================
