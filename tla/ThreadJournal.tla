--------------------------- MODULE ThreadJournal ---------------------------
(***************************************************************************)
(* One Thread of one user and its message journal                          *)
(* (backend/threads/repository.py, service.py): concurrent appends and      *)
(* creations, finalisation of a message, deletion, and a reader that walks  *)
(* the history page by page while all this goes on.  A transaction locks    *)
(* the Thread row from its first read to its commit, so what follows the    *)
(* lock is one step; only a Thread that does not exist cannot be locked.    *)
(***************************************************************************)
EXTENDS Absence, Integers, FiniteSets, FiniteSetsExt, Sequences, SequencesExt

CONSTANTS Writers,        \* concurrent callers
          JournalKeys,           \* client_message_id values
          Texts,          \* contents of a message
          PageSize,       \* limit of a page
          MaxMessages,    \* bound on the messages of the journal
          MaxDeletions    \* bound on deletions of the Thread

VARIABLES
    journalThread,    \* the row: None or its columns
    messages,  \* its messages
    runs,      \* how many of its Runs are not terminal
    born,      \* how often the Thread was created
    deletions,
    appending,      \* the call of a writer that found no Thread to lock
    reader     \* the page walk

store == <<journalThread, messages, runs, born, deletions>>
journalVars == <<store, appending, reader>>

NewThread == [version |-> 0, message_count |-> 0, last_sequence |-> 0]

NoWalk == [on |-> FALSE, birth |-> 0, cursor |-> 0, upto |-> 0, seen |-> <<>>]

JournalInit ==
    /\ journalThread = None /\ messages = {} /\ runs = 0
    /\ born = 0 /\ deletions = 0
    /\ appending = [w \in Writers |-> None]
    /\ reader = NoWalk

----------------------------------------------------------------------------

JournalRow(t, key) ==
    [sequence |-> t.last_sequence + 1, key |-> key, text |-> None]

Counted(t, n) == [version |-> t.version + n,
                  message_count |-> t.message_count + n,
                  last_sequence |-> t.last_sequence + n]

Existing(key) == {m \in messages : key # None /\ m.key = key}

Written(t, key, expected) ==
    /\ expected \in {None, t.version}
    /\ IF Existing(key) # {}
       THEN journalThread' = t /\ UNCHANGED messages
       ELSE /\ t.last_sequence < MaxMessages
            /\ journalThread' = Counted(t, 1)
            /\ messages' = messages \cup {JournalRow(t, key)}

(* The version a caller expects is one it was told earlier.                 *)
Expected == {None} \cup 0..MaxMessages

AppendMessage(w, key, expected) ==
    /\ appending[w] = None
    /\ journalThread # None
    /\ Written(journalThread, key, expected)
    /\ UNCHANGED <<runs, born, deletions, appending, reader>>

(* _get_or_create_thread finds nothing to lock, for an append or for        *)
(* create_thread.                                                           *)
FindNone(w, append, key, expected) ==
    /\ appending[w] = None
    /\ journalThread = None
    /\ appending' = [appending EXCEPT ![w] = [append |-> append, key |-> key,
                                    expected |-> expected]]
    /\ UNCHANGED <<store, reader>>

(* The insert wins, or meets the row of another transaction: uq_user_thread *)
(* makes it fail, and the call answers 409 (append) or fails (create).      *)
Insert(w) ==
    /\ appending[w] # None
    /\ journalThread = None
    /\ appending[w].expected \in {None, 0}
    /\ IF appending[w].append
       THEN Written(NewThread, appending[w].key, appending[w].expected)
       ELSE journalThread' = NewThread /\ UNCHANGED messages
    /\ born' = born + 1
    /\ appending' = [appending EXCEPT ![w] = None]
    /\ UNCHANGED <<runs, deletions, reader>>

InsertFails(w) ==
    /\ appending[w] # None
    /\ journalThread # None \/ appending[w].expected \notin {None, 0}
    /\ appending' = [appending EXCEPT ![w] = None]
    /\ UNCHANGED <<store, reader>>

(* finalize_message                                                        *)
Finalize(m, text) ==
    /\ journalThread # None
    /\ messages' = (messages \ {m}) \cup {[m EXCEPT !.text = text]}
    /\ UNCHANGED <<journalThread, runs, born, deletions, appending,
                   reader>>

(* RunRepository.reserve: the prompt and the placeholder of the answer      *)
ReserveRun ==
    /\ journalThread # None
    /\ journalThread.last_sequence + 2 <= MaxMessages
    /\ LET second == Counted(journalThread, 1)
       IN  messages' = messages \cup {JournalRow(journalThread, None), JournalRow(second, None)}
    /\ journalThread' = Counted(journalThread, 2)
    /\ runs' = runs + 1
    /\ UNCHANGED <<born, deletions, appending, reader>>

EndRun ==
    /\ runs > 0
    /\ runs' = runs - 1
    /\ UNCHANGED <<journalThread, messages, born, deletions, appending,
                   reader>>

Delete ==
    /\ journalThread # None
    /\ runs = 0
    /\ deletions < MaxDeletions
    /\ journalThread' = None /\ messages' = {}
    /\ deletions' = deletions + 1
    /\ UNCHANGED <<runs, born, appending, reader>>

----------------------------------------------------------------------------
(* list_messages_before: newest first, one more than the page to learn      *)
(* whether there is an older one                                            *)
Window(before, limit) ==
    LET older == {m.sequence : m \in {x \in messages :
                                        before = None \/ x.sequence < before}}
        kept == {s \in older : Cardinality({u \in older : u > s}) < limit}
    IN  [i \in 1..Cardinality(kept) |->
            CHOOSE s \in kept : Cardinality({u \in kept : u > s}) = i - 1]

(* recent_messages: the page in ascending order and the cursor of the one   *)
(* before it                                                                *)
PageOffByOne(before) ==
    LET rows == Window(before, PageSize + 1)
        selected == Reverse(SubSeq(rows, 1, Min({PageSize, Len(rows)})))
    IN  [messages |-> selected,
         cursor |-> IF Len(rows) > PageSize THEN Last(rows) ELSE 0]

Page(before) ==
    LET rows == Window(before, PageSize + 1)
        selected == Reverse(SubSeq(rows, 1, Min({PageSize, Len(rows)})))
    IN  [messages |-> selected,
         cursor |-> IF Len(rows) > PageSize THEN selected[1] ELSE 0]

(* The first page, and every older page put in front of it                  *)
OpenThread ==
    /\ journalThread # None /\ ~reader.on
    /\ LET page == Page(None)
       IN  reader' = [on |-> TRUE, birth |-> born, cursor |-> page.cursor,
                      upto |-> journalThread.last_sequence, seen |-> page.messages]
    /\ UNCHANGED <<store, appending>>

JournalOlder ==
    /\ reader.on /\ reader.cursor # 0
    /\ journalThread # None
    /\ LET page == Page(reader.cursor)
       IN  reader' = [reader EXCEPT !.cursor = page.cursor,
                                    !.seen = page.messages \o @]
    /\ UNCHANGED <<store, appending>>

LeaveThread ==
    /\ reader.on
    /\ reader' = NoWalk
    /\ UNCHANGED <<store, appending>>

JournalNext ==
    \/ \E w \in Writers :
          \/ Insert(w) \/ InsertFails(w)
          \/ FindNone(w, FALSE, None, None)
          \/ \E key \in JournalKeys \cup {None}, e \in Expected :
                FindNone(w, TRUE, key, e) \/ AppendMessage(w, key, e)
    \/ \E m \in messages, text \in Texts : Finalize(m, text)
    \/ ReserveRun \/ EndRun \/ Delete
    \/ OpenThread \/ JournalOlder \/ LeaveThread

JournalSpec == JournalInit /\ [][JournalNext]_journalVars

----------------------------------------------------------------------------
(* Type invariant                                                          *)
JournalTypeOK ==
    /\ journalThread = None \/ journalThread \in [version : 0..MaxMessages,
                                    message_count : 0..MaxMessages,
                                    last_sequence : 0..MaxMessages]
    /\ \A m \in messages : m.sequence \in 1..MaxMessages

(* The journal is what the row says: the sequences are 1..last_sequence,    *)
(* none missing and none twice, and as many as message_count, whoever       *)
(* appended concurrently; without a Thread there are no messages or Runs.   *)
JournalIsDense ==
    IF journalThread = None THEN messages = {} /\ runs = 0
    ELSE /\ {m.sequence : m \in messages} = 1..journalThread.last_sequence
         /\ Cardinality(messages) = journalThread.message_count
         /\ journalThread.last_sequence = journalThread.message_count

(* A retried append finds the message of the first: a client_message_id     *)
(* names one message, also when two callers use it at once.                 *)
AppendOnce ==
    \A m, n \in messages : m.key # None /\ m.key = n.key => m = n

(* A reader that has walked to the first page has seen every message that   *)
(* was there when it began, each once and in order, whatever was appended   *)
(* or finalised meanwhile (as long as the Thread was not deleted).          *)
WalkSeesHistory ==
    reader.on /\ reader.cursor = 0 /\ reader.birth = born /\ journalThread # None =>
        reader.seen = [i \in 1..reader.upto |-> i]

(* The history of a Thread is one gapless sequence that paging reads whole.     *)
HistoryIsStable == JournalTypeOK /\ JournalIsDense /\ AppendOnce /\ WalkSeesHistory

============================================================================
