---------------------------- MODULE MediaUploads ----------------------------
(***************************************************************************)
(* Media (modules/media over services/storage-adapter): one chunked upload *)
(* with its session in Redis, its chunks and its assembled file in the     *)
(* temporary directory; the storage's objects; and the media_objects rows. *)
(* No two of these change together.                                        *)
(***************************************************************************)
EXTENDS Handlers

CONSTANTS
    MaxChunk,     \* the chunks of the upload are 0 .. MaxChunk
    MaxObjects    \* bound: objects saved

ASSUME MediaAssumption == MaxChunk \in Nat /\ MaxObjects \in Nat

VARIABLES
    session,      \* uploadSession:<id> in Redis: "none", "open" or "gone"
    chunk,        \* the chunk files
    final,        \* the assembled file; NoFile: there is none
    object,       \* the storage's objects, in the order they were saved
    rows,         \* media_objects, all 'ready'
    doubt,        \* history: objects assembled while something interfered
    broken        \* history: objects whose request broke off

stores == <<session, chunk, final, object, rows>>
mediaHistory == <<doubt, broken>>
mediaVars == <<stores, mediaHistory, handlers>>

Chunks == 0..MaxChunk
Objects == 1..MaxObjects
Contents == {"none", "torn", "whole"}
Empty == [i \in Chunks |-> "none"]
NoFile == [i \in {} |-> "none"]

MediaInit ==
    /\ session = "none" /\ chunk = Empty /\ final = NoFile
    /\ object = <<>> /\ rows = {}
    /\ doubt = {} /\ broken = {}

\* i: the chunk, n: the object; met: something interfered.
Job == [i : Chunks, n : Objects \cup {0}, met : BOOLEAN]
NewJob == [i |-> 0, n |-> 0, met |-> FALSE]

MediaTypeOK ==
    /\ session \in {"none", "open", "gone"}
    /\ chunk \in [Chunks -> Contents] /\ final \in [Chunks -> Contents] \cup {NoFile}
    /\ object \in Seq({"whole", "partial", "deleted"}) /\ Len(object) <= MaxObjects
    /\ rows \subseteq DOMAIN object
    /\ doubt \subseteq DOMAIN object /\ broken \subseteq DOMAIN object
    /\ \A p \in Procs :
          \/ pc[p] = "idle" /\ task[p] = NoTask
          \/ /\ pc[p] \in {"put", "writing", "open", "chunk", "unlink", "save", "clear",
                           "forget", "insert", "drop", "unrow"}
             /\ task[p] \in Job

-----------------------------------------------------------------------------
(* POST /media/uploads: the session, which expires after an hour.          *)
CreateSession ==
    /\ session = "none" /\ session' = "open"
    /\ Works /\ UNCHANGED <<chunk, final, object, rows, mediaHistory, pc, task>>

Expire ==
    /\ session = "open" /\ session' = "gone"
    /\ Works /\ UNCHANGED <<chunk, final, object, rows, mediaHistory, pc, task>>

\* Both chunk and complete begin with a look at the session.
WithSession(p, label, job) ==
    /\ pc[p] = "idle" /\ session = "open"
    /\ At(p, label, job)
    /\ Works /\ UNCHANGED <<stores, mediaHistory>>

InvalidSession(p) == pc[p] = "idle" /\ session # "open" /\ UNCHANGED mediaVars

(* PUT /media/uploads/:id/chunks/:i: fs.writeFile truncates, then writes.  *)
PutChunk(p, i) == WithSession(p, "put", [NewJob EXCEPT !.i = i])

TruncateChunk(p) ==
    /\ pc[p] = "put"
    /\ chunk' = [chunk EXCEPT ![task[p].i] = "torn"]
    /\ At(p, "writing", task[p])
    /\ Works /\ UNCHANGED <<session, final, object, rows, mediaHistory>>

\* The file may be gone by now; or another PUT of it has yet to write it.
WriteChunk(p) ==
    /\ pc[p] = "writing"
    /\ LET i == task[p].i
           others == {q \in Running({"writing"}) \ {p} : task[q].i = i}
       IN chunk' = [chunk EXCEPT ![i] = IF @ = "torn" /\ others = {} THEN "whole" ELSE @]
    /\ Answer(p)
    /\ Works /\ UNCHANGED <<session, final, object, rows, mediaHistory>>

-----------------------------------------------------------------------------
Assembling == Running({"chunk", "unlink", "save"})

\* Bound: room for the objects the running requests will save.
Room == Len(object) + Cardinality(Assembling \cup Running({"open"})) < MaxObjects

(* POST /media/uploads/:id/complete. *)
Complete(p) == Room /\ WithSession(p, "open", NewJob)

\* createWriteStream truncates the file, also one that another complete of
\* this upload is filling or saving: each may now write over the other.
OpenFinal(p) ==
    /\ pc[p] = "open"
    /\ final' = Empty
    /\ pc' = [pc EXCEPT ![p] = "chunk"]
    /\ task' = [q \in Procs |-> IF q \in Assembling \cup {p}
                                THEN [task[q] EXCEPT !.met = @ \/ Assembling # {}] ELSE task[q]]
    /\ Works /\ UNCHANGED <<session, chunk, object, rows, mediaHistory>>

\* Variant with a fault: a chunk that is missing is skipped.
NeverMissing(i) == FALSE

Missing(i) == chunk[i] = "none"

MissingChunk(p) ==
    /\ pc[p] = "chunk" /\ Missing(task[p].i)
    /\ Answer(p)
    /\ Works /\ UNCHANGED <<stores, mediaHistory>>

\* Access, read, write.  The file may have been unlinked by another complete:
\* then what is written to it is lost.
CopyChunk(p) ==
    /\ pc[p] = "chunk" /\ ~ Missing(task[p].i)
    /\ LET i == task[p].i
       IN /\ final' = IF final = NoFile THEN NoFile ELSE [final EXCEPT ![i] = chunk[i]]
          /\ At(p, "unlink", [task[p] EXCEPT !.met = @ \/ chunk[i] = "torn"])
    /\ Works /\ UNCHANGED <<session, chunk, object, rows, mediaHistory>>

UnlinkChunk(p) ==
    /\ pc[p] = "unlink"
    /\ chunk' = [chunk EXCEPT ![task[p].i] = "none"]
    /\ IF task[p].i < MaxChunk
       THEN At(p, "chunk", [task[p] EXCEPT !.i = @ + 1])
       ELSE At(p, "save", task[p])
    /\ Works /\ UNCHANGED <<session, final, object, rows, mediaHistory>>

\* An object has a new key each time it is saved.
Stores(p, content, label) ==
    /\ object' = Append(object, content)
    /\ doubt' = IF task[p] # NoTask /\ task[p].met THEN doubt \cup {Len(object) + 1} ELSE doubt
    /\ At(p, label, [NewJob EXCEPT !.n = Len(object) + 1])
    /\ Works /\ UNCHANGED <<session, chunk, final, rows, broken>>

Save(p) ==
    /\ pc[p] = "save" /\ final # NoFile
    /\ Stores(p, IF \A i \in Chunks : final[i] = "whole" THEN "whole" ELSE "partial", "clear")

\* createReadStream does not find the file: next(err).
SaveFails(p) ==
    /\ pc[p] = "save" /\ final = NoFile
    /\ Answer(p)
    /\ Works /\ UNCHANGED <<stores, mediaHistory>>

UnlinkFinal(p) ==
    /\ pc[p] = "clear"
    /\ final' = NoFile
    /\ At(p, "forget", task[p])
    /\ Works /\ UNCHANGED <<session, chunk, object, rows, mediaHistory>>

ForgetSession(p) ==
    /\ pc[p] = "forget"
    /\ session' = "gone"
    /\ At(p, "insert", task[p])
    /\ Works /\ UNCHANGED <<chunk, final, object, rows, mediaHistory>>

InsertRow(p) ==
    /\ pc[p] = "insert"
    /\ rows' = rows \cup {task[p].n}
    /\ Answer(p)
    /\ Works /\ UNCHANGED <<session, chunk, final, object, mediaHistory>>

\* Variant with a fault: the row is written before the object is saved.
UploadRowFirst(p) ==
    /\ pc[p] = "idle" /\ Room
    /\ rows' = rows \cup {Len(object) + 1}
    /\ At(p, "clear", [NewJob EXCEPT !.n = Len(object) + 1])
    /\ Works /\ UNCHANGED <<session, chunk, final, object, mediaHistory>>

(* POST /media/upload: the whole object in one request.                    *)
Upload(p) == pc[p] = "idle" /\ Room /\ Stores(p, "whole", "insert")

(* DELETE /media/:id by its uploader: SELECT, the object, the row.         *)
DropMedia(p, n) ==
    /\ pc[p] = "idle" /\ n \in rows
    /\ At(p, "drop", [NewJob EXCEPT !.n = n])
    /\ Works /\ UNCHANGED <<stores, mediaHistory>>

DeleteObject(p) ==
    /\ pc[p] = "drop"
    /\ object' = [object EXCEPT ![task[p].n] = "deleted"]
    /\ At(p, "unrow", task[p])
    /\ Works /\ UNCHANGED <<session, chunk, final, rows, mediaHistory>>

DeleteRow(p) ==
    /\ pc[p] = "unrow"
    /\ rows' = rows \ {task[p].n}
    /\ Answer(p)
    /\ Works /\ UNCHANGED <<session, chunk, final, object, mediaHistory>>

-----------------------------------------------------------------------------
\* The object whose row the request has yet to write, or to remove.
Unsettled(p) == IF pc[p] \in {"clear", "forget", "insert", "unrow"} THEN {task[p].n} ELSE {}

MediaFails(p) ==
    /\ Fails(p)
    /\ broken' = broken \cup Unsettled(p)
    /\ UNCHANGED <<stores, doubt>>

MediaRestart ==
    /\ Restarts
    /\ broken' = broken \cup UNION {Unsettled(p) : p \in Procs}
    /\ UNCHANGED <<stores, doubt>>

MediaNext ==
    \/ CreateSession \/ Expire \/ MediaRestart
    \/ \E p \in Procs :
          \/ \E i \in Chunks : PutChunk(p, i)
          \/ Complete(p) \/ InvalidSession(p) \/ TruncateChunk(p) \/ WriteChunk(p)
          \/ OpenFinal(p) \/ MissingChunk(p) \/ CopyChunk(p) \/ UnlinkChunk(p)
          \/ Save(p) \/ SaveFails(p) \/ UnlinkFinal(p) \/ ForgetSession(p) \/ InsertRow(p)
          \/ Upload(p) \/ DeleteObject(p) \/ DeleteRow(p) \/ MediaFails(p)
          \/ \E n \in Objects : DropMedia(p, n)

-----------------------------------------------------------------------------
(* Media with a row is all there, in the order of its chunks, and an       *)
(* object that is stored has its row.  The exceptions: two completes of    *)
(* one upload met, and wrote into the same file; a complete read a chunk   *)
(* that was not quite written; a request broke off between the object and  *)
(* the row, which is never made good.                                      *)
ReadyIsWhole ==
    \A n \in DOMAIN object \ broken :
        \/ \E p \in Procs : n \in Unsettled(p)
        \/ n \in rows /\ (object[n] = "whole" \/ n \in doubt)
        \/ n \notin rows /\ object[n] = "deleted"

=============================================================================
