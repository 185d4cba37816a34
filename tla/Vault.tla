-------------------------------- MODULE Vault --------------------------------
(***************************************************************************)
(* The notes of the user and what the brain makes of them (brain/vault.py, *)
(* brain/brain.py, brain/storage/markdown_store.py).  The vault is a       *)
(* folder of Markdown files which the user edits at any moment with any    *)
(* editor; the knowledge rows and the chunks of the search index are       *)
(* projections of it; the manifest says which state of which note was      *)
(* projected last, and a note that equals its entry is passed over.  The   *)
(* operations of the brain exclude each other by its lock, but none of     *)
(* their steps is atomic with the next: the user or a death may come       *)
(* between.  A function that reads a file and replaces it is one step, and *)
(* so is the row of a note with its chunks.                                *)
(*                                                                         *)
(* Paths and texts are numbers.  path_for(x), the file that a new note     *)
(* with text x gets, is x; files are listed in the order of their paths.   *)
(* A text stands for all that semantic_normalize takes for the same; time  *)
(* stamps, links and the cache of parsed files are left out.               *)
(***************************************************************************)
EXTENDS Naturals, FiniteSets

CONSTANTS Paths, NoteTexts, Ids,    \* numbers, NoteTexts \subseteq Paths
          Blank, NoText, NoId, NoNote,
          Statuses,                 \* what a correction or a promotion sets
          Moments,                  \* the steps of the brain before which the user may edit
          MaxEdits, MaxWrites       \* bounds: edits of the user, writes of the brain

\* What a note, a row and an entry of the manifest may be.
StatusSet == Statuses \cup {"verified", "superseded"}
NoteSet == [id : Ids \cup {NoId}, text : NoteTexts \cup {Blank}, status : StatusSet, key : NoteTexts \cup {NoText}]
RowSet == [text : NoteTexts \cup {Blank}, status : StatusSet]
EntrySet == [path : Paths, note : NoteSet]

\* No note is none of these, and what stands for nothing is nothing else.
ASSUME VaultAssumption ==
    /\ Paths \subseteq Nat \ {0} /\ NoteTexts \subseteq Paths
    /\ Blank \notin NoteTexts /\ NoText \notin NoteTexts /\ NoId \notin Ids
    /\ (\A n \in NoteSet : n # NoNote) /\ (\A r \in RowSet : r # NoNote) /\ \A e \in EntrySet : e # NoNote

VARIABLES
    note,       \* note[p]: the file p, or NoNote
    row,        \* row[k]: the knowledge row of id k, or NoNote
    manifest,   \* manifest[k]: where note k was and what it was when it was
                \* acknowledged, or NoNote
    chunks,     \* chunks[p]: the note whose chunks the search index has for p
    op,         \* what the holder of the brain's lock is at
    snap, todo, \* of a reconciliation: the files as they were parsed, and
                \* those still to be projected
    synced,     \* history: "yes" if neither the user nor a write of the brain came
                \* after the last reconciliation had read the files
    adrift,     \* history: ids left as no reconciliation will find them
    blurred,    \* history: files whose chunks no reconciliation will repair
    edits, writes   \* history: what the user and the brain did

mindVars == <<row, manifest, chunks>>
pastVars == <<synced, adrift, blurred>>
vaultVars == <<note, mindVars, op, snap, todo, pastVars, edits, writes>>

\* key is the text that the brain wrote the note for (identity).
Note(k, x, s, key) == [id |-> k, text |-> x, status |-> s, key |-> key]

\* A step with what it works on: the id whose row it is about, a text, a file, and
\* the note it has indexed at that file.
Op(at, k, x, p) == [at |-> at, id |-> k, text |-> x, path |-> p, seen |-> NoNote]
Idle == Op("idle", NoId, NoText, 0)
At(step) == op.at = step

Present(p) == note[p] # NoNote
FilesOf(k) == {p \in Paths : Present(p) /\ note[p].id = k}
Entries(p) == {k \in Ids : manifest[k] # NoNote /\ manifest[k].path = p}
First(S) == CHOOSE p \in S : \A q \in S : p <= q

\* What the row of a note says, and what is searchable of it.
Projection(n) == [text |-> n.text, status |-> IF n.text = Blank THEN "superseded" ELSE n.status]
Searchable(n) == IF n = NoNote \/ n.text = Blank THEN NoNote ELSE n

\* A new id (uuid4), if the bound allows.
FreshIds ==
    LET taken == {k \in Ids : row[k] # NoNote \/ manifest[k] # NoNote \/ FilesOf(k) # {}
                                \/ \E p \in Paths : snap[p] # NoNote /\ snap[p].id = k}
    IN  {k \in Ids \ taken : \A j \in Ids \ taken : k <= j}

VaultInit ==
    /\ note = [p \in Paths |-> NoNote] /\ chunks = note /\ snap = note
    /\ row = [k \in Ids |-> NoNote] /\ manifest = row
    /\ op = Idle /\ todo = {}
    /\ synced = "no" /\ adrift = {} /\ blurred = {} /\ edits = 0 /\ writes = 0

-----------------------------------------------------------------------------
(* The user, in any editor, at any moment *)

EditCounts ==
    op.at \in Moments /\ edits < MaxEdits /\ edits' = edits + 1 /\ synced' = "no"

Edit(p, n) ==
    /\ EditCounts
    /\ note' = [note EXCEPT ![p] = n]
    /\ UNCHANGED <<mindVars, op, snap, todo, adrift, blurred, writes>>

\* A new file, or one whose content is replaced as a whole.
Overwrite(p, x) == Edit(p, Note(NoId, x, "verified", NoText))
Rewrite(p, x) == Present(p) /\ x # note[p].text /\ Edit(p, [note[p] EXCEPT !.text = x])
Retract(p) == Present(p) /\ note[p].status # "superseded"
              /\ Edit(p, [note[p] EXCEPT !.status = "superseded"])
Unlink(p) == Present(p) /\ Edit(p, NoNote)
Copy(p, q) == Present(p) /\ ~Present(q) /\ Edit(q, note[p])

Rename(p, q) ==
    /\ Present(p) /\ ~Present(q) /\ EditCounts
    /\ note' = [note EXCEPT ![p] = NoNote, ![q] = note[p]]
    /\ UNCHANGED <<mindVars, op, snap, todo, adrift, blurred, writes>>

UserStep ==
    \E p \in Paths :
        \/ \E x \in NoteTexts : Overwrite(p, x)
        \/ \E x \in NoteTexts \cup {Blank} : Rewrite(p, x)
        \/ Retract(p) \/ Unlink(p)
        \/ \E q \in Paths : Copy(p, q) \/ Rename(p, q)

-----------------------------------------------------------------------------
(* record: the state of a file is acknowledged, as the file is now *)

\* An operation that ends without an acknowledgement leaves a row that its entry,
\* if there is one, is not about.
Unacknowledged == IF op.id \in Ids THEN adrift \cup {op.id} ELSE adrift

Moved(k, p) == manifest[k] # NoNote /\ manifest[k].path # p

\* The file is what was indexed, and that is what the row says.
AsExpected(p) ==
    LET n == note[p] IN
    /\ n = op.seen
    /\ CASE At("ack")      -> n = snap[p]
         [] At("record")   -> n = Note(op.id, op.text, "verified", op.text)
         [] At("rerecord") -> /\ manifest[n.id] # NoNote /\ n.text # Blank
                              /\ n = [manifest[n.id].note EXCEPT !.status = row[n.id].status]

\* Where the notes of ks were acknowledged before, if not at p.
Elsewhere(ks, p) == {manifest[k].path : k \in {j \in ks \cap Ids : Moved(j, p)}}

\* The file is read anew: what nobody has projected may be acknowledged, also that
\* it was renamed.  A new status makes nothing good that was adrift.
Acknowledge(p) ==
    LET n == note[p] IN
    /\ manifest' = [manifest EXCEPT ![n.id] = [path |-> p, note |-> n]]
    /\ adrift' = IF ~AsExpected(p) THEN Unacknowledged \cup {n.id}
                 ELSE IF At("rerecord") THEN adrift ELSE adrift \ {n.id}
    /\ blurred' = blurred \cup (IF n = op.seen THEN {} ELSE {p})
                          \cup (IF At("ack") /\ op.id = n.id /\ snap[p].id = n.id THEN {}
                                ELSE Elsewhere({op.id, n.id}, p))

\* A file that is gone or has no identity raises.
Readable(p) == Present(p) /\ note[p].id # NoId

\* It has raised, and what it did to the chunks is not acknowledged either.
Raise(p) ==
    /\ adrift' = Unacknowledged
    /\ blurred' = blurred \cup ({p} \cap Paths) \cup Elsewhere({op.id}, p)
    /\ UNCHANGED <<note, mindVars, synced, edits, writes>>

-----------------------------------------------------------------------------
(* reconcile_markdown: the files are read at once, then projected one by one *)

Twice == \E p, q \in Paths : p # q /\ Present(p) /\ Present(q)
                                /\ note[p].id = note[q].id /\ note[p].id # NoId

\* Two notes of one id stop it before anything is changed.
StartSync ==
    /\ IF Twice THEN op' = Idle /\ UNCHANGED <<snap, todo, synced>>
                ELSE /\ op' = Op("sync", NoId, NoText, 0)
                     /\ snap' = note /\ todo' = {p \in Paths : Present(p)} /\ synced' = "yes"
    /\ UNCHANGED <<note, mindVars, blurred, edits, writes>>

EndSync == op' = Idle /\ snap' = [p \in Paths |-> NoNote] /\ todo' = {}

Reconcile == At("idle") /\ StartSync /\ UNCHANGED adrift

\* A note without an id gets one; what is written is what was parsed.
NameNote ==
    /\ At("sync") /\ todo # {} /\ LET p == First(todo) IN
       /\ snap[p].id = NoId
       /\ \E k \in FreshIds :
            LET n == [snap[p] EXCEPT !.id = k, !.status = "verified"] IN
            note' = [note EXCEPT ![p] = n] /\ snap' = [snap EXCEPT ![p] = n]
    /\ UNCHANGED <<mindVars, op, todo, pastVars, edits, writes>>

\* MUTANT of Settled: a note that was renamed is taken for unchanged.
SettledAnywhere(k, p) ==
    manifest[k] # NoNote /\ manifest[k].note = snap[p] /\ row[k] # NoNote

\* Nothing is to be done: same digest, same place, and the row exists.
Settled(k, p) ==
    /\ manifest[k] # NoNote /\ manifest[k].note = snap[p] /\ row[k] # NoNote
    /\ ~Moved(k, p)

PassOver ==
    /\ At("sync") /\ todo # {} /\ LET p == First(todo) IN
       /\ snap[p].id # NoId /\ Settled(snap[p].id, p) /\ todo' = todo \ {p}
    /\ UNCHANGED <<note, mindVars, op, snap, pastVars, edits, writes>>

\* Chunks that are removed for the sake of note k, which was there before, may be
\* those of another note that was acknowledged there.
Unlisted(k) ==
    LET p == manifest[k].path IN
    IF Entries(p) = {k} THEN blurred \ {p} ELSE blurred \cup {p}

\* The row is written from the file as it is now, its end decided by the body
\* that was parsed.
Project ==
    /\ At("sync") /\ todo # {} /\ LET p == First(todo)  k == snap[p].id IN
       /\ k # NoId /\ ~Settled(k, p) /\ Readable(p)
       /\ row' = [row EXCEPT ![note[p].id] =
                    [text |-> note[p].text,
                     status |-> IF snap[p].text = Blank THEN "superseded" ELSE note[p].status]]
       /\ chunks' = [q \in Paths |-> IF Moved(k, p) /\ q = manifest[k].path THEN NoNote
                                     ELSE IF q = p THEN Searchable(note[p]) ELSE chunks[q]]
       /\ blurred' = (IF ~Moved(k, p) THEN blurred
                      ELSE IF note[p].id = k THEN Unlisted(k)
                      ELSE blurred \cup {manifest[k].path}) \ {p}
       /\ op' = [Op("ack", note[p].id, NoText, p) EXCEPT !.seen = note[p]]
    /\ UNCHANGED <<note, manifest, snap, todo, synced, adrift, edits, writes>>

RecordProjected ==
    /\ At("ack") /\ Readable(op.path) /\ Acknowledge(op.path)
    /\ todo' = todo \ {op.path} /\ op' = Op("sync", NoId, NoText, 0)
    /\ UNCHANGED <<note, row, chunks, snap, synced, edits, writes>>

\* The file is gone, or has lost its id, since it was parsed.
AbortSync ==
    /\ \/ At("sync") /\ todo # {} /\ LET p == First(todo) IN
            snap[p].id # NoId /\ ~Settled(snap[p].id, p) /\ ~Readable(p)
       \/ At("ack") /\ ~Readable(op.path)
    /\ EndSync /\ Raise(op.path)

Missing == {k \in Ids : manifest[k] # NoNote /\ \A p \in Paths : snap[p] = NoNote \/ snap[p].id # k}

\* The note of an entry was not found: its row is superseded, its chunks go.
Retire(k) ==
    /\ At("sync") /\ todo = {} /\ k \in Missing
    /\ row' = IF row[k] = NoNote THEN row ELSE [row EXCEPT ![k].status = "superseded"]
    /\ chunks' = [chunks EXCEPT ![manifest[k].path] = NoNote]
    /\ blurred' = Unlisted(k)
    /\ manifest' = [manifest EXCEPT ![k] = NoNote] /\ adrift' = adrift \ {k}
    /\ UNCHANGED <<note, op, snap, todo, synced, edits, writes>>

Reconciled ==
    /\ At("sync") /\ todo = {} /\ Missing = {} /\ EndSync
    /\ UNCHANGED <<note, mindVars, pastVars, edits, writes>>

SyncStep ==
    \/ Reconcile \/ NameNote \/ PassOver \/ Project \/ RecordProjected \/ AbortSync
    \/ \E k \in Ids : Retire(k)
    \/ Reconciled

-----------------------------------------------------------------------------
(* learn: a row first, then its note *)

\* find_existing: the first file written for x, else the first that says x.
FindExisting(x) ==
    LET written == {p \in Paths : Present(p) /\ note[p].key = x}
        saying  == {p \in Paths : Present(p) /\ note[p].text = x}
    IN  IF written # {} THEN First(written) ELSE IF saying # {} THEN First(saying) ELSE 0

Write == writes < MaxWrites /\ writes' = writes + 1

\* A row of a verified item; its note is still to be written.
WriteRow(k, x) ==
    /\ row' = [row EXCEPT ![k] = [text |-> x, status |-> "verified"]]
    /\ op' = Op("mirror", k, x, 0) /\ synced' = "no"
    /\ UNCHANGED <<note, manifest, chunks, snap, todo, adrift, blurred, edits>>

\* An identity is taken over from a file that says x.
Learn(x) ==
    /\ At("idle") /\ Write /\ LET p == FindExisting(x) IN
       IF p # 0 /\ note[p].text = x /\ note[p].id # NoId
       THEN WriteRow(note[p].id, x)
       ELSE \E k \in FreshIds : WriteRow(k, x)

\* MUTANT of Kept: only files of other ids are left alone.
KeptById(p) == Present(p) /\ note[p].id \notin {NoId, op.id}

\* write_item: a file whose text the user has changed is left alone.
Kept(p) == Present(p) /\ note[p].text \notin {Blank, op.text}

Mirror ==
    /\ At("mirror") /\ LET found == FindExisting(op.text)
                           p == IF found # 0 THEN found ELSE op.text IN
       /\ note' = IF Kept(p) THEN note
                  ELSE [note EXCEPT ![p] = Note(op.id, op.text, row[op.id].status, op.text)]
       /\ op' = [op EXCEPT !.at = "check", !.path = p]
    /\ UNCHANGED <<mindVars, snap, todo, pastVars, edits, writes>>

\* _sync_markdown looks at the file again: if it says something else, all files
\* are reconciled instead.
Check ==
    /\ At("check") /\ LET p == op.path IN
       \/ ~Present(p) /\ Raise(0) /\ op' = Idle /\ UNCHANGED <<snap, todo>>
       \/ Present(p) /\ note[p].text # op.text /\ StartSync /\ adrift' = Unacknowledged
       \/ /\ Present(p) /\ note[p].text = op.text
          /\ chunks' = [chunks EXCEPT ![p] = Searchable(note[p])]
          /\ blurred' = blurred \ {p}
          /\ op' = [op EXCEPT !.at = "record", !.seen = note[p]]
          /\ UNCHANGED <<note, row, manifest, snap, todo, synced, adrift, edits, writes>>

Record ==
    /\ At("record") /\ op' = Idle
    /\ IF Readable(op.path)
       THEN Acknowledge(op.path) /\ UNCHANGED <<note, row, chunks, snap, todo, synced, edits, writes>>
       ELSE Raise(op.path) /\ UNCHANGED <<snap, todo>>

-----------------------------------------------------------------------------
(* correct_memory, and what maintain promotes or lets decay *)

\* The row gets its status first; x is what a correction puts in its place.
Correct(k, s, x) ==
    /\ At("idle") /\ Write /\ row[k] # NoNote
    /\ row' = [row EXCEPT ![k].status = s]
    /\ op' = Op("restate", k, x, 0) /\ synced' = "no"
    /\ UNCHANGED <<note, manifest, chunks, snap, todo, adrift, blurred, edits>>

AfterStatus == IF op.text = NoText THEN Idle ELSE Op("replace", NoId, op.text, 0)

\* _sync_status_markdown: the note of k, whatever it says by now, gets the status.
Restate ==
    /\ At("restate")
    /\ IF FilesOf(op.id) = {}
       THEN op' = AfterStatus /\ adrift' = Unacknowledged /\ UNCHANGED <<note, chunks, blurred>>
       ELSE LET p == First(FilesOf(op.id))
                n == [note[p] EXCEPT !.status = row[op.id].status] IN
            /\ note' = [note EXCEPT ![p] = n]
            /\ chunks' = [chunks EXCEPT ![p] = Searchable(n)] /\ blurred' = blurred \ {p}
            /\ op' = [op EXCEPT !.at = "rerecord", !.path = p, !.seen = n] /\ UNCHANGED adrift
    /\ UNCHANGED <<row, manifest, snap, todo, synced, edits, writes>>

\* What is raised here is swallowed.
RecordStatus ==
    /\ At("rerecord") /\ op' = AfterStatus
    /\ IF Readable(op.path)
       THEN Acknowledge(op.path) /\ UNCHANGED <<note, row, chunks, snap, todo, synced, edits, writes>>
       ELSE Raise(op.path) /\ UNCHANGED <<snap, todo>>

\* The statement of a correction is a new row, whatever the notes say already.
Replace == At("replace") /\ UNCHANGED writes /\ \E k \in FreshIds : WriteRow(k, op.text)

BrainStep ==
    \/ SyncStep
    \/ \E x \in NoteTexts : Learn(x)
    \/ Mirror \/ Check \/ Record
    \/ \E k \in Ids, s \in Statuses : Correct(k, s, NoText)
    \/ \E k \in Ids, x \in NoteTexts : Correct(k, "superseded", x)
    \/ Restate \/ RecordStatus \/ Replace

VaultNext == UserStep \/ BrainStep

\* The notes that were acknowledged at p.
Recorded(p) == {manifest[k].note : k \in {j \in Ids : manifest[j] # NoNote /\ manifest[j].path = p}}

\* The process dies; the next one indexes all files before it does anything else,
\* also what was never acknowledged.
VaultRestart ==
    /\ op' = Idle /\ snap' = [p \in Paths |-> NoNote] /\ todo' = {}
    /\ chunks' = [p \in Paths |-> Searchable(note[p])]
    /\ blurred' = {p \in Paths : Recorded(p) # {note[p]} \ {NoNote}}
    /\ adrift' = Unacknowledged /\ synced' = "no"
    /\ UNCHANGED <<note, row, manifest, edits, writes>>

VaultSpec == VaultInit /\ [][VaultNext]_vaultVars

-----------------------------------------------------------------------------
\* After a reconciliation that nothing interrupted, which is when recall reads, the
\* rows and the search index are the projection of the notes: a note has its row
\* and its chunks, a row without a note is superseded, a path without a note has no
\* chunks.  This survives edits, renames and deaths before and within any
\* operation, but for what those and a second note on one path leave behind
\* unacknowledged, or acknowledged unseen (adrift, blurred).
Projected ==
    At("idle") /\ synced = "yes" =>
        /\ \A k \in Ids \ adrift :
            IF FilesOf(k) = {} THEN row[k] = NoNote \/ row[k].status = "superseded"
            ELSE row[k] = Projection(note[First(FilesOf(k))])
        /\ \A p \in Paths \ blurred :
            chunks[p] = Searchable(note[p])

\* The brain does not change what a note says, not even what it was asked to learn
\* or to correct, but for a note without identity that the user changes while it
\* is being given one.
UserTextKept ==
    [][\A p \in Paths :
        (edits' = edits /\ Present(p) /\ note[p].text # Blank
            /\ ~(At("sync") /\ snap[p] # note[p]))
        => note'[p] # NoNote /\ note'[p].text = note[p].text]_vaultVars

\* What the notes say, and nothing else, is found by a search: note edits refresh
\* the chunks, and removed paths are purged from the index
\* (docs/architecture/unified-brain-lifecycle.md:52).
Searched ==
    At("idle") /\ synced = "yes" /\ adrift = {} =>
        \A p \in Paths : chunks[p] = Searchable(note[p])
=============================================================================
