------------------------------ MODULE RagIndex -------------------------------
(***************************************************************************)
(* The chunks of one document: the text of an OCR job cut into overlapping *)
(* windows, indexings that replace the document's chunks at once, searches *)
(* that cite them, and the erasure of the document.                        *)
(*                                                                         *)
(* An indexing is one READ COMMITTED transaction with a call of the        *)
(* embedding provider in the middle.  Its steps are its statements: a      *)
(* DELETE sees the chunks committed when it begins and waits for those     *)
(* that another indexing is deleting; an INSERT waits for, or is refused   *)
(* by, a chunk of the same job and index.  A character is a letter (TRUE)  *)
(* or a blank.  RAG asks whether the document is there, not whether it is  *)
(* marked deleted, so the mark is left out.                                *)
(***************************************************************************)
EXTENDS Integers, Sequences, FiniteSets, FiniteSetsExt

CONSTANTS
    Indexings,      \* requests to index the document, each made once
    MaxJobs,        \* bound: OCR jobs of the document
    MaxLength,      \* bound: characters of its text
    MinSize,        \* 64 in the code: the least size of a window
    ChunkSize,      \* settings.rag_chunk_size
    Overlap,        \* settings.rag_chunk_overlap
    TopK            \* settings.rag_top_k, or what a search asks for

ASSUME ConstantsAssumption ==
    /\ IsFiniteSet(Indexings)
    /\ MaxJobs \in Nat
    /\ MaxLength \in Nat
    /\ MinSize \in Nat \ {0}
    /\ {ChunkSize, Overlap} \subseteq Int
    /\ TopK \in 1..20

VARIABLES
    text,       \* what OCR reads in the document
    latest,     \* jobs 1..latest have succeeded, in this order
    there,      \* the document has a row
    chunks,     \* committed rows of document_chunks
    run,        \* run[i]: the transaction of indexing i
    search      \* a search: the rows it has listed, the indexings committed since it
                \* has listed any, and the rows it has cited

vars == <<text, latest, there, chunks, run, search>>

-----------------------------------------------------------------------------
(* chunk_text                                                              *)

Texts == UNION {[1..n -> BOOLEAN] : n \in 0..MaxLength}

Size == Max({MinSize, ChunkSize})
Lap  == Max({0, Min({Overlap, Size - 1})})

\* Mutant of Stride: windows side by side.
StrideBeside == Size

Stride == Max({1, Size - Lap})

\* What is left of the characters a..b without the blanks around them.
Stripped(txt, a, b) ==
    LET letters == {p \in a..b : txt[p]}
    IN  IF letters = {} THEN <<>> ELSE <<[from |-> Min(letters), to |-> Max(letters)]>>

Pieces(txt) ==
    LET cleaned == Stripped(txt, 1, Len(txt))
        last == cleaned[1].to
        window[start \in 1..Len(txt)] ==
            LET end == Min({last, start + Size - 1})
            IN  Stripped(txt, start, end) \o IF end >= last THEN <<>> ELSE window[start + Stride]
    IN  IF cleaned = <<>> THEN <<>> ELSE window[cleaned[1].from]

-----------------------------------------------------------------------------

Chunk == [by : Indexings, job : 1..MaxJobs, index : 1..MaxLength,
          from : 1..MaxLength, to : 1..MaxLength]

PC == {"new", "embedding", "deleting", "insert", "commit", "done", "failed"}

Run == [pc   : PC,
        job  : 0..MaxJobs,
        todo : SUBSET Chunk,           \* chunks that its DELETE has found
        off  : SUBSET Chunk,           \* chunks it has deleted, not committed
        met  : SUBSET Indexings]       \* indexings open beside it

New == [pc |-> "new", job |-> 0, todo |-> {}, off |-> {}, met |-> {}]

Open(i)   == run[i].pc \in {"embedding", "deleting", "insert", "commit"}
Others(i) == {j \in Indexings \ {i} : Open(j)}

Init ==
    /\ text \in Texts
    /\ latest = 0
    /\ there = TRUE
    /\ chunks = {}
    /\ run = [i \in Indexings |-> New]
    /\ search = [listed |-> {}, late |-> {}, cited |-> {}]

Becomes(i, r) == run' = [run EXCEPT ![i] = r] /\ UNCHANGED <<text, latest, there, chunks, search>>

\* The rows of indexing i: the pieces of its job's text, numbered in order.
RowsOf(i) ==
    LET pieces == Pieces(text)
    IN  {[by |-> i, job |-> run[i].job, index |-> n, from |-> pieces[n].from, to |-> pieces[n].to] :
            n \in DOMAIN pieces}

-----------------------------------------------------------------------------
(* Indexing                                                                *)

JobSucceeds ==
    /\ there
    /\ latest < MaxJobs
    /\ latest' = latest + 1
    /\ UNCHANGED <<text, there, chunks, run, search>>

\* A succeeded job of one's own document, which is cut up; without a piece, 422.
Begin(i, job) ==
    /\ run[i].pc = "new"
    /\ there
    /\ job \in 1..latest
    /\ run' = [j \in Indexings |->
                 IF j = i
                 THEN [New EXCEPT !.pc = IF Pieces(text) = <<>> THEN "failed" ELSE "embedding",
                                  !.job = job, !.met = Others(i)]
                 ELSE [run[j] EXCEPT !.met = IF Open(j) THEN @ \cup {i} ELSE @]]
    /\ UNCHANGED <<text, latest, there, chunks, search>>

IndexJob(i)      == \E job \in 1..latest : Begin(i, job)
IndexDocument(i) == Begin(i, latest)

\* The vectors are there: the DELETE begins.
Embedded(i) ==
    /\ run[i].pc = "embedding"
    /\ Becomes(i, [run[i] EXCEPT !.pc = "deleting", !.todo = chunks])

\* Mutant of Delete: only the chunks of the job are replaced.
DeleteOfJob(i) ==
    /\ run[i].pc = "deleting"
    /\ \A j \in Others(i) : run[j].off \cap run[i].todo = {}
    /\ Becomes(i, [run[i] EXCEPT !.pc = "insert", !.todo = {},
                                 !.off = {c \in run[i].todo \cap chunks : c.job = run[i].job}])

\* delete_for_document: the chunks it has found and that are still there.
Delete(i) ==
    /\ run[i].pc = "deleting"
    /\ \A j \in Others(i) : run[j].off \cap run[i].todo = {}
    /\ Becomes(i, [run[i] EXCEPT !.pc = "insert", !.todo = {}, !.off = run[i].todo \cap chunks])

Fail(i) == Becomes(i, [run[i] EXCEPT !.pc = "failed", !.todo = {}, !.off = {}])

\* Unique (document, job, index).
Inserting(i) == {j \in Others(i) : run[j].pc = "commit" /\ run[j].job = run[i].job}
Rivals(i)    == {c \in chunks \ run[i].off : c.job = run[i].job}

\* bulk_create; the document must still be there.
Insert(i) ==
    /\ run[i].pc = "insert"
    /\ Inserting(i) = {}
    /\ \A j \in Others(i) : run[j].off \cap Rivals(i) = {}
    /\ IF there /\ Rivals(i) = {}
       THEN Becomes(i, [run[i] EXCEPT !.pc = "commit"])
       ELSE Fail(i)

Commit(i) ==
    /\ run[i].pc = "commit"
    /\ chunks' = (chunks \ run[i].off) \cup RowsOf(i)
    /\ run' = [run EXCEPT ![i].pc = "done", ![i].off = {}]
    /\ search' = [search EXCEPT !.late = IF search.listed = {} THEN @ ELSE @ \cup {i}]
    /\ UNCHANGED <<text, latest, there>>

\* The provider or the database fails, or the process dies.
Fault(i) == Open(i) /\ Fail(i)

-----------------------------------------------------------------------------
(* Searching and erasing                                                   *)

\* A new search reads its candidates; the one before may have failed half-way.
List ==
    /\ there
    /\ search' = [listed |-> chunks, late |-> {}, cited |-> {}]
    /\ UNCHANGED <<text, latest, there, chunks, run>>

\* The search names the document once more: a SELECT of its own, and new rows are added.
ListAgain ==
    /\ there
    /\ search.listed # {}
    /\ search' = [search EXCEPT !.listed = @ \cup chunks]
    /\ UNCHANGED <<text, latest, there, chunks, run>>

\* The query is embedded: the best TopK of them, whatever their scores are.
Cite ==
    /\ \E best \in kSubset(Min({TopK, Cardinality(search.listed)}), search.listed) :
            search' = [search EXCEPT !.listed = {}, !.cited = best]
    /\ UNCHANGED <<text, latest, there, chunks, run>>

\* The document's row is deleted with its jobs and chunks, once no open indexing has
\* a lock on any of them.
Purge ==
    /\ there
    /\ \A i \in Indexings : run[i].pc # "commit" /\ run[i].off = {}
    /\ there' = FALSE
    /\ latest' = 0
    /\ chunks' = {}
    /\ UNCHANGED <<text, run, search>>

-----------------------------------------------------------------------------

Next ==
    \/ JobSucceeds
    \/ \E i \in Indexings :
        \/ IndexJob(i) \/ IndexDocument(i)
        \/ Embedded(i) \/ Delete(i) \/ Insert(i) \/ Commit(i)
        \/ Fault(i)
    \/ List \/ ListAgain \/ Cite
    \/ Purge

Spec == Init /\ [][Next]_vars

-----------------------------------------------------------------------------
(* Properties                                                              *)

\* The variables hold what the code can put into them.
TypeOK ==
    /\ text \in Texts
    /\ latest \in 0..MaxJobs
    /\ there \in BOOLEAN
    /\ chunks \subseteq Chunk
    /\ run \in [Indexings -> Run]
    /\ search \in [listed : SUBSET Chunk, late : SUBSET Indexings, cited : SUBSET Chunk]

Overlapped(i, j) == j \in run[i].met \/ i \in run[j].met

\* An indexing replaces what earlier ones have left: chunks of two of them stand side by
\* side only if the two overlapped, and are cited together only then, or when one of the
\* two was committed between two SELECTs of a search that names the document more than
\* once (RagService.index, retrieve).
MixedOverlapped ==
    /\ \A c, d \in chunks : c.by # d.by => Overlapped(c.by, d.by)
    /\ \A c, d \in search.cited :
           c.by # d.by => Overlapped(c.by, d.by) \/ {c.by, d.by} \cap search.late # {}

\* Whatever is indexed is indexed whole: the chunks of an indexing are all there or all
\* gone, also after another has begun to replace them, and no passage shorter than the
\* overlap, and no single letter, is cut between two of them (chunk_text, bulk_create).
IndexedWhole ==
    \A i \in {c.by : c \in chunks} : \A a, b \in DOMAIN text :
        (text[a] /\ text[b] /\ a <= b /\ b - a <= Lap) =>
            \E c \in chunks : c.by = i /\ c.from <= a /\ b <= c.to

=============================================================================
