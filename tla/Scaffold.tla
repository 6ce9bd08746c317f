------------------------------ MODULE Scaffold ------------------------------
(***************************************************************************)
(* One call of scaffold() (src/scaffold/expander.ts): the checks of its    *)
(* arguments, the walk of the source folder (walk.ts), the filename        *)
(* pipeline and the collision check (filename-pipeline.ts), the choice     *)
(* between a value and a reference (classify-transport.ts), and the chunks *)
(* of directives that are flushed so that no batch exceeds the budget.     *)
(*                                                                         *)
(* The call is synchronous: nothing else of the program runs inside it,    *)
(* but the folder may lose an entry meanwhile.  A path is a sequence of    *)
(* names; a name has a stem, a number or one of Up ("..") and Dot ("."),   *)
(* and may be marked as a template.  Sizes are small numbers: a batch of   *)
(* n directives weighs Envelope, its directives and the commas between.    *)
(***************************************************************************)
EXTENDS Naturals, Sequences, FiniteSets, SequencesExt

CONSTANTS
  Call,       \* the arguments: [root, to, tree, rename, keep], from a set
  Seeds,      \* the sizes of the directives pending before the call
  Bound,      \* DEFAULT_WALK_ENTRY_BOUND
  Cap,        \* BATCH_CAP_BYTES, for a batch in its frame
  FrameSize,  \* what a frame adds to its batch, but the id of the call
  LongestId,  \* the length of the longest id
  Envelope,   \* the size of an empty batch
  CopyInSize  \* the size of a copyIn

(* What a folder can hold.                                                 *)
File(size, text) == [kind |-> "file", size |-> size, text |-> text]
Folder == [kind |-> "folder"]
Odd == [kind |-> "odd"]
Link(to) == [kind |-> "link", to |-> to]   \* to Odd: a broken link

(* What is read under a name of the folder: links are followed.            *)
Content(entry) == IF entry.kind = "link" THEN entry.to ELSE entry

Readable == [kind: {"file"}, size: Nat, text: BOOLEAN] \cup {Folder, Odd}
Pathname == Seq([stem: Nat, template: BOOLEAN]) \ {<<>>}

ASSUME ScaffoldAssumption ==
  /\ {Bound, Cap, FrameSize, LongestId, Envelope, CopyInSize} \subseteq Nat
  /\ CopyInSize + Envelope + FrameSize + LongestId <= Cap
  /\ Seeds \subseteq Seq([source: {<<>>}, dest: {<<>>}, size: Nat])
  /\ \A c \in Call :
       /\ IsFiniteSet(DOMAIN c.tree) /\ DOMAIN c.tree \subseteq Pathname
       /\ \A p \in DOMAIN c.tree : c.tree[p] \in Readable \cup [kind: {"link"}, to: Readable]
       /\ \A p \in DOMAIN c.rename : c.rename[p] \in Pathname

ExceedsBatchCap(size) == size > Cap

(* EMIT_BATCH_BUDGET_BYTES: room is kept for a frame with the longest id.  *)
Budget == Cap - (FrameSize + LongestId)

Up == 0
Dot == 9

VARIABLES
  call,      \* the arguments of the call
  phase,     \* where the call stands
  gone,      \* the entries that have disappeared from the folder
  stack,     \* the folders still to be listed
  names,     \* what is left of the present listing
  count,     \* enumeratedCount
  entries,   \* the files found
  results,   \* what the pipeline makes of them
  pending,   \* the session's buffer, as sizes with sources
  counted,   \* pendingCount and pendingSize
  batches    \* the chunks flushed

vars == <<call, phase, gone, stack, names, count, entries, results, pending, counted,
          batches>>

Reject(why) == phase' = why
Walking == phase = "walk"

-----------------------------------------------------------------------------
(* Paths and names.                                                        *)

Name(n) == [stem |-> n, template |-> FALSE]
Template(n) == [stem |-> n, template |-> TRUE]

Escapes(path) == \E i \in DOMAIN path : path[i].stem = Up

Normalized(path) == SelectSeq(path, LAMBDA n : n.stem # Dot)

(* rename, then the tokens (which map names one to one and are left out),  *)
(* then the template suffix.                                               *)
Pipeline(path) ==
  LET renamed == IF path \in DOMAIN call.rename THEN call.rename[path] ELSE path
  IN [source |-> path,
      dest |-> [renamed EXCEPT ![Len(renamed)].template = FALSE],
      template |-> Last(renamed).template]

(* A slip: destinations are compared as written.                           *)
CollidesVerbatim(rs) == \E i, j \in DOMAIN rs : i # j /\ rs[i].dest = rs[j].dest

(* Two sources may not end at one destination, as normalized.              *)
Collides(rs) ==
  \E i, j \in DOMAIN rs : i # j /\ Normalized(rs[i].dest) = Normalized(rs[j].dest)

-----------------------------------------------------------------------------
(* The walk.                                                               *)

Tree == call.tree
Present == DOMAIN Tree \ gone
SymlinkTargetIsDirectory(p) == Tree[p] = Link(Folder)

Target(p) == Content(Tree[p])

(* An entry named Template(n) sorts after one named Name(n).               *)
Before(p, q) ==
  \/ Last(p).stem < Last(q).stem
  \/ Last(p).stem = Last(q).stem /\ ~Last(p).template /\ Last(q).template

Sorted(paths) ==
  CHOOSE s \in [1..Cardinality(paths) -> paths] : \A i, j \in DOMAIN s : i < j => Before(s[i], s[j])

Listing(dir) == Sorted({p \in Present : Len(p) = Len(dir) + 1 /\ IsPrefix(dir, p)})

(* Arguments, and the root of the walk.                                    *)
Begin ==
  /\ phase = "begin"
  /\ IF call.to = "escapes" \/ call.root # "folder"
     THEN Reject("rejected") /\ UNCHANGED <<stack, names>>
     ELSE /\ phase' = "walk"
          /\ stack' = <<>> /\ names' = Listing(<<>>)
  /\ UNCHANGED <<call, gone, count, entries, results, pending, counted, batches>>

Enumerate(p) ==
  \/ /\ count + 1 > Bound \/ p \notin Present
     /\ Reject("rejected")
     /\ UNCHANGED <<stack, entries>>
  \/ /\ count + 1 <= Bound /\ p \in Present
     /\ UNCHANGED phase
     /\ stack' = IF Tree[p] = Folder THEN Append(stack, p) ELSE stack
     /\ entries' = IF Tree[p] = Folder \/ SymlinkTargetIsDirectory(p) THEN entries ELSE Append(entries, p)

(* The next name of the listing: a folder is put off, a link to a folder   *)
(* is skipped, anything else is an entry; the bound counts them all.       *)
Visit ==
  /\ Walking /\ names # <<>>
  /\ Enumerate(Head(names))
  /\ names' = Tail(names)
  /\ count' = count + 1
  /\ UNCHANGED <<call, gone, results, pending, counted, batches>>

Descend ==
  /\ Walking /\ names = <<>> /\ stack # <<>>
  /\ IF Last(stack) \in Present
     THEN names' = Listing(Last(stack)) /\ UNCHANGED phase
     ELSE Reject("rejected") /\ UNCHANGED names
  /\ stack' = Front(stack)
  /\ UNCHANGED <<call, gone, count, entries, results, pending, counted, batches>>

(* Another process removes an entry, with what is below it.                *)
Vanish(p) ==
  /\ phase \in {"walk", "expand"} /\ gone = {} /\ p \in Present
  /\ gone' = {q \in DOMAIN Tree : IsPrefix(p, q)}
  /\ UNCHANGED <<call, phase, stack, names, count, entries, results, pending, counted,
                 batches>>

-----------------------------------------------------------------------------
(* Directives and chunks.                                                  *)

(* Filters and pipeline.  An empty folder is no error; filters that leave  *)
(* nothing are one.                                                        *)
Keep(kept, p) == IF p \in call.keep THEN Append(kept, p) ELSE kept
Filtered == FoldLeft(Keep, <<>>, entries)

Prepare ==
  /\ Walking /\ names = <<>> /\ stack = <<>>
  /\ LET rs == [i \in DOMAIN Filtered |-> Pipeline(Filtered[i])]
     IN IF entries = <<>> THEN phase' = "done" /\ UNCHANGED results
        ELSE IF Filtered = <<>> \/ Collides(rs) THEN Reject("rejected") /\ UNCHANGED results
        ELSE phase' = "expand" /\ results' = rs
  /\ UNCHANGED <<call, gone, stack, names, count, entries, pending, counted, batches>>

(* What a batch serializes to.                                             *)
AddSize(sum, d) == sum + d.size
SizeOf(directives) ==
  FoldLeft(AddSize, 0, directives)
    + Envelope + (IF directives = <<>> THEN 0 ELSE Len(directives) - 1)

(* A slip: the file is measured without the batch around it.               *)
ClassifyBySizeAlone(r) ==
  IF r.source \notin Present \/ Target(r.source).kind # "file" THEN "rejected"
  ELSE IF Target(r.source).text /\ Target(r.source).size <= Budget THEN "by-value"
  ELSE IF r.template THEN "rejected"
  ELSE "by-reference"

(* classifyTransport: what is not text, or would not fit a batch even      *)
(* alone, is copied by reference, unless it is marked as a template, which *)
(* must be rendered.                                                       *)
Classify(r) ==
  IF r.source \notin Present \/ Target(r.source).kind # "file" THEN "rejected"
  ELSE IF Target(r.source).text /\ Target(r.source).size + Envelope <= Budget THEN "by-value"
  ELSE IF r.template THEN "rejected"
  ELSE "by-reference"

Directive(r) ==
  [source |-> r.source, dest |-> r.dest,
   size |-> IF Classify(r) = "by-value" THEN Target(r.source).size ELSE CopyInSize]

ChunkAndBuffer(d) ==
  IF counted.n > 0 /\ counted.size + d.size + 1 > Budget
  THEN /\ batches' = Append(batches, pending)
       /\ pending' = <<d>>
       /\ counted' = [n |-> 1, size |-> Envelope + d.size]
  ELSE /\ pending' = Append(pending, d)
       /\ counted' = [n |-> counted.n + 1,
                      size |-> counted.size + d.size + IF counted.n + 1 > 1 THEN 1 ELSE 0]
       /\ UNCHANGED batches

(* The next file: a chunk is flushed when its directive would not fit.     *)
Expand ==
  /\ phase = "expand" /\ results # <<>>
  /\ LET r == Head(results)
     IN IF Escapes(r.dest) \/ Classify(r) = "rejected"
        THEN Reject("rejected") /\ UNCHANGED <<pending, counted, batches>>
        ELSE ChunkAndBuffer(Directive(r)) /\ UNCHANGED phase
  /\ results' = Tail(results)
  /\ UNCHANGED <<call, gone, stack, names, count, entries>>

Finish ==
  /\ phase = "expand" /\ results = <<>>
  /\ phase' = "done"
  /\ UNCHANGED <<call, gone, stack, names, count, entries, results, pending, counted,
                 batches>>

(* pendingCount and pendingSize start from what the session holds.         *)
SeededFrom(directives) == [n |-> Len(directives), size |-> SizeOf(directives)]

Init ==
  /\ call \in Call
  /\ pending \in Seeds
  /\ counted = SeededFrom(pending)
  /\ phase = "begin" /\ gone = {} /\ stack = <<>> /\ names = <<>> /\ count = 0
  /\ entries = <<>> /\ results = <<>> /\ batches = <<>>

Next ==
  \/ Begin \/ Visit \/ Descend \/ Prepare \/ Expand \/ Finish
  \/ \E p \in DOMAIN Tree : Vanish(p)

Spec == Init /\ [][Next]_vars

-----------------------------------------------------------------------------
(* Properties.                                                             *)

(* The files that can be reached without following a link to a folder.     *)
Reachable ==
  {p \in DOMAIN Tree :
     /\ Target(p).kind # "folder"
     /\ \A n \in 1..(Len(p) - 1) : SubSeq(p, 1, n) \in DOMAIN Tree /\ Tree[SubSeq(p, 1, n)] = Folder}

(* The directives of the call, in the order in which it has buffered them. *)
AddOwn(directives, d) == IF d.source = <<>> THEN directives ELSE Append(directives, d)
AddBatch(directives, batch) == FoldLeft(AddOwn, directives, batch)
Buffered == FoldLeft(AddBatch, <<>>, Append(batches, pending))

(* A call that succeeds on a folder nobody touches has a directive for     *)
(* every reachable file the filters keep, one each, and no two for one     *)
(* destination; and what is marked as a template is rendered or refused,   *)
(* never copied, and its mark is not part of its destination.              *)
EveryFileOnce ==
  /\ phase = "done" /\ gone = {} =>
       /\ {Buffered[i].source : i \in DOMAIN Buffered} = Reachable \cap call.keep
       /\ \A i, j \in DOMAIN Buffered : i # j =>
            /\ Buffered[i].source # Buffered[j].source
            /\ Normalized(Buffered[i].dest) # Normalized(Buffered[j].dest)
  /\ \A d \in ToSet(Buffered) :
       /\ ~Last(d.dest).template
       /\ Last(d.source).template /\ d.source \notin DOMAIN call.rename =>
            d.size = Target(d.source).size /\ Target(d.source).text

(* In a frame of any id no chunk exceeds the cap of the reader, neither    *)
(* for the directives that were pending before the call nor for those      *)
(* after a flush; pendingSize is what the buffer serializes to.            *)
EveryBatchFits ==
  LET framed(batch, id) == SizeOf(batch) + FrameSize + id
  IN /\ counted.size = SizeOf(pending)
     /\ \A batch \in ToSet(batches) \cup {pending}, id \in 1..LongestId :
          ~ExceedsBatchCap(framed(batch, id))

==============================================================================
