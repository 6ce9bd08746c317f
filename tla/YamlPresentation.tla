-------------------------- MODULE YamlPresentation --------------------------
(***************************************************************************)
(* What only YAML has: comments, merge keys, styles and tags of the nodes  *)
(* of a document (src/dialects/yaml/presentation.ts), and the text of a    *)
(* stream of documents (src/dialects/yaml/ast.ts).                         *)
(*                                                                         *)
(* A comment is a sequence of lines, a line one of words.  A pair of a map *)
(* may have no value at all, as in `? key`: that is read as a null that is *)
(* not in the tree, and what is written to it is lost.                     *)
(***************************************************************************)
EXTENDS YamlEdits

CONSTANTS
  MergeKey,     \* the key `<<`
  Handles,      \* the tag handles a document declares, and their prefixes
  BadSuffixes   \* what cannot end a tag

NoComment == <<>>
NoTag == <<>>

Shown(t, n, keys, kids) ==
  [t |-> t, n |-> n, keys |-> keys, kids |-> kids, anchor |-> None, flow |-> FALSE, tag |-> NoTag,
   before |-> NoComment, comment |-> NoComment,
   keyBefore |-> [i \in DOMAIN keys |-> NoComment], keyComment |-> [i \in DOMAIN keys |-> NoComment],
   style |-> "plain", prints |-> {}, keeps |-> {}]

(* prints are the styles that the printer keeps for a scalar, keeps those  *)
(* in which its value stays what it is.                                    *)
ShownScalar(n, prints, keeps) == [Shown("scalar", n, <<>>, <<>>) EXCEPT !.prints = prints, !.keeps = keeps]
Valueless == Shown("empty", 0, <<>>, <<>>)
Document(before, root) == [before |-> before, root |-> root]

Write(document, path, node) ==
  IF At(document.root, path).t = "empty" THEN document ELSE [document EXCEPT !.root = Put(@, path, node)]

Missing(document, path) == Lost(document.root, path) \/ At(document.root, path) = Nothing
IsAliasAt(document, path) == At(document.root, path).t = "alias"

-----------------------------------------------------------------------------
(* Comments.                                                               *)

Holder(field, path, at) == [field |-> field, path |-> path, at |-> at]
NoHolder == Holder("none", <<>>, 0)

IsBlockCollection(node) == node.t \in {"map", "seq"} /\ ~node.flow

CommentHolder(document, path, where) ==
  LET node == At(document.root, path)
      byKey == path # <<>> /\ Last(path).in = "map"
      inline == where = "inline"
  IN IF path = <<>> THEN IF inline THEN NoHolder ELSE Holder("document", <<>>, 0)
     ELSE IF Missing(document, path) THEN NoHolder
     ELSE IF byKey /\ (~inline \/ IsBlockCollection(node))
     THEN LET map == Front(path)
          IN Holder(IF inline THEN "keyComment" ELSE "keyBefore", map, Place(At(document.root, map), Last(path)))
     ELSE IF inline /\ IsBlockCollection(node) THEN NoHolder
     ELSE Holder(IF inline THEN "comment" ELSE "before", path, 0)

CommentIn(document, h) ==
  LET node == At(document.root, h.path) IN
  CASE h.field = "document" -> document.before
    [] h.field \in {"keyBefore", "keyComment"} -> node[h.field][h.at]
    [] OTHER -> node[h.field]

WithComment(document, h, text) ==
  LET node == At(document.root, h.path) IN
  CASE h.field = "document" -> [document EXCEPT !.before = text]
    [] h.field \in {"keyBefore", "keyComment"} -> Write(document, h.path, [node EXCEPT ![h.field][h.at] = text])
    [] OTHER -> Write(document, h.path, [node EXCEPT ![h.field] = text])

ToCommentText(comment) == [i \in DOMAIN comment |-> IF comment[i] = <<>> THEN <<>> ELSE <<" ">> \o comment[i]]

CommentAt(document, h, text) == IF h = NoHolder THEN Refused(document) ELSE Done(WithComment(document, h, text))

SetComment(document, path, comment, where) ==
  CommentAt(document, CommentHolder(document, path, where), ToCommentText(comment))

RemoveComment(document, path, where) == CommentAt(document, CommentHolder(document, path, where), NoComment)

(* attachLeadingComments, as a document is parsed: the comment above the   *)
(* first entry of a block collection belongs to that entry, however deep.  *)
RECURSIVE AttachLeadingComments(_)
AttachLeadingComments(node) ==
  LET moved == IF node.before = NoComment \/ node.kids = <<>> \/ ~IsBlockCollection(node) THEN node
               ELSE IF node.t = "map"
               THEN [node EXCEPT !.before = NoComment, !.keyBefore[1] = node.before \o @]
               ELSE [node EXCEPT !.before = NoComment, !.kids[1].before = node.before \o @]
  IN [moved EXCEPT !.kids = [i \in DOMAIN @ |-> AttachLeadingComments(@[i])]]

-----------------------------------------------------------------------------
(* Merge keys.                                                             *)

MergeAt(map) == SelectInSeq(map.keys, LAMBDA k : k = MergeKey)
Sources(map) ==
  LET value == map.kids[MergeAt(map)]
  IN IF MergeAt(map) = 0 THEN <<>> ELSE IF value.t = "seq" THEN value.kids ELSE <<value>>

ShownAlias(name) == Shown("alias", name, <<>>, <<>>)
ShownSeq(kids, flow) == [Shown("seq", 0, <<>>, kids) EXCEPT !.flow = flow]

WithSource(map, at, name) ==
  IF at = 0
  THEN [map EXCEPT !.keys = <<MergeKey>> \o @, !.kids = <<ShownAlias(name)>> \o @,
                   !.keyBefore = <<NoComment>> \o @, !.keyComment = <<NoComment>> \o @]
  ELSE [map EXCEPT !.kids[at] = ShownSeq(Append(Sources(map), ShownAlias(name)), TRUE)]

Resolved(document) == IF AliasesResolve(document.root) THEN Done(document) ELSE Refused(document)

AddMergeKey(document, path, name) ==
  LET map == At(document.root, path) IN
  IF FindAnchored(document.root, name).t # "map" \/ Missing(document, path) \/ map.t # "map" THEN Refused(document)
  ELSE IF \E s \in ToSet(Sources(map)) : s.t = "alias" /\ s.n = name THEN Done(document)
  ELSE Resolved(Write(document, path, WithSource(map, MergeAt(map), name)))

-----------------------------------------------------------------------------
(* Styles and tags.                                                        *)

SetStyle(document, path, style) ==
  LET node == At(document.root, path)
      collection == style \in {"block", "flow"}
  IN IF Missing(document, path) \/ IsAliasAt(document, path) THEN Refused(document)
     ELSE IF collection # (node.t \in {"map", "seq"}) THEN Refused(document)
     ELSE IF collection THEN Done(Write(document, path, [node EXCEPT !.flow = style = "flow"]))
     ELSE IF node.style = style THEN Done(document)
     ELSE IF style \notin node.prints \/ style \notin node.keeps THEN Refused(document)
     ELSE Done(Write(document, path, [node EXCEPT !.style = style]))

Tag(form, handle, suffix) == [form |-> form, handle |-> handle, suffix |-> suffix]
NullTag == Tag("null", "", "")

NormalizeTag(tag) ==
  CASE tag.form = "null" -> NoTag
    [] tag.form = "verbatim" -> <<tag.handle, tag.suffix>>
    [] tag.form = "standard" -> <<"tag:yaml.org,2002:", tag.suffix>>
    [] tag.form = "named" -> <<Handles[tag.handle], tag.suffix>>
    [] tag.form = "local" -> <<"!", tag.suffix>>

BadTag(tag) ==
  /\ tag.form \notin {"null", "verbatim"}
  /\ tag.suffix \in BadSuffixes \/ (tag.form = "named" /\ tag.handle \notin DOMAIN Handles)

SetTag(document, path, tag) ==
  IF Missing(document, path) \/ IsAliasAt(document, path) \/ BadTag(tag) THEN Refused(document)
  ELSE Done(Write(document, path, [At(document.root, path) EXCEPT !.tag = NormalizeTag(tag)]))

-----------------------------------------------------------------------------
(* What a document says.                                                   *)

(* The value of a key: the map's own, or that of the first source with it. *)
RECURSIVE Lookup(_, _, _)
Lookup(root, map, key) ==
  LET sources == [i \in DOMAIN Sources(map) |-> Follow(root, Sources(map)[i])]
      found == SelectInSeq(sources, LAMBDA s : Lookup(root, s, key) # Nothing)
  IN IF Child(map, Key(key)) # Nothing THEN Child(map, Key(key))
     ELSE IF found = 0 THEN Nothing ELSE Lookup(root, sources[found], key)

(* The comments of a document in the order of its text.                    *)
RECURSIVE Lines(_)
Lines(node) ==
  node.before \o FlattenSeq([i \in DOMAIN node.kids |->
                   (IF node.t = "map" THEN node.keyBefore[i] \o node.keyComment[i] ELSE <<>>) \o Lines(node.kids[i])])
  \o node.comment

(* Every comment belongs to the entry below it, and none is lost or goes   *)
(* past another.                                                           *)
CommentsHaveEntries(root) ==
  LET parsed == AttachLeadingComments(root)
  IN /\ Lines(parsed) = Lines(root)
     /\ \A node \in ToSet(Visit(parsed)) : IsBlockCollection(node) /\ node.kids # <<>> => node.before = NoComment

(* A comment that is set is the one that is found, and no other changes;   *)
(* it can be taken away again, and leaves nothing.                         *)
CommentsAreApart(document, path, where, comment, places) ==
  \E set \in {SetComment(document, path, comment, where)}, removed \in {RemoveComment(document, path, where)},
     h \in {CommentHolder(document, path, where)} :
    /\ ~set.ok => set.doc = document
    /\ set.ok /\ At(document.root, path).t # "empty" =>
         /\ CommentIn(set.doc, h) = ToCommentText(comment)
         /\ SetComment(set.doc, path, comment, where) = set
         /\ \A p \in places \ {<<path, where>>} : \E other \in {CommentHolder(document, p[1], p[2])} :
              other # NoHolder => CommentIn(set.doc, other) = CommentIn(document, other)
         /\ removed.ok /\ RemoveComment(set.doc, path, where) = removed
         /\ RemoveComment(removed.doc, path, where) = removed
         /\ CommentIn(document, h) = NoComment => removed.doc = document

Own(map) ==
  SelectSeq([i \in DOMAIN map.keys |-> <<map.keys[i], map.kids[i], map.keyBefore[i], map.keyComment[i]>>],
            LAMBDA entry : entry[1] # MergeKey)
OrElse(had, given) == IF had # Nothing THEN had ELSE given
HasMerged(before, old, source, after, new) ==
  /\ Own(new) = Own(old)
  /\ \A k \in UNION {ToSet(n.keys) : n \in ToSet(Visit(before))} \ {MergeKey} :
       Lookup(after, new, k) = OrElse(Lookup(before, old, k), Lookup(before, source, k))

(* A merge key gives a map what it lacks, and takes away or changes        *)
(* nothing it has, of its own or from another source.  (An anchor around   *)
(* the map itself is left out: the code accepts it.)                       *)
MergeAddsOnly(document, path, name) ==
  \E merged \in {AddMergeKey(document, path, name)}, source \in {FindAnchored(document.root, name)} :
    LET around == \E d \in 0..Len(path) : At(document.root, Prefix(path, d)).anchor = name
    IN merged.ok /\ ~around =>
         /\ AddMergeKey(merged.doc, path, name) = merged
         /\ HasMerged(document.root, At(document.root, path), source, merged.doc.root, At(merged.doc.root, path))

Sound(scalar) == scalar.style = "plain" \/ (scalar.style \in scalar.prints /\ scalar.style \in scalar.keeps)
Unstyled(node) == [node EXCEPT !.flow = FALSE, !.style = "", !.tag = NoTag]

(* A style is taken on for good or refused: no scalar is ever left in one  *)
(* that the printer does not keep, or that changes its value; nothing else *)
(* of the node changes, and a tag means what its handle stands for.        *)
StylesKeepValues(document, path, style, tag) ==
  \E set \in {SetStyle(document, path, style)} : \E tagged \in {SetTag(set.doc, path, tag)} :
    /\ ~set.ok => set.doc = document
    /\ \A node \in ToSet(Visit(tagged.doc.root)) : Sound(node)
    /\ \E at \in {At(tagged.doc.root, path)} : set.ok /\ tagged.ok /\ at.t # "empty" =>
         /\ IF style \in {"block", "flow"} THEN at.flow = (style = "flow") ELSE at.style = style
         /\ at.tag = NormalizeTag(tag)
         /\ Unstyled(at) = Unstyled(At(document.root, path))
         /\ tag.form = "named" => SetTag(tagged.doc, path, Tag("verbatim", Handles[tag.handle], tag.suffix)) = tagged

-----------------------------------------------------------------------------
(* Streams.  A text is a sequence of words; the marker of a document is    *)
(* one, at the start of a line.                                            *)

Mark == "---"
Line == "nl"
Fresh(content) == [slice |-> <<>>, marker |-> FALSE, touched |-> TRUE, content |-> content]

Content(slice) == SelectSeq(slice, LAMBDA w : w \notin {Mark, Line})

(* What comes before the first word or marker belongs to its document; a   *)
(* text with neither has no document and is kept as a preamble.            *)
Parse(body) ==
  LET Begun(i) == \E j \in 1..i : body[j] # Line
      starts == IF ~Begun(Len(body)) THEN {} ELSE {1} \cup {i \in 2..Len(body) : body[i] = Mark /\ Begun(i - 1)}
      order == SetToSortSeq(starts, <)
      Slice(k) == SubSeq(body, order[k], IF k = Len(order) THEN Len(body) ELSE order[k + 1] - 1)
  IN [final |-> body = <<>> \/ Last(body) = Line,
      preamble |-> IF starts = {} THEN body ELSE <<>>,
      documents |-> [k \in DOMAIN order |->
                      [slice |-> Slice(k), marker |-> Mark \in ToSet(Slice(k)), touched |-> FALSE,
                       content |-> Content(Slice(k))]]]

PrintDocument(document, position) ==
  LET marked == IF document.marker \/ position > 1 THEN <<Mark, Line>> ELSE <<>> IN
  IF document.touched THEN marked \o document.content \o <<Line>>
  ELSE IF position > 1 /\ ~document.marker THEN <<Mark, Line>> \o document.slice
  ELSE document.slice

PrintStream(stream) ==
  LET Add(out, k) == (IF out # <<>> /\ Last(out) # Line THEN Append(out, Line) ELSE out)
                     \o PrintDocument(stream.documents[k], k)
      out == FoldLeft(Add, stream.preamble, [k \in DOMAIN stream.documents |-> k])
  IN IF ~stream.final /\ out # <<>> /\ Last(out) = Line THEN Front(out) ELSE out

Strip(text) == IF text # <<>> /\ Last(text) = Line THEN Front(text) ELSE text

(* A text that nobody edits is printed as it was; and after edits every    *)
(* document is read back by itself, those that were not touched word by    *)
(* word, and the text ends in a line break only if it did, or if a         *)
(* document with a blank line at its end has become the last.              *)
DocumentsStayApart(body, touched, edit) ==
  LET stream == Parse(body)
      edited == [stream EXCEPT !.documents =
                   [k \in DOMAIN @ |->
                     IF k \in touched THEN [@[k] EXCEPT !.touched = TRUE, !.content = <<"new">>] ELSE @[k]]]
      spliced == [edited EXCEPT !.documents =
                    IF edit.verb = "add" /\ edit.at \in 1..(Len(@) + 1) THEN InsertAt(@, edit.at, Fresh(<<"added">>))
                    ELSE IF edit.verb = "remove" /\ edit.at \in DOMAIN @ THEN RemoveAt(@, edit.at) ELSE @]
      again == Parse(PrintStream(spliced))
  IN /\ PrintStream(stream) = body
     /\ [k \in DOMAIN again.documents |-> again.documents[k].content]
          = [k \in DOMAIN spliced.documents |-> spliced.documents[k].content]
     /\ \A k \in DOMAIN spliced.documents : ~spliced.documents[k].touched /\ k < Len(spliced.documents) =>
          LET FromMark(d) == IF d.marker THEN SubSeq(d.slice, SelectInSeq(d.slice, LAMBDA w : w = Mark), Len(d.slice))
                             ELSE <<Mark, Line>> \o d.slice
          IN Strip(FromMark(again.documents[k])) = Strip(FromMark(spliced.documents[k]))
     /\ stream.final /\ spliced.documents # <<>> => again.final
     /\ again.final /\ spliced.documents # <<>> =>
          stream.final \/ Strip(Last(spliced.documents).slice) # Strip(Strip(Last(spliced.documents).slice))
=============================================================================
