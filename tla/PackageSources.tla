-------------------------- MODULE PackageSources --------------------------
(***************************************************************************)
(* How a source of the package is named and read: the checks before any    *)
(* disk is touched (src/scaffold/path-guards.ts), the reasons that an      *)
(* author is given when one fails, the three verbs that read a source      *)
(* (scaffold/index.ts, expander.ts, walk.ts, classify-transport.ts), the   *)
(* filters, and the tokens in a file name (filename-pipeline.ts).          *)
(*                                                                         *)
(* A path is Undefined, NotAString, or [absolute, names].  The disk is     *)
(* what each call of node:fs does with the source: a kind of file or the   *)
(* code of an error.                                                       *)
(***************************************************************************)
EXTENDS Naturals, Sequences, FiniteSets
LOCAL INSTANCE SequencesExt

Path(absolute, names) == [absolute |-> absolute, names |-> names]
Undefined == Path(FALSE, <<"undefined">>)
NotAString == Path(FALSE, <<"not a string">>)

(* What a verb comes to: the reason and the detail of its error or, with   *)
(* the reason Taken, the directive; and the calls of node:fs it made.      *)
Taken == "taken"
Outcome(reason, detail, calls) == [reason |-> reason, detail |-> detail, calls |-> calls]
InvalidInput(detail, calls) == Outcome("invalid-input", detail, calls)
Passed == Outcome(Taken, "", <<>>)
Fails(outcome) == outcome.reason # Taken

(* A check after the other, until one fails; what they did adds up.        *)
Then(first, second) == IF Fails(first) THEN first ELSE [second EXCEPT !.calls = first.calls \o @]
InTurn(checks) == FoldLeft(Then, Passed, checks)
Unless(condition, outcome) == IF condition THEN Passed ELSE outcome

-----------------------------------------------------------------------------
(* Guards without a disk.                                                  *)

IsLexicallyEscaping(path) == path.absolute \/ ".." \in ToSet(path.names)

ValidateLexical(path, detail) ==
  Unless(path \notin {Undefined, NotAString} /\ ~IsLexicallyEscaping(path), InvalidInput(detail, <<>>))

CurrentContext(run) == Unless(run.inSession, Outcome("outside-session", "", <<>>))
RequirePackageAnchors(run) == Unless(run.anchored, InvalidInput("no anchor", <<>>))
Given(path, detail) == Unless(path # Undefined, InvalidInput(detail, <<>>))

-----------------------------------------------------------------------------
(* One file.                                                               *)

SourceRejection(stat) ==
  CASE stat \in {"ENOENT", "ENOTDIR", "ENAMETOOLONG"} -> Outcome("source-not-found", "", <<"stat">>)
    [] stat = "directory" -> Outcome("source-not-regular-file", "directory", <<"stat">>)
    [] stat = "fifo" -> Outcome("source-not-regular-file", "", <<"stat">>)
    [] stat = "ELOOP" -> Outcome("source-unreadable", "symlink cycle", <<"stat">>)
    [] stat = "ERR_INVALID_ARG_VALUE" -> Outcome("source-unreadable", "invalid character", <<"stat">>)
    [] OTHER -> Outcome("source-unreadable", "permission or I/O error", <<"stat">>)

StatSourceForRead(file) ==
  IF file.stat = "file" THEN Outcome(Taken, "", <<"stat">>) ELSE SourceRejection(file.stat)

(* A request to render fails where another source is copied by reference.  *)
ByReference(request, problem, calls) ==
  IF request THEN InvalidInput(problem, calls) ELSE Outcome(Taken, "by-reference", calls)

ClassifyTransport(file, request) ==
  Then(StatSourceForRead(file),
       IF file.large THEN ByReference(request, "oversized", <<>>)
       ELSE IF ~file.readable THEN Outcome("source-unreadable", "permission or I/O error", <<"read">>)
       ELSE IF ~file.text THEN ByReference(request, "binary", <<"read">>)
       ELSE IF ~file.fits THEN ByReference(request, "oversized", <<"read">>)
       ELSE Outcome(Taken, "by-value", <<"read">>))

-----------------------------------------------------------------------------
(* The verbs that read a source.                                           *)

RunCopyIn(run, args, file) ==
  InTurn(<<Given(args.from, "from"), Given(args.to, "to"),
           CurrentContext(run), RequirePackageAnchors(run),
           ValidateLexical(args.to, "destination"), ValidateLexical(args.from, "source"),
           StatSourceForRead(file)>>)

ReadTemplateFile(run, args, file) ==
  InTurn(<<CurrentContext(run), RequirePackageAnchors(run), ValidateLexical(args.from, "source"),
           ClassifyTransport(file, TRUE)>>)

Degenerate == {Path(FALSE, <<"">>), Path(FALSE, <<".">>), Path(FALSE, <<".", "">>)}

FilterShape(filter) == Unless(filter \in {"undefined", "array of strings"}, InvalidInput("filter", <<>>))

(* A root that is missing or no folder has an error of its own.            *)
RootReadFailure(code, calls) ==
  InvalidInput(IF code \in {"ENOENT", "ENOTDIR"} THEN code ELSE "unreadable", calls)

(* The root of the walk; a link to a folder is not followed.               *)
RootFailure(folder) ==
  CASE folder.lstat = "link" -> InvalidInput("symlinked root", <<"lstat">>)
    [] folder.lstat = "file" -> RootReadFailure("ENOTDIR", <<"lstat", "readdir">>)
    [] folder.lstat = "folder" /\ folder.readdir = "ok" -> Outcome(Taken, "", <<"lstat", "readdir">>)
    [] folder.lstat = "folder" /\ folder.readdir # "ok" -> RootReadFailure(folder.readdir, <<"lstat", "readdir">>)
    [] OTHER -> RootReadFailure(folder.lstat, <<"lstat">>)

ScaffoldScreens(run, args) ==
  <<Given(args.from, "from"), Given(args.to, "to"), CurrentContext(run), RequirePackageAnchors(run),
    ValidateLexical(args.to, "destination")>>

(* scaffold() of a folder with one file that the filters keep.             *)
RunScaffold(run, args, folder, file) ==
  InTurn(ScaffoldScreens(run, args) \o
         <<Unless(args.from \notin Degenerate, InvalidInput("degenerate", <<>>)),
           FilterShape(args.include), FilterShape(args.exclude), ValidateLexical(args.from, "source"),
           RootFailure(folder), ClassifyTransport(file, args.marked)>>)

(* Which of several wrongs an author is told of does not depend on the     *)
(* verb; the disk is not touched for a source that leaves the package, nor *)
(* outside a run; a file is read only if it is regular and not too large,  *)
(* and by copyIn never; a request to render never becomes a copy; and on a *)
(* file that one verb reports as missing or unreadable all of them do.     *)
SourcesAreScreened(run, args, folder, file) ==
  LET copied == RunCopyIn(run, args, file)
      rendered == ReadTemplateFile(run, args, file)
      expanded == RunScaffold(run, args, folder, file)
      all == {copied, rendered, expanded}
      untouched(o) == o.calls = <<>>
      Same(o, p) == o.reason = p.reason /\ o.detail = p.detail
  IN /\ Fails(copied) /\ untouched(copied) /\ args.from \notin Degenerate
        /\ {args.include, args.exclude} = {"undefined"} => Same(copied, expanded)
     /\ \A o \in all : IsLexicallyEscaping(args.from) \/ ~run.inSession => Fails(o) /\ untouched(o)
     /\ "read" \notin ToSet(copied.calls)
     /\ \A o \in all : "read" \in ToSet(o.calls) => file.stat = "file" /\ ~file.large
     /\ rendered.detail # "by-reference" /\ (args.marked => expanded.detail # "by-reference")
     /\ \A o, p \in all :
          "stat" \in ToSet(o.calls) \cap ToSet(p.calls) /\ file.stat # "file" => Fails(o) /\ Same(o, p)
     /\ ~Fails(rendered) /\ ~Fails(expanded) => expanded.detail = "by-value"

-----------------------------------------------------------------------------
(* Filters.  A pattern and a path are sequences of characters.             *)

StartsWith(text, i, what) == IsPrefix(what, SubSeq(text, i, Len(text)))

(* The regular expression that a pattern is compiled to.                   *)
RECURSIVE GlobToRegex(_)
GlobToRegex(pattern) ==
  IF pattern = <<>> THEN <<>>
  ELSE IF StartsWith(pattern, 1, <<"*", "*", "/">>) THEN <<"dirs">> \o GlobToRegex(SubSeq(pattern, 4, Len(pattern)))
  ELSE IF StartsWith(pattern, 1, <<"*", "*">>) THEN <<"any">> \o GlobToRegex(SubSeq(pattern, 3, Len(pattern)))
  ELSE (IF pattern[1] = "*" THEN <<"star">> ELSE <<pattern[1]>>) \o GlobToRegex(Tail(pattern))

RECURSIVE Matches(_, _)
Matches(regex, path) ==
  IF regex = <<>> THEN path = <<>>
  ELSE LET rest(n) == Matches(Tail(regex), SubSeq(path, n + 1, Len(path)))
       IN CASE regex[1] = "dirs" -> rest(0) \/ \E n \in 1..Len(path) : path[n] = "/" /\ rest(n)
            [] regex[1] = "any" -> \E n \in 0..Len(path) : rest(n)
            [] regex[1] = "star" -> \E n \in 0..Len(path) : "/" \notin ToSet(SubSeq(path, 1, n)) /\ rest(n)
            [] OTHER -> path # <<>> /\ path[1] = regex[1] /\ rest(1)

Matched(pattern, path) == Matches(GlobToRegex(pattern), path)

(* A slip: what is included stays, excluded or not.                        *)
IsIncludedFirst(path, include, exclude) ==
  \/ \E p \in include : Matched(p, path)
  \/ include = {} /\ ~\E p \in exclude : Matched(p, path)

(* exclude wins over include, which is all if it is not given.             *)
IsIncluded(path, include, exclude) ==
  /\ ~\E p \in exclude : Matched(p, path)
  /\ include = {} \/ \E p \in include : Matched(p, path)

(* Reference: folder by folder.                                            *)
RECURSIVE Split(_)
Split(text) ==
  LET slash == SelectInSeq(text, LAMBDA c : c = "/")
  IN IF slash = 0 THEN <<text>>
     ELSE <<SubSeq(text, 1, slash - 1)>> \o Split(SubSeq(text, slash + 1, Len(text)))

Stars == <<"*", "*">>
NameMatches(segment, name) ==
  \E f \in [0..Len(segment) -> 0..Len(name)] :
    /\ f[0] = 0 /\ f[Len(segment)] = Len(name)
    /\ \A i \in DOMAIN segment :
         IF segment[i] = "*" THEN f[i - 1] <= f[i]
         ELSE f[i] = f[i - 1] + 1 /\ name[f[i]] = segment[i]

RECURSIVE FolderByFolder(_, _)
FolderByFolder(segments, names) ==
  IF segments = <<>> THEN names = <<>>
  ELSE IF segments = <<Stars>> THEN names # <<>>
  ELSE IF Head(segments) = Stars
       THEN \E n \in 0..Len(names) : FolderByFolder(Tail(segments), SubSeq(names, n + 1, Len(names)))
  ELSE names # <<>> /\ NameMatches(Head(segments), Head(names)) /\ FolderByFolder(Tail(segments), Tail(names))

(* Two stars that stand between slashes are any folders, none among them,  *)
(* a star any part of one name, and a file is kept when an include names   *)
(* it and no exclude does.                                                 *)
FiltersMeanFolders(path, include, exclude) ==
  LET Names(p) == FolderByFolder(Split(p), Split(path))
      plain == \A p \in include \cup exclude : \A s \in ToSet(Split(p)) :
                  s = Stars \/ ~\E i \in 1..(Len(s) - 1) : StartsWith(s, i, Stars)
  IN plain => (IsIncluded(path, include, exclude)
                 <=> (include = {} \/ \E p \in include : Names(p)) /\ ~\E p \in exclude : Names(p))

-----------------------------------------------------------------------------
(* Tokens in a file name.                                                  *)

Marker == <<"_", "_">>
IsIdentifier(text) == text # <<>> /\ text[1] \in {"a", "_"} /\ ToSet(text) \subseteq {"a", "1", "_"}

(* TOKEN_INNER: identifiers, with a "@" between each two.                  *)
RECURSIVE TokenInner(_)
TokenInner(text) ==
  LET at == SelectInSeq(text, LAMBDA c : c = "@")
  IN IF at = 0 THEN IsIdentifier(text)
     ELSE IsIdentifier(SubSeq(text, 1, at - 1)) /\ TokenInner(SubSeq(text, at + 1, Len(text)))

IndexOfMarker(text, from) ==
  LET found == {i \in from..(Len(text) - 1) : StartsWith(text, i, Marker)}
  IN IF found = {} THEN 0 ELSE CHOOSE i \in found : \A j \in found : i <= j

Text(characters) == [i \in DOMAIN characters |-> <<characters[i]>>]
Token(inner) == <<Marker \o inner \o Marker>>

(* A piece of the result is a character that stays or a token.             *)
RECURSIVE TranslateFrom(_, _)
TranslateFrom(text, cursor) ==
  LET open == IndexOfMarker(text, cursor)
      close == IndexOfMarker(text, open + 2)
      inner == SubSeq(text, open + 2, close - 1)
  IN IF open = 0 \/ close = 0 THEN Text(SubSeq(text, cursor, Len(text)))
     ELSE IF ~TokenInner(inner)
     THEN Text(SubSeq(text, cursor, open)) \o TranslateFrom(text, open + 1)
     ELSE Text(SubSeq(text, cursor, open - 1)) \o Token(inner) \o TranslateFrom(text, close + 2)

TranslateTokens(text) == TranslateFrom(text, 1)

(* No character is lost, a token is what stands between two markers with   *)
(* none between them, and between two tokens there is no other.            *)
TokensAreTranslated(text) ==
  LET pieces == TranslateTokens(text)
      Holds(t, i, j) == /\ StartsWith(t, i, Marker) /\ j >= i + 2 /\ StartsWith(t, j, Marker)
                        /\ IndexOfMarker(t, i + 2) = j /\ TokenInner(SubSeq(t, i + 2, j - 1))
      IsToken(p) == Len(p) > 1
      Plain(m, n) == \A k \in m..n : ~IsToken(pieces[k])
  IN /\ FlattenSeq(pieces) = text
     /\ \A k \in DOMAIN pieces : IsToken(pieces[k]) => Holds(pieces[k], 1, Len(pieces[k]) - 1)
     /\ \A m, n \in DOMAIN pieces : Plain(m, n) =>
          ~Holds(FlattenSeq(SubSeq(pieces, m, n)), 1, n - m)
=============================================================================
