---------------------------- MODULE RunnerGates ----------------------------
(***************************************************************************)
(* What runRunner looks at before it runs a factory                        *)
(* (src/transport/runner.ts): the arguments, the input, the pointer to the *)
(* factory (factory-pointer.ts), the copy of the SDK that it would import  *)
(* (single-instance-probe.ts), and what the module exports.  The greeting  *)
(* in between, the run, and the exit codes of the run are in Runner.       *)
(*                                                                         *)
(* An argument is a sequence of tokens.  A world is what the gates find:   *)
(* see the module that gives the worlds.                                   *)
(***************************************************************************)
EXTENDS Naturals, Sequences
LOCAL INSTANCE SequencesExt

Disk == INSTANCE ProjectCodegen

FactoryFlag == <<"--factory">>
InputFlag == [inline |-> <<"--input">>, file |-> <<"--input-file">>]

Undefined == <<>>   \* no value; nothing given
Refused == [refused |-> TRUE]

-----------------------------------------------------------------------------
(* The arguments.                                                          *)

Flags(argv) == {i \in DOMAIN argv : i % 2 = 1}

(* Of a flag that is given twice the last value counts.                    *)
ValueOf(argv, flag) ==
  LET given == {i \in Flags(argv) : argv[i] = flag}
  IN IF given = {} THEN Undefined ELSE argv[1 + CHOOSE i \in given : \A j \in given : j <= i]

Parsed(argv) ==
  LET Given(kind) == ValueOf(argv, InputFlag[kind]) # Undefined
      kind == IF Given("inline") THEN "inline" ELSE "file"
  IN IF \/ ValueOf(argv, FactoryFlag) = Undefined
        \/ Given("inline") = Given("file")
     THEN Refused
     ELSE [factory |-> ValueOf(argv, FactoryFlag), kind |-> kind, text |-> ValueOf(argv, InputFlag[kind])]

(* A slip: the name of a flag is not taken for a value.                    *)
ParseArgvWithoutFlagsAsValues(argv) ==
  IF \/ Len(argv) % 2 = 1
     \/ \E i \in Flags(argv) : argv[i] \notin {FactoryFlag, InputFlag.inline, InputFlag.file}
     \/ \E i \in DOMAIN argv \ Flags(argv) : argv[i] \in {FactoryFlag, InputFlag.inline, InputFlag.file}
  THEN Refused ELSE Parsed(argv)

(* Flags and values alternate, whatever the values look like.              *)
ParseArgv(argv) ==
  IF \/ Len(argv) % 2 = 1
     \/ \E i \in Flags(argv) : argv[i] \notin {FactoryFlag, InputFlag.inline, InputFlag.file}
  THEN Refused ELSE Parsed(argv)

(* The bridge.                                                             *)
ToArgv(params) == <<FactoryFlag, params.factory, InputFlag[params.kind], params.text>>

ResolveInput(w, parsed) ==
  LET file == w.files[parsed.text]
      text == IF parsed.kind = "inline" THEN parsed.text ELSE file.text
  IN /\ parsed.kind = "file" =>
          parsed.text \in DOMAIN w.files /\ file.regular /\ file.size <= w.inputCap /\ file.readable
     /\ text \in DOMAIN w.values      \* JSON.parse

-----------------------------------------------------------------------------
(* The pointer: what is before its first "#", and, if not empty, behind.   *)

ParseFactoryPointer(pointer) ==
  LET hashes == {i \in DOMAIN pointer : pointer[i] = "#"}
      first == CHOOSE i \in hashes : \A j \in hashes : i <= j
  IN IF hashes = {} THEN [url |-> pointer, name |-> Undefined]
     ELSE [url |-> SubSeq(pointer, 1, first - 1), name |-> SubSeq(pointer, first + 1, Len(pointer))]

(* urls tells what each text is that is a URL at all.                      *)
ValidateFactoryUrl(w, url) ==
  url \in DOMAIN w.urls /\ w.urls[url].scheme = "file:" /\ w.urls[url].host = Undefined

-----------------------------------------------------------------------------
(* The copy of the SDK.                                                    *)

PackageRootFor(fs, file) ==
  LET holder == Disk!Nearest(Front(file), LAMBDA dir : Disk!Exists(fs, Append(dir, "package.json")))
  IN Disk!Real(fs, IF holder = Disk!Missing THEN Front(file) ELSE holder)

(* A factory within the SDK cannot resolve the SDK by name.                *)
ProbeSingleInstance(w, module) ==
  PackageRootFor(w.fs, w.runner)
    = PackageRootFor(w.fs, IF w.resolved = Disk!Missing THEN module ELSE w.resolved)

-----------------------------------------------------------------------------
(* The module.                                                             *)

(* Anything may be thrown, and errors may hold others.                     *)
RECURSIVE IsModuleLoadFailure(_)
IsModuleLoadFailure(err) ==
  \/ err.class \in {"ERR_MODULE_NOT_FOUND", "ResolveMessage", "BuildMessage", "SyntaxError"}
  \/ \E i \in DOMAIN err.errors : IsModuleLoadFailure(err.errors[i])

ResolveFactoryExport(exports, name) ==
  LET resolved == IF name = Undefined THEN <<"default">> ELSE name
  IN IF resolved \in DOMAIN exports /\ exports[resolved].kind = "function"   \* not wrapped, nor anything else
     THEN exports[resolved] ELSE Refused

(* The module that the import yields: loading may fail, and so may running *)
(* its top-level code.                                                     *)
Import(w, url) == w.modules[url]

-----------------------------------------------------------------------------
Exit(code) == [code |-> code]
Run(fn, input, packageDir) == [fn |-> fn, input |-> input, packageDir |-> packageDir]

(* Everything that is looked at before the author's module is loaded.      *)
Importable(argv, w) ==
  LET parsed == ParseArgv(argv)
      url == ParseFactoryPointer(parsed.factory).url
  IN /\ parsed # Refused
     /\ ResolveInput(w, parsed)
     /\ ValidateFactoryUrl(w, url)
     /\ ProbeSingleInstance(w, w.urls[url].path)

RunRunnerBody(argv, w) ==
  LET parsed == ParseArgv(argv)
      pointer == ParseFactoryPointer(parsed.factory)
      imported == Import(w, pointer.url)
      export == ResolveFactoryExport(imported.exports, pointer.name)
      text == IF parsed.kind = "inline" THEN parsed.text ELSE w.files[parsed.text].text
  IN IF ~Importable(argv, w) THEN Exit(1)
     ELSE IF imported.rejects THEN Exit(IF IsModuleLoadFailure(imported.err) THEN 1 ELSE 4)
     ELSE IF export = Refused THEN Exit(1)
     ELSE Run(export.fn, w.values[text], Front(w.urls[pointer.url].path))

-----------------------------------------------------------------------------
(* Errors that code which runs may throw as the loader does.               *)
RECURSIVE Ambiguous(_)
Ambiguous(err) ==
  \/ err.class \in {"SyntaxError", "ERR_MODULE_NOT_FOUND"}
  \/ \E i \in DOMAIN err.errors : Ambiguous(err.errors[i])

(* Parameters and pointers come through as they are given, also when they  *)
(* look like flags or hold a "#"; a module is loaded only if the SDK that  *)
(* it resolves is, under whatever path, the package that the runner is in; *)
(* and exit code 4 tells that code of the author has run, but for errors   *)
(* that are thrown by both such code and the loader.                       *)
GatesAgree(argv, params, w) ==
  LET result == RunRunnerBody(argv, w)
      parsed == ParseArgv(argv)
      url == ParseFactoryPointer(parsed.factory).url
      Package(file) == PackageRootFor(w.fs, Disk!Real(w.fs, file))
  IN /\ ParseArgv(ToArgv(params)) = params
     /\ parsed # Refused => RunRunnerBody(ToArgv(parsed), w) = result
     /\ \A u \in DOMAIN w.urls, name \in w.names :
           ParseFactoryPointer(u \o <<"#">> \o name) = [url |-> u, name |-> name]
     /\ Importable(argv, w) /\ w.resolved # Disk!Missing => Package(w.resolved) = Package(w.runner)
     /\ Importable(argv, w) /\ Import(w, url).rejects /\ ~Ambiguous(Import(w, url).err) =>
           (result = Exit(4) <=> Import(w, url).ran)
=============================================================================
