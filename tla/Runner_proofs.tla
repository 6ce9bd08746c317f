---------------------------- MODULE Runner_proofs ----------------------------
(* Theorems about Runner: for any number of attempts, whatever their hosts  *)
(* send and however it is cut into chunks.                                  *)
EXTENDS Runner, SequenceTheorems, TLAPS

Gates == {"arguments", "greeting", "probe", "import"}
Work == <<"work">>
Both == <<"work", "commit">>

Types ==
  /\ at \in [Attempts -> {"idle", "over"} \cup Inside]
  /\ entry \in [Attempts -> {"none", "direct", "bin", "bridge"}]
  /\ code \in [Attempts -> 0..NotOver]
  /\ taken \in [Attempts -> Nat]
  /\ DOMAIN asked = Attempts /\ DOMAIN frames = Attempts
  /\ inFlight \in BOOLEAN /\ captured \in BOOLEAN /\ redirected \in BOOLEAN

(* What an attempt has asked for tells how far it has come.                 *)
Asked(a) ==
  /\ at[a] \in {"idle"} \cup Gates => asked[a] = <<>>
  /\ at[a] = "author" => asked[a] \in {<<>>, Work}
  /\ at[a] = "answer" => asked[a] \in {Work, Both}
  /\ at[a] # "over" => code[a] = NotOver
  /\ at[a] = "over" => (code[a] = 0 <=> asked[a] = Both /\ frames[a][taken[a]] = "ok")

(* The process is protected by the first entry that is not a test's, and    *)
(* before it there is no frame on descriptor 1.                             *)
Protected ==
  /\ \A a \in Attempts : at[a] \in Inside => entry[a] # "none"
  /\ \A a \in Attempts : entry[a] \in {"bin", "bridge"} => captured /\ redirected
  /\ stdout = "frames" => captured /\ redirected
  /\ stdout \in {"untouched", "raw", "frames"}

Invariant == Types /\ OneRunAtATime /\ Protected /\ \A a \in Attempts : Asked(a)

-----------------------------------------------------------------------------
(* The requests of a run, as sequences.                                     *)
LEMMA Requests ==
  /\ Append(<<>>, "work") = Work /\ Append(Work, "commit") = Both
  /\ <<>> # Work /\ <<>> # Both /\ Work # Both
  /\ Len(Work) = 1 /\ Len(Both) # 1
  /\ \A s \in {<<>>, Work, Both} : Append(s, "discard") # Both
  <1> DEFINE Texts == {"work", "commit", "discard"}
  <1>1. Work \in Seq(Texts) /\ Len(Work) = 1 /\ Work[1] = "work"
    BY DEF Work
  <1>2. Both \in Seq(Texts) /\ Len(Both) = 2 /\ Both[1] = "work" /\ Both[2] = "commit"
    BY DEF Both
  <1>3. <<>> \in Seq(Texts) /\ Len(<<>>) = 0
    OBVIOUS
  <1> HIDE DEF Texts, Work, Both
  <1>4. ASSUME NEW s \in Seq(Texts), NEW e \in Texts
        PROVE  /\ Append(s, e) \in Seq(Texts) /\ Len(Append(s, e)) = Len(s) + 1
               /\ Append(s, e)[Len(s) + 1] = e
               /\ \A i \in 1..Len(s) : Append(s, e)[i] = s[i]
    BY AppendProperties
  <1>5. "work" \in Texts /\ "commit" \in Texts /\ "discard" \in Texts
    BY DEF Texts
  <1>6. Append(<<>>, "work") = Work
    <2>1. /\ Append(<<>>, "work") \in Seq(Texts)
          /\ Len(Append(<<>>, "work")) = 1 /\ Append(<<>>, "work")[1] = "work"
      BY <1>3, <1>4, <1>5
    <2> QED BY <1>1, <2>1, SeqEqual
  <1>7. Append(Work, "commit") = Both
    <2>1. /\ Append(Work, "commit") \in Seq(Texts) /\ Len(Append(Work, "commit")) = 2
          /\ Append(Work, "commit")[1] = "work" /\ Append(Work, "commit")[2] = "commit"
      <3>1. /\ Append(Work, "commit") \in Seq(Texts) /\ Len(Append(Work, "commit")) = Len(Work) + 1
            /\ Append(Work, "commit")[Len(Work) + 1] = "commit"
            /\ \A i \in 1..Len(Work) : Append(Work, "commit")[i] = Work[i]
        BY <1>1, <1>4, <1>5
      <3>2. Len(Work) + 1 = 2 /\ 1 \in 1..Len(Work)
        BY <1>1
      <3> QED BY <1>1, <3>1, <3>2
    <2>2. \A i \in 1..2 : Append(Work, "commit")[i] = Both[i]
      BY <1>2, <2>1
    <2> QED BY <1>2, <2>1, <2>2, SeqEqual
  <1>8. ASSUME NEW s \in {<<>>, Work, Both} PROVE Append(s, "discard") # Both
    <2>1. s \in Seq(Texts)
      BY <1>1, <1>2, <1>3
    <2>2. Len(Append(s, "discard")) = Len(s) + 1 /\ Append(s, "discard")[Len(s) + 1] = "discard"
      BY <1>4, <1>5, <2>1
    <2>3. ASSUME Append(s, "discard") = Both PROVE FALSE
      <3>1. Len(s) \in Nat /\ Len(s) + 1 = 2
        BY <1>2, <2>1, <2>2, <2>3, LenProperties
      <3> QED BY <1>2, <2>2, <2>3, <3>1
    <2> QED BY <2>3
  <1> QED BY <1>1, <1>2, <1>3, <1>6, <1>7, <1>8

(* The invariant holds at the start.                                        *)
LEMMA InvariantInit == Init => Invariant
  <1> SUFFICES ASSUME Init PROVE Invariant
    OBVIOUS
  <1>1. Types
    <2>1. 7 \in 0..7
      OBVIOUS
    <2> QED BY <2>1 DEF Init, Types, NotOver
  <1>2. OneRunAtATime
    BY DEF Init, OneRunAtATime, Inside
  <1>3. Protected
    BY DEF Init, Protected, Inside
  <1>4. \A a \in Attempts : Asked(a)
    BY DEF Init, Asked, Gates
  <1> QED BY <1>1, <1>2, <1>3, <1>4 DEF Invariant

(* The three variables that the ends of a gate assign, and their types.     *)
Control ==
  at \in [Attempts -> {"idle", "over"} \cup Inside] /\ code \in [Attempts -> 0..NotOver] /\ inFlight \in BOOLEAN

(* The types are kept.                                                      *)
LEMMA TypesStep == Types /\ [Next]_vars => Types'
  <1> SUFFICES ASSUME Types, [Next]_vars PROVE Types'
    OBVIOUS
  <1>1. Control
    BY DEF Types, Control
  <1>2. \A a \in Attempts, g \in Inside : Pass(a, g) => Control'
    BY <1>1 DEF Pass, Control
  <1>3. \A a \in Attempts, c \in 0..NotOver : End(a, c) => Control'
    BY <1>1 DEF End, Control, NotOver
  <1>4. 1 \in 0..NotOver /\ 0 \in 0..NotOver /\ 2 \in 0..NotOver /\ 3 \in 0..NotOver /\ 4 \in 0..NotOver
    BY DEF NotOver
  <1>5. \A a \in Attempts, c \in 0..NotOver : Fail(a, c) => Control' /\ DOMAIN asked' = Attempts
    BY <1>3 DEF Fail, Types
  <1>6. \A a \in Attempts : Take(a) => taken' \in [Attempts -> Nat]
    BY DEF Take, Types
  <1>7. io' = io => entry' \in [Attempts -> {"none", "direct", "bin", "bridge"}] /\ DOMAIN frames' = Attempts
    BY DEF io, Types
  <1>8. process' = process => captured' \in BOOLEAN /\ redirected' \in BOOLEAN
    BY DEF process, Types
  <1>9. {"arguments", "greeting", "probe", "import", "author", "answer"} = Inside
    BY DEF Inside
  <1> HIDE DEF Types
  <1>10. ASSUME Control', io' = io, process' = process, asked' = asked,
                taken' \in [Attempts -> Nat] PROVE Types'
    BY <1>7, <1>8, <1>10 DEF Types, Control
  <1>11. ASSUME Control', io' = io, process' = process, DOMAIN asked' = Attempts,
                taken' \in [Attempts -> Nat] PROVE Types'
    BY <1>7, <1>8, <1>11 DEF Types, Control
  <1>12. taken \in [Attempts -> Nat] /\ DOMAIN asked = Attempts
    BY DEF Types
  <1>13. ASSUME NEW a \in Attempts, Advance(a) PROVE Types'
    <2>1. CASE Arguments(a)
      BY <2>1, <1>2, <1>3, <1>4, <1>9, <1>10, <1>12 DEF Arguments
    <2>2. CASE Greeting(a)
      <3>1. Control'
        BY <2>2, <1>2, <1>3, <1>4, <1>9 DEF Greeting
      <3> QED BY <2>2, <3>1, <1>6, <1>10 DEF Greeting
    <2>3. CASE Probe(a)
      BY <2>3, <1>2, <1>3, <1>4, <1>9, <1>10, <1>12 DEF Probe
    <2>4. CASE Import(a)
      BY <2>4, <1>2, <1>3, <1>4, <1>9, <1>10, <1>12 DEF Import
    <2>5. CASE Request(a)
      <3>1. DOMAIN asked' = Attempts
        BY <2>5, <1>12 DEF Request
      <3> QED BY <2>5, <3>1, <1>2, <1>9, <1>11, <1>12 DEF Request
    <2>6. CASE AuthorFails(a)
      BY <2>6, <1>4, <1>5, <1>11, <1>12 DEF AuthorFails
    <2>7. CASE Answer(a)
      <3>1. Control' /\ DOMAIN asked' = Attempts
        <4>1. ASSUME UNCHANGED <<at, code, inFlight>> PROVE Control'
          BY <1>1, <4>1 DEF Control
        <4>2. PICK f \in Ready(a) :
                \/ Fail(a, 3) \/ Fail(a, 2)
                \/ (Pass(a, "author") \/ End(a, 0)) /\ asked' = asked
                \/ UNCHANGED <<at, code, inFlight>> /\ asked' = asked
          BY <2>7 DEF Answer
        <4> QED BY <4>1, <4>2, <1>2, <1>3, <1>4, <1>5, <1>9, <1>12
      <3> QED BY <2>7, <3>1, <1>6, <1>11 DEF Answer
    <2>8. CASE Timeout(a)
      BY <2>8, <1>4, <1>5, <1>11, <1>12 DEF Timeout
    <2>9. ASSUME NEW n \in 1..MaxChunk, Deliver(a, n) PROVE Types'
      BY <2>9, <1>8 DEF Deliver, Types
    <2>10. CASE Close(a)
      BY <2>10, <1>8 DEF Close, Types
    <2> QED BY <1>13, <2>1, <2>2, <2>3, <2>4, <2>5, <2>6, <2>7, <2>8, <2>9, <2>10 DEF Advance, Own, Author, Host
  <1>14. ASSUME NEW a \in Attempts, NEW e \in {"direct", "bin", "bridge"}, Start(a, e) PROVE Types'
    <2>1. Control'
      <3>1. CASE inFlight
        BY <1>1, <1>14, <3>1 DEF Start, Admit, Control, Overlap, NotOver
      <3>2. CASE ~inFlight
        BY <1>1, <1>14, <3>2 DEF Start, Admit, Control, Inside
      <3> QED BY <3>1, <3>2
    <2>2. captured' \in BOOLEAN /\ redirected' \in BOOLEAN
      BY <1>14 DEF Start, Protect, Types
    <2> QED BY <1>14, <2>1, <2>2 DEF Start, Types, Control
  <1>15. ASSUME NEW a \in Attempts, BridgeMismatch(a) PROVE Types'
    <2>1. Control'
      BY <1>1, <1>15 DEF BridgeMismatch, Control, Mismatch, NotOver
    <2> QED BY <1>15, <2>1, <1>10, <1>12 DEF BridgeMismatch
  <1>16. CASE Say
    BY <1>1, <1>16, <1>10, <1>12 DEF Say, Control
  <1>17. CASE UNCHANGED vars
    BY <1>1, <1>17, <1>10, <1>12 DEF vars, Control
  <1> QED BY <1>13, <1>14, <1>15, <1>16, <1>17 DEF Next

(* An attempt enters only past the guard, and takes it down as it leaves.   *)
LEMMA OneRunStep == Types /\ OneRunAtATime /\ [Next]_vars => OneRunAtATime'
  <1> SUFFICES ASSUME Types /\ OneRunAtATime, [Next]_vars PROVE OneRunAtATime'
    OBVIOUS
  <1>1. at \in [Attempts -> {"idle", "over"} \cup Inside] /\ inFlight \in BOOLEAN
    BY DEF Types
  <1>2. ASSUME NEW a \in Attempts, at[a] \in Inside, NEW g \in Inside, Pass(a, g) PROVE OneRunAtATime'
    BY <1>1, <1>2 DEF Pass, OneRunAtATime
  <1>3. "over" \notin Inside /\ "idle" \notin Inside
    BY DEF Inside
  <1>4. ASSUME NEW a \in Attempts, at[a] \in Inside, NEW c \in 0..NotOver, End(a, c) PROVE OneRunAtATime'
    <2>1. \A b \in Attempts : at'[b] \notin Inside
      BY <1>1, <1>3, <1>4 DEF End, OneRunAtATime
    <2> QED BY <1>4, <2>1 DEF End, OneRunAtATime
  <1>5. ASSUME NEW a \in Attempts, at[a] \in Inside, NEW c \in 0..NotOver, Fail(a, c) PROVE OneRunAtATime'
    BY <1>4, <1>5 DEF Fail
  <1>6. ASSUME UNCHANGED <<at, inFlight>> PROVE OneRunAtATime'
    BY <1>6 DEF OneRunAtATime
  <1>7. 1 \in 0..NotOver /\ 0 \in 0..NotOver /\ 2 \in 0..NotOver /\ 3 \in 0..NotOver /\ 4 \in 0..NotOver
    BY DEF NotOver
  <1>8. {"arguments", "greeting", "probe", "import", "author", "answer"} = Inside
    BY DEF Inside
  <1> HIDE DEF Types
  <1>9. ASSUME NEW a \in Attempts, Advance(a) PROVE OneRunAtATime'
    <2>1. CASE Arguments(a)
      BY <2>1, <1>2, <1>4, <1>7, <1>8 DEF Arguments
    <2>2. CASE Greeting(a)
      BY <2>2, <1>2, <1>4, <1>7, <1>8 DEF Greeting
    <2>3. CASE Probe(a)
      BY <2>3, <1>2, <1>4, <1>7, <1>8 DEF Probe
    <2>4. CASE Import(a)
      BY <2>4, <1>2, <1>4, <1>7, <1>8 DEF Import
    <2>5. CASE Request(a)
      BY <2>5, <1>2, <1>8 DEF Request
    <2>6. CASE AuthorFails(a)
      BY <2>6, <1>5, <1>7, <1>8 DEF AuthorFails
    <2>7. CASE Answer(a)
      <3>1. PICK f \in Ready(a) :
              Fail(a, 3) \/ Fail(a, 2) \/ Pass(a, "author") \/ End(a, 0) \/ UNCHANGED <<at, inFlight>>
        BY <2>7 DEF Answer
      <3>2. at[a] \in Inside
        BY <2>7, <1>8 DEF Answer
      <3> QED BY <3>1, <3>2, <1>2, <1>4, <1>5, <1>6, <1>7, <1>8
    <2>8. CASE Timeout(a)
      BY <2>8, <1>5, <1>7, <1>8 DEF Timeout
    <2>9. ASSUME NEW n \in 1..MaxChunk, Deliver(a, n) PROVE OneRunAtATime'
      BY <2>9, <1>6 DEF Deliver
    <2>10. CASE Close(a)
      BY <2>10, <1>6 DEF Close
    <2> QED BY <1>9, <2>1, <2>2, <2>3, <2>4, <2>5, <2>6, <2>7, <2>8, <2>9, <2>10 DEF Advance, Own, Author, Host
  <1>10. ASSUME NEW a \in Attempts, NEW e \in {"direct", "bin", "bridge"}, Start(a, e) PROVE OneRunAtATime'
    <2>1. CASE inFlight
      <3>1. at' = [at EXCEPT ![a] = "over"] /\ inFlight' = inFlight /\ at[a] = "idle"
        BY <1>10, <2>1 DEF Start, Admit
      <3>2. \A b \in Attempts : at'[b] \in Inside <=> at[b] \in Inside
        BY <1>1, <1>3, <3>1
      <3>3. \A b, c \in Attempts : at'[b] \in Inside /\ at'[c] \in Inside => b = c
        BY <3>2 DEF OneRunAtATime
      <3>4. inFlight' <=> \E b \in Attempts : at'[b] \in Inside
        BY <3>1, <3>2 DEF OneRunAtATime
      <3> QED BY <3>3, <3>4 DEF OneRunAtATime
    <2>2. CASE ~inFlight
      <3>1. at' = [at EXCEPT ![a] = "arguments"] /\ inFlight'
        BY <1>10, <2>2 DEF Start, Admit
      <3>2. "arguments" \in Inside
        BY DEF Inside
      <3>3. \A b \in Attempts : at'[b] \in Inside <=> b = a
        BY <1>1, <2>2, <3>1, <3>2 DEF OneRunAtATime
      <3> QED BY <3>1, <3>3 DEF OneRunAtATime
    <2> QED BY <2>1, <2>2
  <1>11. ASSUME NEW a \in Attempts, BridgeMismatch(a) PROVE OneRunAtATime'
    <2>1. at' = [at EXCEPT ![a] = "over"] /\ inFlight' = inFlight /\ at[a] = "idle"
      BY <1>11 DEF BridgeMismatch
    <2>2. \A b \in Attempts : at'[b] \in Inside <=> at[b] \in Inside
      BY <1>1, <1>3, <2>1
    <2>3. \A b, c \in Attempts : at'[b] \in Inside /\ at'[c] \in Inside => b = c
      BY <2>2 DEF OneRunAtATime
    <2>4. inFlight' <=> \E b \in Attempts : at'[b] \in Inside
      BY <2>1, <2>2 DEF OneRunAtATime
    <2> QED BY <2>3, <2>4 DEF OneRunAtATime
  <1>12. CASE Say
    BY <1>12, <1>6 DEF Say
  <1>13. CASE UNCHANGED vars
    BY <1>13, <1>6 DEF vars
  <1> QED BY <1>9, <1>10, <1>11, <1>12, <1>13 DEF Next

(* Every frame is written by an attempt that has protected the process.     *)
LEMMA ProtectedStep == Types /\ Protected /\ [Next]_vars => Protected'
  <1> SUFFICES ASSUME Types /\ Protected, [Next]_vars PROVE Protected'
    OBVIOUS
  <1>1. at \in [Attempts -> {"idle", "over"} \cup Inside] /\ entry \in [Attempts -> {"none", "direct", "bin", "bridge"}]
    BY DEF Types
  <1>2. "over" \notin Inside /\ "idle" \notin Inside
    BY DEF Inside
  <1>3. {"arguments", "greeting", "probe", "import", "author", "answer"} = Inside
    BY DEF Inside
  <1>4. ASSUME NEW a \in Attempts, at[a] \in Inside, WriteFrame(a)
        PROVE  (stdout' = "frames" => captured /\ redirected) /\ stdout' \in {"untouched", "raw", "frames"}
    BY <1>1, <1>4 DEF WriteFrame, Protected
  <1>5. ASSUME io' = io, process' = process,
               \A b \in Attempts : at'[b] \in Inside => at[b] \in Inside,
               (stdout' = "frames" => captured /\ redirected) /\ stdout' \in {"untouched", "raw", "frames"}
        PROVE  Protected'
    BY <1>5 DEF Protected, io, process
  <1>6. (stdout = "frames" => captured /\ redirected) /\ stdout \in {"untouched", "raw", "frames"}
    BY DEF Protected
  <1>7. \A a \in Attempts, g \in Inside :
          at[a] \in Inside /\ Pass(a, g) => \A b \in Attempts : at'[b] \in Inside => at[b] \in Inside
    BY <1>1 DEF Pass
  <1>8. \A a \in Attempts, c \in 0..NotOver :
          End(a, c) \/ Fail(a, c) => \A b \in Attempts : at'[b] \in Inside => at[b] \in Inside
    BY <1>1, <1>2 DEF End, Fail
  <1>9. 1 \in 0..NotOver /\ 0 \in 0..NotOver /\ 2 \in 0..NotOver /\ 3 \in 0..NotOver /\ 4 \in 0..NotOver
    BY DEF NotOver
  <1>10. ASSUME NEW a \in Attempts, Advance(a) PROVE Protected'
    <2>1. CASE Arguments(a)
      BY <2>1, <1>3, <1>5, <1>6, <1>7, <1>8, <1>9 DEF Arguments
    <2>2. CASE Greeting(a)
      <3>1. \A b \in Attempts : at'[b] \in Inside => at[b] \in Inside
        BY <2>2, <1>3, <1>7, <1>8, <1>9 DEF Greeting
      <3> QED BY <2>2, <3>1, <1>5, <1>6 DEF Greeting
    <2>3. CASE Probe(a)
      BY <2>3, <1>3, <1>5, <1>6, <1>7, <1>8, <1>9 DEF Probe
    <2>4. CASE Import(a)
      BY <2>4, <1>3, <1>5, <1>6, <1>7, <1>8, <1>9 DEF Import
    <2>5. CASE Request(a)
      BY <2>5, <1>3, <1>4, <1>5, <1>7 DEF Request
    <2>6. CASE AuthorFails(a)
      <3>1. WriteFrame(a) /\ at[a] \in Inside
        BY <2>6, <1>3 DEF AuthorFails, Fail
      <3> QED BY <2>6, <3>1, <1>4, <1>5, <1>8, <1>9 DEF AuthorFails
    <2>7. CASE Answer(a)
      <3>1. PICK f \in Ready(a) :
              \/ Fail(a, 3) \/ Fail(a, 2)
              \/ (Pass(a, "author") \/ End(a, 0)) /\ stdout' = stdout
              \/ UNCHANGED <<at, stdout>>
        BY <2>7 DEF Answer
      <3>2. at[a] \in Inside /\ "author" \in Inside
        BY <2>7, <1>3 DEF Answer
      <3>3. \A b \in Attempts : at'[b] \in Inside => at[b] \in Inside
        BY <3>1, <3>2, <1>7, <1>8, <1>9
      <3>4. WriteFrame(a) \/ stdout' = stdout
        BY <3>1 DEF Fail
      <3>5. (stdout' = "frames" => captured /\ redirected) /\ stdout' \in {"untouched", "raw", "frames"}
        BY <3>2, <3>4, <1>4, <1>6
      <3> QED BY <2>7, <3>3, <3>5, <1>5 DEF Answer
    <2>8. CASE Timeout(a)
      <3>1. WriteFrame(a) /\ at[a] \in Inside
        BY <2>8, <1>3 DEF Timeout, Fail
      <3> QED BY <2>8, <3>1, <1>4, <1>5, <1>8, <1>9 DEF Timeout
    <2>9. ASSUME NEW n \in 1..MaxChunk, Deliver(a, n) PROVE Protected'
      BY <2>9 DEF Deliver, Protected, process
    <2>10. CASE Close(a)
      BY <2>10 DEF Close, Protected, process
    <2> QED BY <1>10, <2>1, <2>2, <2>3, <2>4, <2>5, <2>6, <2>7, <2>8, <2>9, <2>10 DEF Advance, Own, Author, Host
  <1>11. ASSUME NEW a \in Attempts, NEW e \in {"direct", "bin", "bridge"}, Start(a, e) PROVE Protected'
    <2>1. /\ entry' = [entry EXCEPT ![a] = e] /\ Protect(e) /\ stdout' = stdout
          /\ at' = [at EXCEPT ![a] = "over"] \/ at' = [at EXCEPT ![a] = "arguments"]
      BY <1>11 DEF Start, Admit
    <2>2. \A b \in Attempts : at'[b] \in Inside => entry'[b] # "none"
      BY <1>1, <2>1 DEF Protected
    <2>3. \A b \in Attempts : entry'[b] \in {"bin", "bridge"} => captured' /\ redirected'
      BY <1>1, <2>1 DEF Protected, Protect
    <2>4. (stdout' = "frames" => captured' /\ redirected') /\ stdout' \in {"untouched", "raw", "frames"}
      BY <1>6, <2>1 DEF Protect
    <2> QED BY <2>2, <2>3, <2>4 DEF Protected
  <1>12. ASSUME NEW a \in Attempts, BridgeMismatch(a) PROVE Protected'
    <2>1. \A b \in Attempts : at'[b] \in Inside => at[b] \in Inside
      BY <1>1, <1>2, <1>12 DEF BridgeMismatch
    <2> QED BY <1>12, <2>1, <1>5, <1>6 DEF BridgeMismatch
  <1>13. CASE Say
    <2>1. stdout' = "raw"
      BY <1>6, <1>13 DEF Say
    <2> QED BY <1>13, <2>1, <1>5 DEF Say
  <1>14. CASE UNCHANGED vars
    BY <1>14, <1>5, <1>6 DEF vars
  <1> QED BY <1>10, <1>11, <1>12, <1>13, <1>14 DEF Next

(* Requests follow one another as the attempt goes on, and only the answer  *)
(* to the second ends it with 0.                                            *)
LEMMA AskedStep ==
  Types /\ (\A a \in Attempts : Asked(a)) /\ [Next]_vars => \A b \in Attempts : Asked(b)'
  <1> SUFFICES ASSUME Types, \A a \in Attempts : Asked(a), [Next]_vars, NEW b \in Attempts PROVE Asked(b)'
    OBVIOUS
  <1>1. /\ at \in [Attempts -> {"idle", "over"} \cup Inside] /\ code \in [Attempts -> 0..NotOver]
        /\ taken \in [Attempts -> Nat] /\ DOMAIN asked = Attempts /\ DOMAIN frames = Attempts
    BY DEF Types
  <1>2. Asked(b)
    OBVIOUS
  <1>3. ASSUME at'[b] = at[b], asked'[b] = asked[b], code'[b] = code[b], taken'[b] = taken[b], frames'[b] = frames[b]
        PROVE  Asked(b)'
    BY <1>2, <1>3 DEF Asked
  <1>4. /\ "over" \notin Gates /\ "author" \notin Gates /\ "answer" \notin Gates /\ "idle" \notin Gates
        /\ {"arguments", "greeting", "probe", "import"} \subseteq Gates
    BY DEF Gates
  <1>5. NotOver # 0 /\ Overlap # 0 /\ Mismatch # 0
    BY DEF NotOver, Overlap, Mismatch
  <1> HIDE DEF Types
  <1>6. ASSUME NEW a \in Attempts, Advance(a), a # b PROVE Asked(b)'
    <2>1. at'[b] = at[b] /\ code'[b] = code[b] /\ asked'[b] = asked[b]
      <3>1. CASE Arguments(a) \/ Probe(a) \/ Import(a)
        BY <1>6, <1>1, <3>1 DEF Arguments, Probe, Import, Pass, End
      <3>2. CASE Greeting(a)
        BY <1>6, <1>1, <3>2 DEF Greeting, Pass, End
      <3>3. CASE Request(a)
        BY <1>6, <1>1, <3>3 DEF Request, Pass
      <3>4. CASE AuthorFails(a) \/ Timeout(a)
        BY <1>6, <1>1, <3>4 DEF AuthorFails, Timeout, Fail, End
      <3>5. CASE Answer(a)
        <4>1. \E f \in Ready(a) :
                \/ Fail(a, 3) \/ Fail(a, 2)
                \/ (Pass(a, "author") \/ End(a, 0)) /\ asked' = asked
                \/ UNCHANGED <<at, code, asked>>
          BY <3>5 DEF Answer
        <4> QED BY <4>1, <1>6, <1>1 DEF Fail, End, Pass
      <3>6. CASE \E n \in 1..MaxChunk : Deliver(a, n)
        BY <3>6 DEF Deliver
      <3>7. CASE Close(a)
        BY <3>7 DEF Close
      <3> QED BY <1>6, <3>1, <3>2, <3>3, <3>4, <3>5, <3>6, <3>7 DEF Advance, Own, Author, Host
    <2>2. taken'[b] = taken[b] /\ frames'[b] = frames[b]
      <3>1. CASE \E n \in 1..MaxChunk : Deliver(a, n)
        BY <1>6, <1>1, <3>1 DEF Deliver
      <3>2. CASE Greeting(a) \/ Answer(a)
        BY <1>6, <1>1, <3>2 DEF Greeting, Answer, Take, io
      <3>3. CASE Arguments(a) \/ Probe(a) \/ Import(a) \/ Request(a) \/ AuthorFails(a) \/ Timeout(a)
        BY <3>3 DEF Arguments, Probe, Import, Request, AuthorFails, Timeout, io
      <3>4. CASE Close(a)
        BY <3>4 DEF Close
      <3> QED BY <1>6, <3>1, <3>2, <3>3, <3>4 DEF Advance, Own, Author, Host
    <2> QED BY <2>1, <2>2, <1>3
  <1>7. ASSUME Advance(b) PROVE Asked(b)'
    <2> DEFINE Ends(c) == at'[b] = "over" /\ code'[b] = c
    <2>1. \A c \in 0..NotOver : End(b, c) => Ends(c)
      BY <1>1 DEF End
    <2>2. \A c \in 0..NotOver :
            Fail(b, c) => Ends(c) /\ (asked[b] \in {<<>>, Work, Both} => asked'[b] # Both)
      BY <1>1, <2>1, Requests DEF Fail
    <2>3. \A g \in Inside : Pass(b, g) => at'[b] = g /\ code'[b] = code[b]
      BY <1>1 DEF Pass
    <2>4. 1 \in 0..NotOver /\ 0 \in 0..NotOver /\ 2 \in 0..NotOver /\ 3 \in 0..NotOver /\ 4 \in 0..NotOver
      BY DEF NotOver
    <2>5. {"arguments", "greeting", "probe", "import", "author", "answer"} = Inside /\ "over" \notin Inside
      BY DEF Inside
    <2>6. ASSUME NEW c \in 1..NotOver, Ends(c), asked'[b] # Both PROVE Asked(b)'
      BY <1>4, <2>6 DEF Asked
    <2>7. ASSUME NEW g \in Gates, at'[b] = g, code'[b] = code[b], asked'[b] = <<>>, at[b] # "over" PROVE Asked(b)'
      BY <1>2, <1>4, <2>7 DEF Asked
    <2>8. ASSUME at'[b] = "author", code'[b] = code[b], asked'[b] \in {<<>>, Work}, at[b] # "over" PROVE Asked(b)'
      BY <1>2, <1>4, <2>8 DEF Asked
    <2>9. ASSUME at'[b] = "answer", code'[b] = code[b], asked'[b] \in {Work, Both}, at[b] # "over" PROVE Asked(b)'
      BY <1>2, <1>4, <2>9 DEF Asked
    <2>10. 1 \in 1..NotOver /\ 2 \in 1..NotOver /\ 3 \in 1..NotOver /\ 4 \in 1..NotOver
      BY DEF NotOver
    <2> HIDE DEF Ends
    <2>11. ASSUME at[b] \in Gates, asked' = asked,
                  \E g \in Gates, c \in {1, 3, 4} : Pass(b, g) \/ Pass(b, "author") \/ End(b, c)
           PROVE  Asked(b)'
      <3>1. asked'[b] = <<>> /\ at[b] # "over"
        BY <1>2, <1>4, <2>11 DEF Asked
      <3>2. asked'[b] # Both
        BY <3>1, Requests
      <3>3. Gates \subseteq Inside
        BY <2>5 DEF Gates
      <3>4. PICK g \in Gates, c \in {1, 3, 4} : Pass(b, g) \/ Pass(b, "author") \/ End(b, c)
        BY <2>11
      <3>5. CASE Pass(b, g)
        BY <3>1, <3>3, <3>5, <2>3, <2>7
      <3>6. CASE Pass(b, "author")
        BY <3>1, <3>6, <2>3, <2>5, <2>8
      <3>7. CASE End(b, c)
        BY <3>2, <3>7, <2>1, <2>4, <2>6, <2>10
      <3> QED BY <3>4, <3>5, <3>6, <3>7
    <2>12. CASE Arguments(b)
      BY <2>12, <2>11, <1>4 DEF Arguments
    <2>13. CASE Greeting(b)
      BY <2>13, <2>11, <1>4 DEF Greeting
    <2>14. CASE Probe(b)
      BY <2>14, <2>11, <1>4 DEF Probe
    <2>15. CASE Import(b)
      BY <2>15, <2>11, <1>4 DEF Import
    <2>16. CASE Request(b)
      <3>1. asked[b] \in {<<>>, Work} /\ at[b] # "over"
        BY <1>2, <2>16 DEF Request, Asked
      <3>2. asked'[b] \in {Work, Both}
        BY <1>1, <2>16, <3>1, Requests DEF Request
      <3> QED BY <2>16, <3>1, <3>2, <2>3, <2>5, <2>9 DEF Request
    <2>17. CASE AuthorFails(b)
      <3>1. asked[b] \in {<<>>, Work, Both}
        BY <1>2, <2>17 DEF AuthorFails, Asked
      <3> QED BY <2>17, <3>1, <2>2, <2>4, <2>6, <2>10 DEF AuthorFails
    <2>18. CASE Timeout(b)
      <3>1. asked[b] \in {<<>>, Work, Both}
        BY <1>2, <2>18 DEF Timeout, Asked
      <3> QED BY <2>18, <3>1, <2>2, <2>4, <2>6, <2>10 DEF Timeout
    <2>19. CASE Answer(b)
      <3>1. asked[b] \in {Work, Both} /\ at[b] = "answer"
        BY <1>2, <2>19 DEF Answer, Asked
      <3>2. PICK f \in Ready(b) :
              \/ Fail(b, 3) \/ Fail(b, 2)
              \/ f = "ok" /\ (IF Len(asked[b]) = 1 THEN Pass(b, "author") ELSE End(b, 0)) /\ asked' = asked
              \/ UNCHANGED <<at, code, asked>>
        BY <2>19 DEF Answer
      <3>3. CASE Fail(b, 3) \/ Fail(b, 2)
        BY <3>1, <3>3, <2>2, <2>4, <2>6, <2>10
      <3>4. ASSUME f = "ok", Len(asked[b]) = 1, Pass(b, "author"), asked' = asked PROVE Asked(b)'
        <4>1. asked[b] = Work
          BY <3>1, <3>4, Requests
        <4> QED BY <3>1, <3>4, <4>1, <2>3, <2>5, <2>8
      <3>5. ASSUME f = "ok", Len(asked[b]) # 1, End(b, 0), asked' = asked PROVE Asked(b)'
        <4>1. asked'[b] = Both
          BY <3>1, <3>5, Requests
        <4>2. f = frames[b][taken[b] + 1]
          BY <3>5 DEF Ready, StreamEnd
        <4>3. frames' = frames /\ taken'[b] = taken[b] + 1
          BY <1>1, <2>19 DEF Answer, Take, io
        <4>4. at'[b] = "over" /\ code'[b] = 0
          BY <3>5, <2>1, <2>4 DEF Ends
        <4> QED BY <3>5, <4>1, <4>2, <4>3, <4>4, <1>4 DEF Asked
      <3>6. CASE UNCHANGED <<at, code, asked>>
        BY <3>1, <3>6, <2>9
      <3> QED BY <3>2, <3>3, <3>4, <3>5, <3>6
    <2>20. CASE \E n \in 1..MaxChunk : Deliver(b, n)
      BY <1>2, <1>4, <2>20 DEF Deliver, Asked
    <2>21. CASE Close(b)
      BY <1>3, <2>21 DEF Close
    <2> QED BY <1>7, <2>12, <2>13, <2>14, <2>15, <2>16, <2>17, <2>18, <2>19, <2>20, <2>21 DEF Advance, Own, Author, Host
  <1>8. ASSUME NEW a \in Attempts, NEW e \in {"direct", "bin", "bridge"}, Start(a, e) PROVE Asked(b)'
    <2>1. UNCHANGED <<frames, taken, asked>> /\ at[a] = "idle"
      BY <1>8 DEF Start
    <2>2. \/ at' = [at EXCEPT ![a] = "over"] /\ code' = [code EXCEPT ![a] = Overlap]
          \/ at' = [at EXCEPT ![a] = "arguments"] /\ code' = code
      BY <1>8 DEF Start, Admit
    <2>3. CASE a # b
      BY <1>1, <1>3, <2>1, <2>2, <2>3
    <2>4. CASE a = b
      BY <1>1, <1>2, <1>4, <1>5, <2>1, <2>2, <2>4, Requests DEF Asked
    <2> QED BY <2>3, <2>4
  <1>9. ASSUME NEW a \in Attempts, BridgeMismatch(a) PROVE Asked(b)'
    <2>1. UNCHANGED <<frames, taken, asked>> /\ at[a] = "idle"
      BY <1>9 DEF BridgeMismatch, io
    <2>2. at' = [at EXCEPT ![a] = "over"] /\ code' = [code EXCEPT ![a] = Mismatch]
      BY <1>9 DEF BridgeMismatch
    <2>3. CASE a # b
      BY <1>1, <1>3, <2>1, <2>2, <2>3
    <2>4. CASE a = b
      BY <1>1, <1>2, <1>4, <1>5, <2>1, <2>2, <2>4, Requests DEF Asked
    <2> QED BY <2>3, <2>4
  <1>10. CASE Say
    BY <1>10, <1>3 DEF Say, io
  <1>11. CASE UNCHANGED vars
    BY <1>11, <1>3 DEF vars, io
  <1> QED BY <1>6, <1>7, <1>8, <1>9, <1>10, <1>11 DEF Next

(* The invariant holds always.                                              *)
THEOREM RunnerInvariant == Spec => []Invariant
  <1>1. Invariant /\ [Next]_vars => Invariant'
    BY TypesStep, OneRunStep, ProtectedStep, AskedStep DEF Invariant
  <1> QED BY <1>1, InvariantInit, PTL DEF Spec

(* At most one attempt is past the guard, and the guard is up exactly while *)
(* one is, whatever the hosts do and however attempts come in.              *)
THEOREM OneAtATime == Spec => []OneRunAtATime
  <1>1. Invariant => OneRunAtATime
    BY DEF Invariant
  <1> QED BY <1>1, RunnerInvariant, PTL

(* No text follows a frame on descriptor 1.                                 *)
THEOREM FramesOnly == Spec => []StdoutCarriesFramesOnly
  <1>1. Invariant => StdoutCarriesFramesOnly
    BY DEF Invariant, Protected, StdoutCarriesFramesOnly
  <1> QED BY <1>1, RunnerInvariant, PTL

(* Exit code 0 and the acknowledgement of the commit come together.         *)
THEOREM ZeroIsCommitted == Spec => []ZeroMeansCommitted
  <1>1. Invariant => ZeroMeansCommitted
    <2> SUFFICES ASSUME Invariant, NEW a \in Attempts
                 PROVE  code[a] = 0 <=> /\ at[a] = "over" /\ asked[a] = Both
                                        /\ frames[a][taken[a]] = "ok"
      BY DEF ZeroMeansCommitted, Both
    <2>1. Asked(a) /\ NotOver # 0
      BY DEF Invariant, NotOver
    <2> QED BY <2>1 DEF Asked
  <1> QED BY <1>1, RunnerInvariant, PTL

-----------------------------------------------------------------------------
(* Chunks.  Everything below is about the bytes one attempt reads: where    *)
(* the frames are in the stream, what a drain makes of any piece of it      *)
(* that begins with a frame, and that the reader's state, after any number  *)
(* of chunks, is that of a reader that got them all at once.                *)

Frames == INSTANCE Folding WITH Step <- AddFrame

(* One step of the drain: what it makes of the buffer from position i on,   *)
(* if f says what it makes of it further on.                                *)
Drain(f, i, buffer) ==
  IF Len(buffer) - i < Prefix
  THEN [frames |-> <<>>, rest |-> i, oversize |-> FALSE]
  ELSE LET declared == buffer[i + 1] * Base + buffer[i + 2]
           next == i + Prefix + declared
       IN IF declared > Cap
          THEN [frames |-> <<>>, rest |-> i, oversize |-> TRUE]
          ELSE IF Len(buffer) < next
          THEN [frames |-> <<>>, rest |-> i, oversize |-> FALSE]
          ELSE LET body == SubSeq(buffer, i + Prefix + 1, next)
               IN [f[next] EXCEPT !.frames = <<Decode(body)>> \o @]

(* The constants of the framing.                                            *)
LEMMA Bases == Base \in Nat \ {0} /\ Cap \in Nat /\ Prefix = 2
  BY FramingAssumption DEF Prefix

(* The one fact about products the proofs need.                             *)
LEMMA Products == \A x, y \in Nat : x * y \in Nat
  OBVIOUS

(* What the drain looks at from a position on is further on.                *)
LEMMA DrainLocal ==
  ASSUME NEW B \in Seq(Nat), NEW f, NEW g, NEW i \in 0 .. Len(B),
         \A j \in i + 1 .. Len(B) : f[j] = g[j]
  PROVE  Drain(f, i, B) = Drain(g, i, B)
  <1> DEFINE declared == B[i + 1] * Base + B[i + 2]
             next == i + Prefix + declared
  <1>1. CASE Len(B) - i < Prefix
    BY <1>1 DEF Drain
  <1>2. CASE Len(B) - i >= Prefix /\ declared <= Cap /\ next <= Len(B)
    <2>1. B[i + 1] \in Nat /\ B[i + 2] \in Nat
      BY <1>2, Bases
    <2>2. declared \in Nat
      <3>1. B[i + 1] * Base \in Nat
        BY <2>1, Bases, Products, Zenon
      <3> QED BY <2>1, <3>1
    <2>4. next \in i + 1 .. Len(B)
      <3> HIDE DEF declared
      <3> QED BY <1>2, <2>2, Bases
    <2>3. f[next] = g[next]
      BY <2>4
    <2> QED BY <2>3 DEF Drain
  <1>3. CASE Len(B) - i >= Prefix /\ ~(declared <= Cap /\ next <= Len(B))
    <2>1. B[i + 1] \in Nat /\ B[i + 2] \in Nat
      BY <1>3, Bases
    <2>4. declared \in Nat
      <3>1. B[i + 1] * Base \in Nat
        BY <2>1, Bases, Products, Zenon
      <3> QED BY <2>1, <3>1
    <2>2. declared \in Nat /\ next \in Nat
      <3> HIDE DEF declared
      <3> QED BY <2>4, Bases
    <2>3. declared > Cap \/ Len(B) < next
      BY <1>3, <2>2, Bases
    <2> QED BY <2>3 DEF Drain
  <1> QED BY <1>1, <1>2, <1>3, Bases

(* A function the drain defines exists.                                     *)
LEMMA DrainExists ==
  ASSUME NEW B \in Seq(Nat)
  PROVE  \E f : f = [i \in 0 .. Len(B) |-> Drain(f, i, B)]
  <1> DEFINE L == Len(B)
             Up(m, f) == \A i \in 0 .. L : i + m > L => f[i] = Drain(f, i, B)
             T == {m \in Nat : \E f : Up(m, f)}
  <1>1. L \in Nat
    OBVIOUS
  <1>2. 0 \in T
    <2>1. Up(0, 0)
      BY <1>1
    <2> QED BY <2>1
  <1>3. ASSUME NEW m \in Nat, m \in T PROVE m + 1 \in T
    <2>1. PICK f : Up(m, f)
      BY <1>3
    <2> DEFINE g == [i \in 0 .. L |-> IF i = L - m THEN Drain(f, i, B) ELSE f[i]]
    <2>2. Up(m + 1, g)
      <3> SUFFICES ASSUME NEW i \in 0 .. L, i + (m + 1) > L PROVE g[i] = Drain(g, i, B)
        OBVIOUS
      <3>1. \A j \in i + 1 .. L : j \in 0 .. L /\ j # L - m
        BY <1>1
      <3>2. \A j \in i + 1 .. L : g[j] = f[j]
        BY <3>1
      <3> HIDE DEF g
      <3>3. Drain(g, i, B) = Drain(f, i, B)
        BY <3>2, DrainLocal
      <3>4. g[i] = Drain(f, i, B)
        <4>1. i = L - m \/ (i # L - m /\ i + m > L)
          BY <1>1
        <4> QED BY <2>1, <4>1 DEF g
      <3> QED BY <3>3, <3>4
    <2> HIDE DEF g, Up
    <2> QED BY <2>2
  <1>4. L + 1 \in T
    <2> HIDE DEF T
    <2> QED BY <1>1, <1>2, <1>3, Frames!SetInduction
  <1>5. PICK f : Up(L + 1, f)
    BY <1>4
  <1> DEFINE h == [i \in 0 .. L |-> f[i]]
  <1>6. ASSUME NEW i \in 0 .. L PROVE h[i] = Drain(h, i, B)
    <2>1. \A j \in i + 1 .. L : j \in 0 .. L
      BY <1>1
    <2>2. \A j \in i + 1 .. L : h[j] = f[j]
      BY <2>1
    <2> HIDE DEF h
    <2>3. Drain(h, i, B) = Drain(f, i, B)
      BY <2>2, DrainLocal
    <2>4. f[i] = Drain(f, i, B)
      BY <1>1, <1>5
    <2> QED BY <2>3, <2>4 DEF h
  <1>7. h = [i \in 0 .. L |-> Drain(h, i, B)]
    <2>1. h = [i \in 0 .. L |-> h[i]]
      OBVIOUS
    <2> HIDE DEF h
    <2> QED BY <1>6, <2>1
  <1> HIDE DEF h
  <1> QED BY <1>7

(* DrainCompleteFrames takes its result at the front of the buffer.         *)
LEMMA Draining ==
  ASSUME NEW B \in Seq(Nat)
  PROVE  \E f : /\ \A i \in 0 .. Len(B) : f[i] = Drain(f, i, B)
                /\ DrainCompleteFrames(B) = f[0]
  <1> DEFINE f == CHOOSE f : f = [i \in 0 .. Len(B) |-> Drain(f, i, B)]
  <1>1. DrainCompleteFrames(B) = f[0]
    BY DEF DrainCompleteFrames, Drain
  <1>2. f = [i \in 0 .. Len(B) |-> Drain(f, i, B)]
    BY DrainExists
  <1> HIDE DEF f
  <1> QED BY <1>1, <1>2

-----------------------------------------------------------------------------
(* Where the frames are in the stream.                                      *)

(* The first k frames, and where the next one starts.                       *)
Sent(b, k) == Concat(SubSeq(b, 1, k))
Begins(b, k) == Len(Sent(b, k))

(* The bytes of two pieces put together.                                    *)
LEMMA Joined ==
  ASSUME NEW u \in Seq(Nat), NEW v \in Seq(Nat)
  PROVE  /\ u \o v \in Seq(Nat) /\ Len(u \o v) = Len(u) + Len(v)
         /\ \A i \in 1 .. Len(u) : (u \o v)[i] = u[i]
         /\ \A i \in 1 .. Len(v) : (u \o v)[Len(u) + i] = v[i]
  <1>1. Len(u) \in Nat /\ Len(v) \in Nat
    OBVIOUS
  <1>2. u \o v \in Seq(Nat) /\ Len(u \o v) = Len(u) + Len(v)
    BY ConcatProperties
  <1>3. \A i \in 1 .. Len(u) + Len(v) : (u \o v)[i] = IF i <= Len(u) THEN u[i] ELSE v[i - Len(u)]
    BY ConcatProperties
  <1>4. ASSUME NEW i \in 1 .. Len(v) PROVE (u \o v)[Len(u) + i] = v[i]
    <2>1. Len(u) + i \in 1 .. Len(u) + Len(v) /\ ~(Len(u) + i <= Len(u)) /\ (Len(u) + i) - Len(u) = i
      BY <1>1
    <2> QED BY <1>3, <2>1
  <1> QED BY <1>1, <1>2, <1>3, <1>4

(* The prefix of a frame declares the length of its body.                   *)
LEMMA Encoded ==
  ASSUME NEW body \in Seq(Nat)
  PROVE  /\ EncodeFrame(body) \in Seq(Nat)
         /\ Len(EncodeFrame(body)) = Len(body) + 2
         /\ EncodeFrame(body)[1] * Base + EncodeFrame(body)[2] = Len(body)
         /\ \A i \in 1 .. Len(body) : EncodeFrame(body)[i + 2] = body[i]
  <1> DEFINE h == Len(body) \div Base
             l == Len(body) % Base
  <1>1. Len(body) \in Nat /\ h \in Nat /\ l \in Nat /\ h * Base + l = Len(body)
    <2>1. Len(body) \in Nat
      OBVIOUS
    <2>2. \A n \in Nat : n \div Base \in Nat /\ n % Base \in Nat /\ (n \div Base) * Base + (n % Base) = n
      BY Bases
    <2> QED BY <2>1, <2>2
  <1>2. EncodeFrame(body) = <<h, l>> \o body
    BY DEF EncodeFrame
  <1> HIDE DEF h, l
  <1>3. <<h, l>> \in Seq(Nat) /\ Len(<<h, l>>) = 2 /\ <<h, l>>[1] = h /\ <<h, l>>[2] = l
    BY <1>1
  <1>4. ASSUME NEW head \in Seq(Nat), Len(head) = 2
        PROVE  /\ head \o body \in Seq(Nat) /\ Len(head \o body) = Len(body) + 2
               /\ (head \o body)[1] = head[1] /\ (head \o body)[2] = head[2]
               /\ \A i \in 1 .. Len(body) : (head \o body)[i + 2] = body[i]
    <2>1. \A i \in 1 .. Len(body) : i \in Nat /\ i + 2 = 2 + i
      BY <1>1
    <2>2. /\ head \o body \in Seq(Nat) /\ Len(head \o body) = Len(head) + Len(body)
          /\ \A i \in 1 .. Len(head) : (head \o body)[i] = head[i]
          /\ \A i \in 1 .. Len(body) : (head \o body)[Len(head) + i] = body[i]
      BY <1>4, Joined
    <2>3. 1 \in 1 .. Len(head) /\ 2 \in 1 .. Len(head)
      BY <1>4
    <2>4. Len(head \o body) = Len(body) + 2
      BY <1>1, <1>4, <2>2
    <2> QED BY <1>4, <2>1, <2>2, <2>3, <2>4
  <1> QED BY <1>1, <1>2, <1>3, <1>4

(* The stream of frames is a fold, about which Folding has the facts.       *)
LEMMA ConcatFolds == \A b : Concat(b) = Frames!Fold(<<>>, b)
  BY DEF Concat, Frames!Fold, AddFrame, EncodeFrame, FoldLeft, MapThenFoldSet, Max,
     Frames!FoldLeft, Frames!MapThenFoldSet, Frames!Max

(* What has been sent is bytes.                                             *)
LEMMA SentBytes ==
  ASSUME NEW b \in Seq(Seq(Nat)), NEW k \in 0 .. Len(b)
  PROVE  Sent(b, k) \in Seq(Nat) /\ Begins(b, k) \in Nat
  <1>1. SubSeq(b, 1, k) \in Seq(Seq(Nat))
    OBVIOUS
  <1>2. \A stream \in Seq(Nat), body \in Seq(Nat) : AddFrame(stream, body) \in Seq(Nat)
    BY Encoded DEF AddFrame
  <1>3. <<>> \in Seq(Nat)
    OBVIOUS
  <1>4. Sent(b, k) \in Seq(Nat)
    BY <1>1, <1>2, <1>3, ConcatFolds, Frames!FoldInvariant DEF Sent
  <1> QED BY <1>4 DEF Begins

(* One more frame is put after those sent.                                  *)
LEMMA SentNext ==
  ASSUME NEW b \in Seq(Seq(Nat)), NEW k \in 0 .. Len(b) - 1
  PROVE  /\ Sent(b, k + 1) = Sent(b, k) \o EncodeFrame(b[k + 1])
         /\ Begins(b, k + 1) = Begins(b, k) + 2 + Len(b[k + 1])
  <1>1. Sent(b, k + 1) = Sent(b, k) \o EncodeFrame(b[k + 1])
    BY ConcatFolds, Frames!FoldPrefix DEF Sent, AddFrame
  <1>2. b[k + 1] \in Seq(Nat) /\ k \in 0 .. Len(b)
    OBVIOUS
  <1>3. EncodeFrame(b[k + 1]) \in Seq(Nat) /\ Len(EncodeFrame(b[k + 1])) = Len(b[k + 1]) + 2
    BY <1>2, Encoded
  <1>4. Sent(b, k) \in Seq(Nat)
    BY <1>2, SentBytes
  <1>5. Len(Sent(b, k + 1)) = Len(Sent(b, k)) + (Len(b[k + 1]) + 2)
    BY <1>1, <1>3, <1>4, Joined
  <1>6. Len(Sent(b, k)) \in Nat /\ Len(b[k + 1]) \in Nat
    BY <1>2, <1>4
  <1>7. Begins(b, k + 1) = Len(Sent(b, k + 1)) /\ Begins(b, k) = Len(Sent(b, k))
    BY DEF Begins
  <1>8. \A x, y \in Nat : x + (y + 2) = x + 2 + y
    OBVIOUS
  <1>9. Begins(b, k + 1) = Begins(b, k) + 2 + Len(b[k + 1])
    BY <1>5, <1>6, <1>7, <1>8, Zenon
  <1> QED BY <1>1, <1>9

(* Before the first frame there is nothing.                                 *)
LEMMA SentNothing == \A b : Sent(b, 0) = <<>> /\ Begins(b, 0) = 0
  <1>1. \A b : SubSeq(b, 1, 0) = <<>>
    OBVIOUS
  <1>2. \A b : Sent(b, 0) = <<>>
    BY <1>1, ConcatFolds, Frames!FoldEmpty DEF Sent
  <1>3. Len(<<>>) = 0
    OBVIOUS
  <1> QED BY <1>2, <1>3 DEF Begins

(* What has been sent stays where it is.                                    *)
LEMMA SentStays ==
  ASSUME NEW b \in Seq(Seq(Nat)), NEW k \in 0 .. Len(b), NEW m \in k .. Len(b)
  PROVE  /\ Begins(b, k) <= Begins(b, m)
         /\ \A i \in 1 .. Begins(b, k) : Sent(b, m)[i] = Sent(b, k)[i]
  <1> DEFINE Kept(j) == /\ Begins(b, k) <= Begins(b, j)
                        /\ \A i \in 1 .. Begins(b, k) : Sent(b, j)[i] = Sent(b, k)[i]
             T == {d \in Nat : k + d <= Len(b) => Kept(k + d)}
  <1>1. 0 \in T
    BY SentBytes
  <1>2. ASSUME NEW d \in Nat, d \in T PROVE d + 1 \in T
    <2> SUFFICES ASSUME k + (d + 1) <= Len(b) PROVE Kept(k + (d + 1))
      OBVIOUS
    <2> DEFINE j == k + d
    <2>1. j \in 0 .. Len(b) - 1 /\ j \in 0 .. Len(b) /\ k + (d + 1) = j + 1
      OBVIOUS
    <2>2. Kept(j)
      BY <1>2, <2>1
    <2> HIDE DEF j
    <2>3. /\ Sent(b, j + 1) = Sent(b, j) \o EncodeFrame(b[j + 1])
          /\ Begins(b, j + 1) = Begins(b, j) + 2 + Len(b[j + 1])
      BY <2>1, SentNext
    <2>4. /\ Sent(b, j) \in Seq(Nat) /\ Begins(b, j) = Len(Sent(b, j)) /\ Begins(b, k) \in Nat
          /\ Begins(b, j) \in Nat /\ b[j + 1] \in Seq(Nat) /\ EncodeFrame(b[j + 1]) \in Seq(Nat)
          /\ Len(b[j + 1]) \in Nat
      <3>1. b[j + 1] \in Seq(Nat)
        BY <2>1
      <3>2. Begins(b, k) \in Nat /\ Begins(b, j) \in Nat /\ Sent(b, j) \in Seq(Nat)
        BY <2>1, SentBytes
      <3>3. EncodeFrame(b[j + 1]) \in Seq(Nat) /\ Len(b[j + 1]) \in Nat
        <4>1. EncodeFrame(b[j + 1]) \in Seq(Nat)
          BY <3>1, Encoded, Zenon
        <4> QED BY <3>1, <4>1
      <3> QED BY <3>1, <3>2, <3>3 DEF Begins
    <2>5. \A i \in 1 .. Begins(b, j) : Sent(b, j + 1)[i] = Sent(b, j)[i]
      BY <2>3, <2>4, Joined
    <2>6. Begins(b, k) <= Begins(b, j + 1)
      <3>1. \A x, y, z \in Nat : x <= y => x <= y + 2 + z
        OBVIOUS
      <3>2. Begins(b, k) <= Begins(b, j) + 2 + Len(b[j + 1])
        BY <2>2, <2>4, <3>1, Zenon
      <3> QED BY <2>3, <3>2, Zenon
    <2>7. \A i \in 1 .. Begins(b, k) : i \in 1 .. Begins(b, j)
      BY <2>2, <2>4
    <2>8. \A i \in 1 .. Begins(b, k) : Sent(b, j + 1)[i] = Sent(b, k)[i]
      BY <2>2, <2>5, <2>7
    <2> QED BY <2>1, <2>6, <2>8
  <1>3. m - k \in T
    <2>1. m - k \in Nat
      OBVIOUS
    <2> HIDE DEF T
    <2> QED BY <1>1, <1>2, <2>1, Frames!SetInduction
  <1>4. m - k \in Nat /\ k + (m - k) = m
    OBVIOUS
  <1>5. k + (m - k) <= Len(b)
    OBVIOUS
  <1> HIDE DEF Kept
  <1>6. Kept(k + (m - k))
    BY <1>3, <1>5
  <1> QED BY <1>4, <1>6 DEF Kept

Starts(b) == [k \in 0 .. Len(b) |-> Begins(b, k)]

(* A stream of frames b and a tail t, of which the frames begin at s.       *)
Laid(str, s, b, t) ==
  /\ str \in Seq(Nat) /\ s \in [0 .. Len(b) -> Nat] /\ s[0] = 0
  /\ \A k \in 0 .. Len(b) - 1 :
       /\ s[k + 1] = s[k] + 2 + Len(b[k + 1]) /\ s[k + 1] <= Len(str)
       /\ str[s[k] + 1] * Base + str[s[k] + 2] = Len(b[k + 1])
       /\ \A i \in 1 .. Len(b[k + 1]) : str[s[k] + (i + 2)] = b[k + 1][i]
  /\ Len(str) = s[Len(b)] + Len(t)
  /\ \A i \in 1 .. Len(t) : str[s[Len(b)] + i] = t[i]

(* The stream of an attempt is one.                                         *)
LEMMA StreamIsLaid ==
  ASSUME NEW b \in Seq(Seq(Nat)), NEW t \in Seq(Nat)
  PROVE  Laid(Concat(b) \o t, Starts(b), b, t)
  <1> DEFINE n == Len(b)
             str == Concat(b) \o t
             s == [k \in 0 .. n |-> Begins(b, k)]
  <1>1. Sent(b, n) = Concat(b) /\ n \in Nat
    <2>1. SubSeq(b, 1, n) = b
      OBVIOUS
    <2>2. n \in Nat
      OBVIOUS
    <2> HIDE DEF n
    <2> QED BY <2>1, <2>2 DEF Sent
  <1>2. Concat(b) \in Seq(Nat) /\ Len(Concat(b)) = Begins(b, n)
    BY <1>1, SentBytes DEF Begins
  <1>3. /\ str \in Seq(Nat) /\ Len(str) = Begins(b, n) + Len(t)
        /\ \A i \in 1 .. Begins(b, n) : str[i] = Concat(b)[i]
        /\ \A i \in 1 .. Len(t) : str[Begins(b, n) + i] = t[i]
    <2> HIDE DEF n
    <2>1. /\ str \in Seq(Nat) /\ Len(str) = Len(Concat(b)) + Len(t)
          /\ \A i \in 1 .. Len(Concat(b)) : str[i] = Concat(b)[i]
          /\ \A i \in 1 .. Len(t) : str[Len(Concat(b)) + i] = t[i]
      BY <1>2, Joined
    <2> HIDE DEF str
    <2> QED BY <1>2, <2>1
  <1> HIDE DEF str
  <1>4. s \in [0 .. n -> Nat] /\ s[0] = 0 /\ s[n] = Begins(b, n)
    BY <1>1, SentBytes, SentNothing
  <1>5. ASSUME NEW k \in 0 .. n - 1
        PROVE  /\ s[k + 1] = s[k] + 2 + Len(b[k + 1]) /\ s[k + 1] <= Len(str)
               /\ str[s[k] + 1] * Base + str[s[k] + 2] = Len(b[k + 1])
               /\ \A i \in 1 .. Len(b[k + 1]) : str[s[k] + (i + 2)] = b[k + 1][i]
    <2> DEFINE body == b[k + 1]
               at0 == Begins(b, k)
    <2>1. body \in Seq(Nat) /\ k \in 0 .. n /\ k + 1 \in 0 .. n /\ n \in k + 1 .. n
      BY <1>1
    <2>2. /\ Sent(b, k + 1) = Sent(b, k) \o EncodeFrame(body)
          /\ Begins(b, k + 1) = at0 + 2 + Len(body)
      BY SentNext
    <2>3. /\ Begins(b, k + 1) <= Begins(b, n)
          /\ \A i \in 1 .. Begins(b, k + 1) : Concat(b)[i] = Sent(b, k + 1)[i]
      BY <1>1, <2>1, SentStays
    <2>4. /\ Sent(b, k) \in Seq(Nat) /\ at0 = Len(Sent(b, k)) /\ Begins(b, n) \in Nat
          /\ EncodeFrame(body) \in Seq(Nat) /\ Len(EncodeFrame(body)) = Len(body) + 2
          /\ EncodeFrame(body)[1] * Base + EncodeFrame(body)[2] = Len(body)
          /\ \A i \in 1 .. Len(body) : EncodeFrame(body)[i + 2] = body[i]
      <3> HIDE DEF body
      <3>1. Begins(b, k) \in Nat /\ Begins(b, n) \in Nat /\ Sent(b, k) \in Seq(Nat)
        <4>1. n \in 0 .. n
          BY <1>1
        <4> QED BY <2>1, <4>1, SentBytes
      <3>2. /\ EncodeFrame(body) \in Seq(Nat) /\ Len(EncodeFrame(body)) = Len(body) + 2
            /\ EncodeFrame(body)[1] * Base + EncodeFrame(body)[2] = Len(body)
            /\ \A i \in 1 .. Len(body) : EncodeFrame(body)[i + 2] = body[i]
        BY <2>1, Encoded
      <3>3. at0 = Len(Sent(b, k))
        BY DEF Begins
      <3> QED BY <3>1, <3>2, <3>3
    <2>11. Len(body) \in Nat /\ at0 \in Nat
      BY <2>1, <2>4
    <2>5. s[k] = at0 /\ s[k + 1] = Begins(b, k + 1)
      BY <2>1
    <2> HIDE DEF s, body, at0
    <2>6. ASSUME NEW i \in 1 .. Len(body) + 2 PROVE str[at0 + i] = EncodeFrame(body)[i]
      <3>1. Len(body) \in Nat /\ at0 \in Nat
        BY <2>1, <2>4
      <3>2. at0 + i \in 1 .. Begins(b, k + 1) /\ at0 + i \in 1 .. Begins(b, n)
        <4>1. at0 + i \in 1 .. Begins(b, k + 1)
          BY <2>2, <3>1
        <4>2. Begins(b, k + 1) \in Nat /\ Begins(b, n) \in Nat
          <5>1. Begins(b, k + 1) \in Nat
            BY <2>1, SentBytes, Zenon
          <5> QED BY <2>4, <5>1
        <4> QED BY <2>3, <4>1, <4>2
      <3>3. Sent(b, k + 1)[at0 + i] = EncodeFrame(body)[i]
        <4>1. \A e \in 1 .. Len(EncodeFrame(body)) :
                (Sent(b, k) \o EncodeFrame(body))[Len(Sent(b, k)) + e] = EncodeFrame(body)[e]
          BY <2>4, Joined
        <4> QED BY <2>2, <2>4, <4>1
      <3> QED BY <1>3, <2>3, <3>2, <3>3
    <2>7. Len(body) \in Nat /\ at0 \in Nat /\ 1 \in 1 .. Len(body) + 2 /\ 2 \in 1 .. Len(body) + 2
          /\ \A i \in 1 .. Len(body) : i + 2 \in 1 .. Len(body) + 2
      BY <2>1, <2>4
    <2>8. str[at0 + 1] * Base + str[at0 + 2] = Len(body)
      BY <2>4, <2>6, <2>7
    <2>9. \A i \in 1 .. Len(body) : str[at0 + (i + 2)] = body[i]
      BY <2>4, <2>6, <2>7
    <2>10. Begins(b, k + 1) <= Len(str)
      <3>1. Len(t) \in Nat
        OBVIOUS
      <3> QED BY <1>3, <2>2, <2>3, <2>4, <2>7, <3>1
    <2> QED BY <2>2, <2>5, <2>8, <2>9, <2>10 DEF body
  <1> HIDE DEF s
  <1>6. Laid(str, s, b, t)
    BY <1>3, <1>4, <1>5 DEF Laid
  <1> QED BY <1>6 DEF str, s, n, Starts

-----------------------------------------------------------------------------
(* Draining a piece of the stream that begins with a frame.                 *)

Lawful(b, t, ends) ==
  /\ b \in Seq(Seq(Nat)) /\ t \in Seq(Nat)
  /\ \A i \in DOMAIN b : Len(b[i]) <= Cap
  /\ ends \in {"clean", "short", "oversize"}
  /\ EndOfStream(t, ends)

(* K frames are complete in the first q bytes.                              *)
Complete(s, b, q, K) ==
  /\ K \in 0 .. Len(b) /\ s[K] <= q
  /\ K < Len(b) => q < s[K + 1]

(* The first q bytes end with a length over the cap.                        *)
OverCap(s, b, t, q, K) ==
  K = Len(b) /\ q >= s[K] + 2 /\ t[1] * Base + t[2] > Cap

Decoded(b, j, K) == [i \in 1 .. K - j |-> Decode(b[j + i])]

Kinds == {"ready", "ready2", "ok", "refused", "malformed"}

(* A body decodes to one of five kinds.                                     *)
LEMMA Decodes == \A body : Decode(body) \in Kinds
  <1>1. DOMAIN Meaning = 1 .. 4
    BY DEF Meaning
  <1>2. \A i \in 1 .. 4 : Meaning[i] \in Kinds
    BY DEF Meaning, Kinds
  <1> QED BY <1>1, <1>2 DEF Decode, Kinds

(* The frames from one on are that one and those after it.                  *)
LEMMA DecodeFirst ==
  ASSUME NEW b, NEW j \in Nat, NEW K \in Nat, j < K
  PROVE  <<Decode(b[j + 1])>> \o Decoded(b, j + 1, K) = Decoded(b, j, K)
  <1> DEFINE u == <<Decode(b[j + 1])>>
             v == Decoded(b, j + 1, K)
             w == Decoded(b, j, K)
  <1>1. u \in Seq(Kinds) /\ Len(u) = 1 /\ u[1] = Decode(b[j + 1])
    BY Decodes
  <1>2. v \in Seq(Kinds) /\ Len(v) = K - (j + 1) /\ \A i \in 1 .. K - (j + 1) : v[i] = Decode(b[(j + 1) + i])
    <2>1. v \in [1 .. K - (j + 1) -> Kinds] /\ K - (j + 1) \in Nat
      BY Decodes DEF Decoded
    <2> QED BY <2>1 DEF Decoded
  <1>3. w \in Seq(Kinds) /\ Len(w) = K - j /\ \A i \in 1 .. K - j : w[i] = Decode(b[j + i])
    <2>1. w \in [1 .. K - j -> Kinds] /\ K - j \in Nat
      BY Decodes DEF Decoded
    <2> QED BY <2>1 DEF Decoded
  <1> DEFINE z == u \o v
  <1> HIDE DEF u, v, w
  <1>4. /\ z \in Seq(Kinds) /\ Len(z) = K - j
        /\ \A i \in 1 .. K - j : z[i] = IF i <= 1 THEN u[i] ELSE v[i - 1]
    <2>1. /\ z \in Seq(Kinds) /\ Len(z) = Len(u) + Len(v)
          /\ \A i \in 1 .. Len(u) + Len(v) : z[i] = IF i <= Len(u) THEN u[i] ELSE v[i - Len(u)]
      BY <1>1, <1>2, ConcatProperties
    <2>2. Len(u) + Len(v) = K - j
      BY <1>1, <1>2
    <2> QED BY <1>1, <2>1, <2>2
  <1> HIDE DEF z
  <1>5. ASSUME NEW i \in 1 .. K - j PROVE z[i] = w[i]
    <2>1. CASE i = 1
      BY <1>1, <1>3, <1>4, <2>1
    <2>2. CASE i > 1
      <3>1. i - 1 \in 1 .. K - (j + 1) /\ (j + 1) + (i - 1) = j + i
        BY <2>2
      <3> QED BY <1>2, <1>3, <1>4, <2>2, <3>1
    <2> QED BY <2>1, <2>2
  <1> QED BY <1>3, <1>4, <1>5, SeqEqual DEF u, v, w, z

(* Later frames begin later.                                                *)
LEMMA Ascending ==
  ASSUME NEW str, NEW s, NEW b \in Seq(Seq(Nat)), NEW t, Laid(str, s, b, t), NEW j \in 0 .. Len(b), NEW k \in j .. Len(b)
  PROVE  s[j] <= s[k]
  <1> DEFINE T == {d \in Nat : j + d <= Len(b) => s[j] <= s[j + d]}
  <1>1. /\ s \in [0 .. Len(b) -> Nat]
        /\ \A i \in 0 .. Len(b) - 1 : s[i + 1] = s[i] + 2 + Len(b[i + 1])
    BY DEF Laid
  <1>2. 0 \in T
    BY <1>1
  <1>3. ASSUME NEW d \in Nat, d \in T PROVE d + 1 \in T
    <2> SUFFICES ASSUME j + (d + 1) <= Len(b) PROVE s[j] <= s[j + (d + 1)]
      OBVIOUS
    <2>1. j + d \in 0 .. Len(b) - 1 /\ j + (d + 1) = (j + d) + 1 /\ j + d \in 0 .. Len(b)
      OBVIOUS
    <2>2. s[(j + d) + 1] = s[j + d] + 2 + Len(b[(j + d) + 1])
      BY <1>1, <2>1
    <2>3. b[(j + d) + 1] \in Seq(Nat)
      BY <2>1
    <2>4. Len(b[(j + d) + 1]) \in Nat /\ s[j + d] \in Nat /\ s[j] \in Nat
      <3>1. Len(b[(j + d) + 1]) \in Nat
        BY <2>3
      <3>2. j \in 0 .. Len(b)
        OBVIOUS
      <3>3. s[j + d] \in Nat /\ s[j] \in Nat
        BY <1>1, <2>1, <3>2
      <3> QED BY <3>1, <3>3
    <2>5. s[j] <= s[j + d]
      BY <1>3, <2>1
    <2> QED BY <2>1, <2>2, <2>4, <2>5
  <1> HIDE DEF T
  <1>4. k - j \in T
    <2>1. k - j \in Nat
      OBVIOUS
    <2> QED BY <1>2, <1>3, <2>1, Frames!SetInduction
  <1>5. j + (k - j) = k
    OBVIOUS
  <1> QED BY <1>4, <1>5 DEF T

(* The drain of a piece of the stream that begins with a frame and is cut   *)
(* anywhere yields its complete frames, and leaves the rest.                *)
LEMMA DrainSlice ==
  ASSUME NEW str, NEW s, NEW b, NEW t, NEW ends, Laid(str, s, b, t), Lawful(b, t, ends),
         NEW k \in 0 .. Len(b), NEW q \in Nat, s[k] <= q, q <= Len(str),
         NEW K \in k .. Len(b), Complete(s, b, q, K)
  PROVE  DrainCompleteFrames(SubSeq(str, s[k] + 1, q))
           = [frames |-> Decoded(b, k, K), rest |-> s[K] - s[k], oversize |-> OverCap(s, b, t, q, K)]
  <1> DEFINE n == Len(b)
             p == s[k]
             B == SubSeq(str, p + 1, q)
             L == q - p
  <1>11. PICK over : over = OverCap(s, b, t, q, K)
    OBVIOUS
  <1> DEFINE R(j) == [frames |-> Decoded(b, j, K), rest |-> s[K] - p, oversize |-> over]
  <1>1. b \in Seq(Seq(Nat)) /\ t \in Seq(Nat) /\ str \in Seq(Nat)
    BY DEF Laid, Lawful
  <1>0. /\ n \in Nat /\ s \in [0 .. n -> Nat] /\ p \in Nat /\ Len(str) \in Nat /\ Len(t) \in Nat
        /\ K \in 0 .. n /\ s[K] \in Nat
    <2>1. n \in Nat /\ s \in [0 .. n -> Nat] /\ Len(str) \in Nat /\ Len(t) \in Nat
      BY <1>1 DEF Laid
    <2>2. K \in 0 .. n
      OBVIOUS
    <2> QED BY <2>1, <2>2
  <1>2. /\ B \in Seq(Nat) /\ Len(B) = L /\ L \in Nat
        /\ \A i \in 1 .. L : B[i] = str[p + i]
    <2> HIDE DEF p
    <2>1. p + 1 \in 1 .. q + 1 /\ q \in 0 .. Len(str) /\ p <= q /\ q - (p + 1) + 1 = q - p /\ q - p \in Nat
      BY <1>0 DEF p
    <2>2. /\ SubSeq(str, p + 1, q) \in Seq(Nat) /\ Len(SubSeq(str, p + 1, q)) = q - (p + 1) + 1
          /\ \A i \in 1 .. q - (p + 1) + 1 : SubSeq(str, p + 1, q)[i] = str[p + 1 + i - 1]
      <3>1. \A i \in p + 1 .. q : str[i] \in Nat
        BY <1>0, <1>1, <2>1
      <3> QED BY <1>0, <2>1, <3>1, SubSeqProperties
    <2>3. \A i \in 1 .. q - p : p + 1 + i - 1 = p + i
      BY <1>0
    <2> QED BY <2>1, <2>2, <2>3
  <1>3. PICK f : /\ \A i \in 0 .. L : f[i] = Drain(f, i, B)
                 /\ DrainCompleteFrames(B) = f[0]
    <2> HIDE DEF B, L
    <2>1. PICK f : /\ \A i \in 0 .. Len(B) : f[i] = Drain(f, i, B)
                   /\ DrainCompleteFrames(B) = f[0]
      BY <1>2, Draining
    <2> QED BY <1>2, <2>1
  <1> HIDE DEF n, p, B, L
  <1>4. \A j \in k .. K : j \in 0 .. n /\ p <= s[j] /\ s[j] <= s[K] /\ s[j] - p \in 0 .. L /\ s[j] \in Nat
    <2> SUFFICES ASSUME NEW j \in k .. K
                 PROVE j \in 0 .. n /\ p <= s[j] /\ s[j] <= s[K] /\ s[j] - p \in 0 .. L /\ s[j] \in Nat
      OBVIOUS
    <2>1. j \in 0 .. n /\ j \in k .. n /\ K \in j .. n
      BY <1>0 DEF n
    <2>2. p <= s[j] /\ s[j] <= s[K]
      BY <1>1, <2>1, Ascending DEF n, p
    <2>3. s[K] <= q
      BY DEF Complete
    <2>4. s[j] \in Nat /\ s[K] \in Nat
      BY <1>0, <2>1
    <2> QED BY <1>0, <2>1, <2>2, <2>3, <2>4 DEF L
  <1>5. f[s[K] - p] = R(K)
    <2> DEFINE i == s[K] - p
    <2>1. i \in 0 .. L /\ f[i] = Drain(f, i, B) /\ L - i = q - s[K] /\ s[K] \in Nat
      <3>1. K \in k .. K
        OBVIOUS
      <3> QED BY <1>0, <1>3, <1>4, <3>1, SMTT(20) DEF L
    <2>2. Decoded(b, K, K) = <<>>
      <3>1. 1 .. K - K = {}
        BY <1>0
      <3> QED BY <3>1 DEF Decoded
    <2> HIDE DEF i
    <2>3. \A x \in 0 .. q - s[K] : x > 0 => i + x \in 1 .. L /\ B[i + x] = str[s[K] + x]
      <3>1. \A x \in 0 .. q - s[K] : x > 0 => i + x \in 1 .. L /\ p + (i + x) = s[K] + x
        <4>1. /\ p \in Nat /\ s[K] \in Nat /\ q \in Nat /\ p <= s[K]
              /\ i = s[K] - p /\ L = q - p
          <5>1. K \in k .. K
            OBVIOUS
          <5> QED BY <1>0, <1>4, <5>1 DEF i, L
        <4>2. \A P, S, Q \in Nat : P <= S =>
                \A x \in 0 .. Q - S : x > 0 => (S - P) + x \in 1 .. Q - P /\ P + ((S - P) + x) = S + x
          OBVIOUS
        <4> QED BY <4>1, <4>2, Zenon
      <3> QED BY <1>2, <3>1
    <2> DEFINE declared == B[i + 1] * Base + B[i + 2]
    <2>4. CASE L - i < 2
      <3>1. Drain(f, i, B) = [frames |-> <<>>, rest |-> i, oversize |-> FALSE]
        BY <1>2, <2>4, Bases DEF Drain
      <3>2. over = FALSE
        <4>1. OverCap(s, b, t, q, K) = FALSE
          BY <2>1, <2>4 DEF OverCap
        <4> QED BY <1>11, <4>1
      <3> QED BY <2>1, <2>2, <3>1, <3>2 DEF i
    <2>5. CASE L - i >= 2 /\ K < n
      <3>1. declared = Len(b[K + 1]) /\ s[K + 1] = s[K] + 2 + Len(b[K + 1])
        <4>1. K \in 0 .. n - 1
          BY <1>0, <2>5
        <4>2. /\ s[K + 1] = s[K] + 2 + Len(b[K + 1])
              /\ str[s[K] + 1] * Base + str[s[K] + 2] = Len(b[K + 1])
          BY <4>1 DEF Laid, n
        <4>3. 1 \in 0 .. q - s[K] /\ 2 \in 0 .. q - s[K]
          BY <1>0, <2>1, <2>5
        <4>4. B[i + 1] = str[s[K] + 1] /\ B[i + 2] = str[s[K] + 2]
          BY <2>3, <4>3
        <4> QED BY <4>2, <4>4
      <3>2. Len(b[K + 1]) <= Cap /\ Len(b[K + 1]) \in Nat
        <4>1. K + 1 \in DOMAIN b /\ b[K + 1] \in Seq(Nat)
          BY <1>1, <2>5 DEF n
        <4> QED BY <4>1 DEF Lawful
      <3>3. q < s[K + 1]
        BY <2>5 DEF Complete, n
      <3> HIDE DEF declared
      <3>4. ~(declared > Cap) /\ L < i + 2 + declared
        <4>1. \A x, y, z, w \in Nat : w < x + 2 + y => w - z < (x - z) + 2 + y
          OBVIOUS
        <4>2. \A y, c \in Nat : y <= c => ~(y > c)
          OBVIOUS
        <4>3. q < s[K] + 2 + Len(b[K + 1])
          BY <3>1, <3>3, Zenon
        <4>4. q - p < (s[K] - p) + 2 + Len(b[K + 1])
          BY <1>0, <3>2, <4>1, <4>3, Zenon
        <4> QED BY <3>1, <3>2, <4>2, <4>4, Bases, Zenon DEF i, L
      <3>5. ~(L - i < 2)
        BY <1>2, <2>1, <2>5
      <3>6. Drain(f, i, B) = [frames |-> <<>>, rest |-> i, oversize |-> FALSE]
        BY <1>2, <3>4, <3>5, Bases DEF Drain, declared
      <3>7. over = FALSE
        <4>1. OverCap(s, b, t, q, K) = FALSE
          BY <1>0, <2>5 DEF OverCap, n
        <4> QED BY <1>11, <4>1
      <3> QED BY <2>1, <2>2, <3>6, <3>7 DEF i
    <2>6. CASE L - i >= 2 /\ K = n
      <3>1. /\ q <= s[K] + Len(t)
            /\ \A x \in 1 .. Len(t) : str[s[K] + x] = t[x]
        BY <2>6 DEF Laid, n
      <3>2. Len(t) >= 2 /\ t[1] \in Nat /\ t[2] \in Nat
        <4>1. Len(t) >= 2
          BY <1>0, <2>1, <2>6, <3>1
        <4>2. t \in Seq(Nat)
          BY <1>1
        <4> QED BY <4>1, <4>2
      <3>3. declared = t[1] * Base + t[2]
        <4>1. 1 \in 0 .. q - s[K] /\ 2 \in 0 .. q - s[K] /\ 1 \in 1 .. Len(t) /\ 2 \in 1 .. Len(t)
          BY <1>0, <2>1, <2>6, <3>2
        <4> QED BY <2>3, <3>1, <4>1
      <3>4. ends # "clean"
        <4>1. t # <<>>
          BY <3>2
        <4> QED BY <4>1 DEF Lawful, EndOfStream
      <3> HIDE DEF declared
      <3>5. ~(L - i < 2)
        BY <1>2, <2>1, <2>6
      <3>6. CASE declared > Cap
        <4>1. Drain(f, i, B) = [frames |-> <<>>, rest |-> i, oversize |-> TRUE]
          BY <1>2, <3>5, <3>6, Bases DEF Drain, declared
        <4>2. over = TRUE
          <5>1. OverCap(s, b, t, q, K) = TRUE
            BY <2>1, <2>6, <3>3, <3>6 DEF OverCap, n
          <5> QED BY <1>11, <5>1
        <4> QED BY <2>1, <2>2, <4>1, <4>2 DEF i
      <3>7. CASE ~(declared > Cap)
        <4>1. Len(t) < 2 + declared
          <5>1. ends = "short"
            BY <3>3, <3>4, <3>7 DEF Lawful, EndOfStream
          <5> QED BY <3>2, <3>3, <5>1, Bases DEF Lawful, EndOfStream
        <4>2. declared \in Nat
          <5>1. t[1] * Base \in Nat
            BY <3>2, Bases, Products, Zenon
          <5> QED BY <3>2, <3>3, <5>1
        <4>3. L < i + 2 + declared
          <5> HIDE DEF declared
          <5>1. \A x, y, z, w \in Nat : w < x + 2 + y => w - z < (x - z) + 2 + y
            OBVIOUS
          <5>2. p \in Nat /\ q \in Nat /\ s[K] \in Nat /\ Len(t) \in Nat
            BY <1>0, <1>1, <2>1
          <5>3. q < s[K] + 2 + declared
            BY <3>1, <4>1, <4>2, <5>2
          <5>4. q - p < (s[K] - p) + 2 + declared
            BY <4>2, <5>1, <5>2, <5>3, Zenon
          <5> QED BY <5>4 DEF i, L
        <4>4. Drain(f, i, B) = [frames |-> <<>>, rest |-> i, oversize |-> FALSE]
          BY <1>2, <3>5, <3>7, <4>3, Bases DEF Drain, declared
        <4>5. over = FALSE
          <5>1. OverCap(s, b, t, q, K) = FALSE
            BY <3>3, <3>7 DEF OverCap
          <5> QED BY <1>11, <5>1
        <4> QED BY <2>1, <2>2, <4>4, <4>5 DEF i
      <3> QED BY <3>6, <3>7
    <2>7. K < n \/ K = n
      BY <1>0 DEF n
    <2>8. L - i < 2 \/ L - i >= 2
      BY <1>2, <2>1
    <2> QED BY <2>4, <2>5, <2>6, <2>7, <2>8
  <1>6. ASSUME NEW j \in k .. K, j < K, f[s[j + 1] - p] = R(j + 1) PROVE f[s[j] - p] = R(j)
    <2> DEFINE i == s[j] - p
               body == b[j + 1]
    <2>1. /\ i \in 0 .. L /\ f[i] = Drain(f, i, B) /\ s[j] \in Nat /\ i \in Nat
          /\ s[j + 1] - p \in 0 .. L /\ j \in 0 .. n - 1 /\ s[j + 1] \in Nat
      <3>1. j + 1 \in k .. K
        BY <1>6
      <3>2. j + 1 \in 0 .. n
        BY <1>4, <3>1
      <3>3. i \in 0 .. L /\ s[j] \in Nat /\ s[j + 1] - p \in 0 .. L /\ s[j + 1] \in Nat
        BY <1>4, <3>1
      <3>4. i \in Nat /\ j \in 0 .. n - 1
        BY <1>0, <3>2, <3>3
      <3> QED BY <1>3, <3>3, <3>4
    <2>2. body \in Seq(Nat) /\ Len(body) \in Nat /\ Len(body) <= Cap
      <3>1. body \in Seq(Nat) /\ j + 1 \in DOMAIN b
        BY <1>1, <2>1 DEF n
      <3> QED BY <3>1 DEF Lawful
    <2>3. /\ s[j + 1] = s[j] + 2 + Len(body)
          /\ str[s[j] + 1] * Base + str[s[j] + 2] = Len(body)
          /\ \A x \in 1 .. Len(body) : str[s[j] + (x + 2)] = body[x]
      BY <2>1 DEF Laid, n
    <2> DEFINE next == i + 2 + Len(body)
    <2>4. next = s[j + 1] - p /\ next \in 0 .. L /\ next \in Nat
      <3> HIDE DEF body
      <3>1. \A x, y, z, w \in Nat : w = x + 2 + y => (x - z) + 2 + y = w - z
        OBVIOUS
      <3>2. (s[j] - p) + 2 + Len(body) = s[j + 1] - p
        <4>1. p \in Nat /\ s[j] \in Nat /\ s[j + 1] \in Nat /\ Len(body) \in Nat
          BY <1>0, <2>1, <2>2
        <4>2. s[j + 1] = s[j] + 2 + Len(body)
          BY <2>3
        <4> HIDE DEF p
        <4>3. \A x, y, z, w : x \in Nat /\ y \in Nat /\ z \in Nat /\ w \in Nat /\ w = x + 2 + y
                => (x - z) + 2 + y = w - z
          BY <3>1
        <4> QED BY <4>1, <4>2, <4>3
      <3>3. L \in Nat /\ \A x \in 0 .. L : x \in Nat
        BY <1>2
      <3>4. next = s[j + 1] - p
        BY <3>2
      <3> HIDE DEF next
      <3> QED BY <2>1, <3>3, <3>4
    <2> HIDE DEF i, body
    <2>5. \A x \in 1 .. Len(body) + 2 : i + x \in 1 .. L /\ B[i + x] = str[s[j] + x]
      <3>1. \A x \in 1 .. Len(body) + 2 : i + x \in 1 .. L /\ p + (i + x) = s[j] + x
        <4>1. \A x \in 1 .. Len(body) + 2 : i + x <= next
          BY <2>1, <2>2
        <4>2. \A x \in 1 .. Len(body) + 2 : i + x \in Nat /\ i + x >= 1
          BY <2>1, <2>2
        <4>3. next <= L
          BY <2>4
        <4> HIDE DEF next
        <4>4. \A x \in 1 .. Len(body) + 2 : i + x \in 1 .. L
          BY <1>2, <2>4, <4>1, <4>2, <4>3
        <4>5. \A x \in 1 .. Len(body) + 2 : p + (i + x) = s[j] + x
          <5>1. \A v, w \in Nat, x \in Int : v + ((w - v) + x) = w + x
            OBVIOUS
          <5>2. \A x \in 1 .. Len(body) + 2 : x \in Int
            OBVIOUS
          <5> QED BY <1>0, <2>1, <5>1, <5>2, ZenonT(30) DEF i
        <4> QED BY <4>4, <4>5
      <3> QED BY <1>2, <3>1
    <2>6. B[i + 1] * Base + B[i + 2] = Len(body)
      <3>1. 1 \in 1 .. Len(body) + 2 /\ 2 \in 1 .. Len(body) + 2
        BY <2>2
      <3> QED BY <2>3, <2>5, <3>1
    <2>7. SubSeq(B, i + 2 + 1, next) = body
      <3>1. /\ i + 2 + 1 \in 1 .. next + 1 /\ next \in 0 .. Len(B) /\ next - (i + 2 + 1) + 1 = Len(body)
        BY <1>2, <2>1, <2>2, <2>4
      <3> DEFINE part == SubSeq(B, i + 2 + 1, next)
      <3>2. /\ part \in Seq(Nat) /\ Len(part) = Len(body)
            /\ \A x \in 1 .. Len(body) : part[x] = B[i + 2 + x]
        <4> HIDE DEF next
        <4>1. i + 2 + 1 \in Int /\ next \in Int
          BY <2>1, <2>4
        <4>2. \A x \in i + 2 + 1 .. next : B[x] \in Nat
          <5>1. i \in Nat /\ next \in Nat /\ next <= Len(B) /\ Len(B) \in Nat
            BY <1>2, <2>1, <3>1, <4>1
          <5>2. B \in Seq(Nat)
            BY <1>2
          <5>3. \A x \in i + 2 + 1 .. next : x \in 1 .. Len(B)
            BY <5>1
          <5> QED BY <5>2, <5>3
        <4>3. /\ part \in Seq(Nat)
              /\ Len(part) = IF i + 2 + 1 <= next THEN next - (i + 2 + 1) + 1 ELSE 0
              /\ \A x \in 1 .. next - (i + 2 + 1) + 1 : part[x] = B[(i + 2 + 1) + x - 1]
          BY <4>1, <4>2, SubSeqProperties
        <4>4. Len(part) = Len(body)
          <5>1. Len(body) \in Nat
            BY <2>1, <2>2
          <5>2. Len(part) = IF i + 2 + 1 <= next THEN Len(body) ELSE 0
            BY <3>1, <4>3
          <5> QED BY <3>1, <4>1, <5>1, <5>2
        <4>5. \A x \in 1 .. Len(body) : (i + 2 + 1) + x - 1 = i + 2 + x
          BY <2>1, <2>2
        <4> QED BY <3>1, <4>3, <4>4, <4>5
      <3> HIDE DEF part
      <3>3. ASSUME NEW x \in 1 .. Len(body) PROVE part[x] = body[x]
        <4>1. x + 2 \in 1 .. Len(body) + 2 /\ i + (x + 2) = i + 2 + x
          BY <2>1, <2>2
        <4> QED BY <2>3, <2>5, <3>2, <4>1
      <3>4. part = body
        BY <2>2, <3>2, <3>3, SeqEqual
      <3> QED BY <3>4 DEF part
    <2> HIDE DEF next
    <2>8. Drain(f, i, B) = [f[next] EXCEPT !.frames = <<Decode(body)>> \o @]
      <3>1. ~(L - i < 2) /\ ~(Len(body) > Cap) /\ ~(L < next)
        BY <1>2, <2>1, <2>2, <2>4, Bases DEF next
      <3>2. next = i + 2 + Len(body)
        BY DEF next
      <3> QED BY <1>2, <2>6, <2>7, <3>1, <3>2, Bases DEF Drain
    <2>9. f[next] = R(j + 1)
      BY <1>6, <2>4
    <2>10. <<Decode(body)>> \o Decoded(b, j + 1, K) = Decoded(b, j, K)
      <3>1. j \in Nat /\ K \in Nat
        OBVIOUS
      <3> QED BY <1>6, <3>1, DecodeFirst DEF body
    <2>11. Drain(f, i, B) = R(j)
      <3> DEFINE u == Decoded(b, j + 1, K)
                 r == s[K] - p
      <3>1. PICK x, v : x = f[next] /\ v = <<Decode(body)>>
        OBVIOUS
      <3>2. x = [frames |-> u, rest |-> r, oversize |-> over]
        BY <2>9, <3>1, Zenon
      <3> HIDE DEF u, r
      <3>3. [x EXCEPT !.frames = v \o @] = [frames |-> v \o u, rest |-> r, oversize |-> over]
        <4>1. \A w : [x EXCEPT !.frames = w] = [frames |-> w, rest |-> r, oversize |-> over]
          BY <3>2
        <4>2. x.frames = u
          BY <3>2
        <4>3. [x EXCEPT !.frames = v \o @] = [x EXCEPT !.frames = v \o x.frames]
          OBVIOUS
        <4> QED BY <4>1, <4>2, <4>3, Zenon
      <3>4. Drain(f, i, B) = [frames |-> v \o u, rest |-> r, oversize |-> over]
        BY <2>8, <3>1, <3>3, Zenon
      <3>5. v \o u = Decoded(b, j, K)
        BY <2>10, <3>1, Zenon DEF u
      <3> QED BY <3>4, <3>5, Zenon DEF r
    <2> QED BY <2>1, <2>11 DEF i
  <1> DEFINE T == {d \in Nat : d <= K - k => f[s[K - d] - p] = R(K - d)}
  <1>7. 0 \in T
    <2>1. K - 0 = K
      OBVIOUS
    <2> QED BY <1>5, <2>1
  <1>8. ASSUME NEW d \in Nat, d \in T PROVE d + 1 \in T
    <2> SUFFICES ASSUME d + 1 <= K - k PROVE f[s[K - (d + 1)] - p] = R(K - (d + 1))
      OBVIOUS
    <2>1. K - (d + 1) \in k .. K /\ K - (d + 1) < K /\ (K - (d + 1)) + 1 = K - d /\ d <= K - k
      OBVIOUS
    <2>2. f[s[K - d] - p] = R(K - d)
      BY <1>8, <2>1
    <2> HIDE DEF R
    <2> QED BY <1>6, <2>1, <2>2
  <1> HIDE DEF T, R
  <1>9. K - k \in Nat /\ K - k \in T /\ K - (K - k) = k /\ k \in k .. K
    <2>1. K - k \in Nat /\ K - (K - k) = k /\ k \in k .. K
      OBVIOUS
    <2> QED BY <1>7, <1>8, <2>1, Frames!SetInduction
  <1>10. f[s[k] - p] = R(k) /\ s[k] - p = 0
    <2>1. f[s[k] - p] = R(k)
      BY <1>9 DEF T
    <2> QED BY <1>0, <2>1 DEF p
  <1> QED BY <1>3, <1>10, <1>11 DEF B, R, p

-----------------------------------------------------------------------------
(* The readers of the attempts.                                             *)

(* What has arrived is complete frames, all of them yielded, and a rest     *)
(* that is in the buffer.                                                   *)
Reassembled(a) ==
  LET b == sent[a].bodies
      t == sent[a].tail.bytes
      s == Starts(b)
  IN /\ fed[a] \in 0 .. Len(Stream(a))
     /\ \E K \in 0 .. Len(b) :
          /\ Complete(s, b, fed[a], K)
          /\ frames[a] = Decoded(b, 0, K)
          /\ reader[a] = [buffer |-> SubSeq(Stream(a), s[K] + 1, fed[a]),
                          oversize |-> OverCap(s, b, t, fed[a], K)]

Arrivals ==
  /\ fed \in [Attempts -> Nat] /\ DOMAIN frames = Attempts /\ DOMAIN reader = Attempts
  /\ \A a \in Attempts : sent[a] \in Hosts[a] /\ Reassembled(a)

(* What a host sends is frames within the cap and the end it says.          *)
LEMMA HostsAreLawful ==
  ASSUME NEW a \in Attempts, NEW wire \in Hosts[a]
  PROVE  Lawful(wire.bodies, wire.tail.bytes, wire.tail.ends)
  <1>1. /\ wire.bodies \in Seq(Seq(0 .. (Base - 1))) /\ wire.tail.bytes \in Seq(0 .. (Base - 1))
        /\ \A i \in DOMAIN wire.bodies : Len(wire.bodies[i]) <= Cap
        /\ wire.tail.ends \in {"clean", "short", "oversize"}
        /\ EndOfStream(wire.tail.bytes, wire.tail.ends)
    BY HostsAssumption
  <1>2. 0 .. (Base - 1) \subseteq Nat
    OBVIOUS
  <1>3. Seq(0 .. (Base - 1)) \subseteq Seq(Nat)
    BY <1>2, SeqMonotonic
  <1>4. wire.bodies \in Seq(Seq(Nat)) /\ wire.tail.bytes \in Seq(Nat)
    BY <1>1, <1>3, SeqMonotonic
  <1> QED BY <1>1, <1>4 DEF Lawful

(* There is a greatest number of complete frames.                           *)
LEMMA CompleteExists ==
  ASSUME NEW s, NEW b, NEW n \in Nat, n = Len(b), s \in [0 .. n -> Nat], NEW q \in Nat, NEW k \in 0 .. n, s[k] <= q
  PROVE  \E K \in k .. n : Complete(s, b, q, K)
  <1> DEFINE T == {m \in Nat : m <= n /\ s[n - m] <= q}
  <1>1. n - k \in T
    <2>1. n - k \in Nat /\ n - k <= n /\ n - (n - k) = k
      OBVIOUS
    <2> QED BY <2>1
  <1>2. PICK m \in T : \A x \in T : m <= x
    <2>1. T \subseteq Nat /\ T # {}
      BY <1>1
    <2> HIDE DEF T
    <2> QED BY <2>1, Frames!Least
  <1>3. n - m \in k .. n /\ n - m \in 0 .. n /\ s[n - m] <= q
    <2>1. m \in Nat /\ m <= n - k /\ m <= n /\ s[n - m] <= q
      BY <1>1, <1>2
    <2> QED BY <2>1
  <1>4. ASSUME n - m < n PROVE q < s[(n - m) + 1]
    <2>1. m - 1 \in Nat /\ m - 1 <= n /\ n - (m - 1) = (n - m) + 1 /\ ~(m <= m - 1) /\ (n - m) + 1 \in 0 .. n
      BY <1>2, <1>3, <1>4
    <2>2. ~(s[(n - m) + 1] <= q)
      BY <1>2, <2>1
    <2>3. s[(n - m) + 1] \in Nat
      BY <2>1
    <2> QED BY <2>2, <2>3
  <1> QED BY <1>3, <1>4 DEF Complete

(* Adjacent pieces of a stream, and a piece of a piece.                     *)
LEMMA Pieces ==
  ASSUME NEW str \in Seq(Nat), NEW l \in Nat, NEW m \in Nat, NEW q \in Nat, l <= m, m <= q, q <= Len(str)
  PROVE  /\ SubSeq(str, l + 1, m) \o SubSeq(str, m + 1, q) = SubSeq(str, l + 1, q)
         /\ SubSeq(SubSeq(str, l + 1, q), (m - l) + 1, q - l) = SubSeq(str, m + 1, q)
         /\ Len(SubSeq(str, l + 1, m)) = m - l
  <1>1. ASSUME NEW x \in Nat, NEW y \in Nat, x <= y, y <= q
        PROVE  /\ SubSeq(str, x + 1, y) \in Seq(Nat) /\ Len(SubSeq(str, x + 1, y)) = y - x
               /\ \A i \in 1 .. y - x : SubSeq(str, x + 1, y)[i] = str[x + i]
    <2>1. /\ x + 1 \in Int /\ y \in Int /\ y - (x + 1) + 1 = y - x
          /\ (IF x + 1 <= y THEN y - (x + 1) + 1 ELSE 0) = y - x
          /\ \A i \in 1 .. y - x : (x + 1) + i - 1 = x + i
      BY <1>1
    <2>2. \A i \in x + 1 .. y : str[i] \in Nat
      BY <1>1
    <2>3. /\ SubSeq(str, x + 1, y) \in Seq(Nat)
          /\ Len(SubSeq(str, x + 1, y)) = IF x + 1 <= y THEN y - (x + 1) + 1 ELSE 0
          /\ \A i \in 1 .. y - (x + 1) + 1 : SubSeq(str, x + 1, y)[i] = str[(x + 1) + i - 1]
      BY <2>1, <2>2, SubSeqProperties
    <2> QED BY <2>1, <2>3
  <1> DEFINE u == SubSeq(str, l + 1, m)
             v == SubSeq(str, m + 1, q)
             w == SubSeq(str, l + 1, q)
             p == SubSeq(w, (m - l) + 1, q - l)
             c == u \o v
  <1>2. u \in Seq(Nat) /\ Len(u) = m - l /\ \A i \in 1 .. m - l : u[i] = str[l + i]
    BY <1>1
  <1>3. v \in Seq(Nat) /\ Len(v) = q - m /\ \A i \in 1 .. q - m : v[i] = str[m + i]
    BY <1>1
  <1>4. w \in Seq(Nat) /\ Len(w) = q - l /\ \A i \in 1 .. q - l : w[i] = str[l + i]
    <2>1. l <= q /\ q <= q
      OBVIOUS
    <2> QED BY <1>1, <2>1
  <1> HIDE DEF u, v, w
  <1>5. c = w
    <2>1. /\ c \in Seq(Nat) /\ Len(c) = q - l
          /\ \A i \in 1 .. q - l : c[i] = IF i <= m - l THEN u[i] ELSE v[i - (m - l)]
      <3>1. /\ c \in Seq(Nat) /\ Len(c) = Len(u) + Len(v)
            /\ \A i \in 1 .. Len(u) + Len(v) : c[i] = IF i <= Len(u) THEN u[i] ELSE v[i - Len(u)]
        BY <1>2, <1>3, ConcatProperties
      <3>2. Len(u) + Len(v) = q - l
        BY <1>2, <1>3
      <3> QED BY <1>2, <3>1, <3>2
    <2> HIDE DEF c
    <2>2. ASSUME NEW i \in 1 .. q - l PROVE c[i] = w[i]
      <3>1. CASE i <= m - l
        BY <1>2, <1>4, <2>1, <3>1
      <3>2. CASE ~(i <= m - l)
        <4>1. i - (m - l) \in 1 .. q - m /\ m + (i - (m - l)) = l + i
          BY <3>2
        <4> QED BY <1>3, <1>4, <2>1, <3>2, <4>1
      <3> QED BY <3>1, <3>2
    <2> QED BY <1>4, <2>1, <2>2, SeqEqual
  <1>6. p = v
    <2>1. /\ (m - l) + 1 \in Int /\ q - l \in Int
          /\ (q - l) - ((m - l) + 1) + 1 = q - m
          /\ (IF (m - l) + 1 <= q - l THEN (q - l) - ((m - l) + 1) + 1 ELSE 0) = q - m
          /\ \A i \in 1 .. q - m : /\ ((m - l) + 1) + i - 1 \in 1 .. q - l
                                   /\ l + (((m - l) + 1) + i - 1) = m + i
      OBVIOUS
    <2>2. \A i \in (m - l) + 1 .. q - l : w[i] \in Nat
      BY <1>4
    <2>3. /\ p \in Seq(Nat)
          /\ Len(p) = IF (m - l) + 1 <= q - l THEN (q - l) - ((m - l) + 1) + 1 ELSE 0
          /\ \A i \in 1 .. (q - l) - ((m - l) + 1) + 1 : p[i] = w[((m - l) + 1) + i - 1]
      BY <2>1, <2>2, SubSeqProperties
    <2> HIDE DEF p
    <2>4. \A i \in 1 .. q - m : p[i] = v[i]
      BY <1>3, <1>4, <2>1, <2>3
    <2>5. Len(p) = Len(v)
      BY <1>3, <2>1, <2>3
    <2> QED BY <1>3, <2>3, <2>4, <2>5, SeqEqual
  <1> QED BY <1>2, <1>5, <1>6 DEF u, v, w

(* The frames of two pieces, one after the other.                           *)
LEMMA DecodedOn ==
  ASSUME NEW b, NEW k \in Nat, NEW K \in Nat, k <= K
  PROVE  /\ Decoded(b, 0, k) \o Decoded(b, k, K) = Decoded(b, 0, K)
         /\ Decoded(b, 0, K) \in Seq(Kinds) /\ Len(Decoded(b, 0, K)) = K
         /\ \A i \in 1 .. K : Decoded(b, 0, K)[i] = Decode(b[i])
  <1>1. ASSUME NEW j \in Nat, NEW m \in Nat, j <= m
        PROVE  /\ Decoded(b, j, m) \in Seq(Kinds) /\ Len(Decoded(b, j, m)) = m - j
               /\ \A i \in 1 .. m - j : Decoded(b, j, m)[i] = Decode(b[j + i])
    <2>1. Decoded(b, j, m) \in [1 .. m - j -> Kinds] /\ m - j \in Nat
      BY <1>1, Decodes DEF Decoded
    <2> QED BY <2>1 DEF Decoded
  <1> DEFINE u == Decoded(b, 0, k)
             v == Decoded(b, k, K)
             w == Decoded(b, 0, K)
             c == u \o v
  <1>2. u \in Seq(Kinds) /\ Len(u) = k /\ \A i \in 1 .. k : u[i] = Decode(b[i])
    <2>1. 0 \in Nat /\ 0 <= k /\ k - 0 = k /\ \A i \in 1 .. k : 0 + i = i
      OBVIOUS
    <2> QED BY <1>1, <2>1
  <1>3. v \in Seq(Kinds) /\ Len(v) = K - k /\ \A i \in 1 .. K - k : v[i] = Decode(b[k + i])
    BY <1>1
  <1>4. w \in Seq(Kinds) /\ Len(w) = K /\ \A i \in 1 .. K : w[i] = Decode(b[i])
    <2>1. 0 \in Nat /\ 0 <= K /\ K - 0 = K /\ \A i \in 1 .. K : 0 + i = i
      OBVIOUS
    <2> QED BY <1>1, <2>1
  <1> HIDE DEF u, v, w
  <1>5. /\ c \in Seq(Kinds) /\ Len(c) = K
        /\ \A i \in 1 .. K : c[i] = IF i <= k THEN u[i] ELSE v[i - k]
    <2>1. /\ c \in Seq(Kinds) /\ Len(c) = Len(u) + Len(v)
          /\ \A i \in 1 .. Len(u) + Len(v) : c[i] = IF i <= Len(u) THEN u[i] ELSE v[i - Len(u)]
      BY <1>2, <1>3, ConcatProperties
    <2>2. Len(u) + Len(v) = K
      BY <1>2, <1>3
    <2> QED BY <1>2, <2>1, <2>2
  <1> HIDE DEF c
  <1>6. ASSUME NEW i \in 1 .. K PROVE c[i] = w[i]
    <2>1. CASE i <= k
      BY <1>2, <1>4, <1>5, <2>1
    <2>2. CASE ~(i <= k)
      <3>1. i - k \in 1 .. K - k /\ k + (i - k) = i
        BY <2>2
      <3> QED BY <1>3, <1>4, <1>5, <2>2, <3>1
    <2> QED BY <2>1, <2>2
  <1>7. c = w
    BY <1>4, <1>5, <1>6, SeqEqual
  <1> QED BY <1>4, <1>7 DEF c, u, v, w

(* One more chunk, wherever it is cut.                                      *)
LEMMA Arrival ==
  ASSUME Arrivals, NEW a \in Attempts, NEW n \in 1 .. MaxChunk, Deliver(a, n)
  PROVE  Reassembled(a)'
  <1> DEFINE b == sent[a].bodies
             t == sent[a].tail.bytes
             ends == sent[a].tail.ends
             str == Stream(a)
             s == Starts(b)
             m == fed[a]
             q == fed[a] + n
             chunk == SubSeq(str, m + 1, q)
  <1>1. Lawful(b, t, ends) /\ b \in Seq(Seq(Nat)) /\ t \in Seq(Nat)
    <2>1. Lawful(b, t, ends)
      BY HostsAreLawful DEF Arrivals
    <2> QED BY <2>1 DEF Lawful
  <1>2. Laid(str, s, b, t)
    BY <1>1, StreamIsLaid DEF Stream
  <1>3. /\ str \in Seq(Nat) /\ Len(str) \in Nat /\ Len(b) \in Nat /\ s \in [0 .. Len(b) -> Nat]
    <2>1. str \in Seq(Nat) /\ s \in [0 .. Len(b) -> Nat]
      BY <1>2 DEF Laid
    <2> QED BY <1>1, <2>1
  <1>4. PICK k \in 0 .. Len(b) :
          /\ Complete(s, b, m, k)
          /\ frames[a] = Decoded(b, 0, k)
          /\ reader[a] = [buffer |-> SubSeq(str, s[k] + 1, m), oversize |-> OverCap(s, b, t, m, k)]
    BY DEF Arrivals, Reassembled
  <1>5. ~reader[a].oversize
    BY DEF Deliver, Ready
  <1>6. /\ fed' = [fed EXCEPT ![a] = q] /\ sent' = sent
        /\ frames' = [frames EXCEPT ![a] = @ \o Yielded(reader[a], chunk)]
        /\ reader' = [reader EXCEPT ![a] = Feed(@, chunk)]
        /\ q <= Len(str)
    BY DEF Deliver
  <1>7. /\ m \in Nat /\ n \in Nat /\ q \in Nat /\ m <= q /\ s[k] \in Nat /\ s[k] <= m /\ s[k] <= q /\ q \in 0 .. Len(str)
    <2>1. m \in Nat /\ n \in Nat /\ s[k] \in Nat /\ s[k] <= m
      BY <1>3, <1>4 DEF Arrivals, Complete
    <2> QED BY <1>3, <1>6, <2>1
  <1> HIDE DEF b, t, ends, str, s, m, q
  <1>8. PICK K \in k .. Len(b) : Complete(s, b, q, K)
    BY <1>3, <1>7, CompleteExists
  <1>9. s[K] \in Nat /\ s[k] <= s[K] /\ s[K] <= q /\ K \in Nat /\ k \in Nat /\ k <= K /\ K \in 0 .. Len(b)
    <2>1. K \in Nat /\ k \in Nat /\ k <= K /\ K \in 0 .. Len(b)
      BY <1>3
    <2>2. s[K] \in Nat
      BY <1>3, <2>1
    <2>3. s[k] <= s[K]
      BY <1>1, <1>2, Ascending
    <2> QED BY <1>8, <2>1, <2>2, <2>3 DEF Complete
  <1> DEFINE buffer == SubSeq(str, s[k] + 1, q)
             drained == DrainCompleteFrames(buffer)
  <1>10. /\ reader[a].buffer \o chunk = buffer
         /\ Len(reader[a].buffer) + Len(chunk) = q - s[k]
    <2>1. reader[a].buffer = SubSeq(str, s[k] + 1, m)
      <3>1. PICK rest, over : rest = SubSeq(str, s[k] + 1, m) /\ over = OverCap(s, b, t, m, k)
        OBVIOUS
      <3>2. reader[a] = [buffer |-> rest, oversize |-> over]
        BY <1>4, <3>1, Zenon
      <3>3. reader[a].buffer = rest
        BY <3>2
      <3> QED BY <3>1, <3>3, Zenon
    <2>2. SubSeq(str, s[k] + 1, m) \o SubSeq(str, m + 1, q) = SubSeq(str, s[k] + 1, q)
          /\ Len(SubSeq(str, s[k] + 1, m)) = m - s[k]
      <3>1. str \in Seq(Nat) /\ s[k] \in Nat /\ m \in Nat /\ q \in Nat /\ s[k] <= m /\ m <= q /\ q <= Len(str)
        BY <1>3, <1>6, <1>7
      <3> QED BY <3>1, Pieces, Zenon
    <2>3. Len(SubSeq(str, m + 1, q)) = q - m
      <3>1. str \in Seq(Nat) /\ m \in Nat /\ q \in Nat /\ m <= q /\ q <= q /\ q <= Len(str)
        BY <1>3, <1>6, <1>7
      <3> QED BY <3>1, Pieces, Zenon
    <2>4. (m - s[k]) + (q - m) = q - s[k]
      BY <1>7
    <2> QED BY <2>1, <2>2, <2>3, <2>4, Zenon DEF chunk, buffer
  <1>11. drained = [frames |-> Decoded(b, k, K), rest |-> s[K] - s[k], oversize |-> OverCap(s, b, t, q, K)]
    BY <1>1, <1>2, <1>6, <1>7, <1>8, DrainSlice
  <1>12. /\ Yielded(reader[a], chunk) = drained.frames
         /\ Feed(reader[a], chunk) = [buffer |-> SubSeq(buffer, drained.rest + 1, q - s[k]), oversize |-> drained.oversize]
    <2> HIDE DEF buffer, chunk
    <2> QED BY <1>5, <1>10 DEF Yielded, Feed
  <1>13. frames'[a] = Decoded(b, 0, K)
    <2>1. frames'[a] = frames[a] \o Yielded(reader[a], chunk)
      BY <1>6 DEF Arrivals
    <2>2. drained.frames = Decoded(b, k, K)
      <3>1. PICK u, r, over : u = Decoded(b, k, K) /\ r = s[K] - s[k] /\ over = OverCap(s, b, t, q, K)
        OBVIOUS
      <3> HIDE DEF drained
      <3>2. drained = [frames |-> u, rest |-> r, oversize |-> over]
        BY <1>11, <3>1, Zenon
      <3>3. drained.frames = u
        BY <3>2
      <3> QED BY <3>1, <3>3, Zenon
    <2>3. Decoded(b, 0, k) \o Decoded(b, k, K) = Decoded(b, 0, K)
      BY <1>9, DecodedOn
    <2> HIDE DEF drained, chunk
    <2> QED BY <1>4, <1>12, <2>1, <2>2, <2>3, Zenon
  <1>14. reader'[a] = [buffer |-> SubSeq(str, s[K] + 1, q), oversize |-> OverCap(s, b, t, q, K)]
    <2>1. SubSeq(buffer, (s[K] - s[k]) + 1, q - s[k]) = SubSeq(str, s[K] + 1, q)
      <3>1. str \in Seq(Nat) /\ s[k] \in Nat /\ s[K] \in Nat /\ q \in Nat /\ s[k] <= s[K] /\ s[K] <= q /\ q <= Len(str)
        BY <1>3, <1>6, <1>7, <1>9
      <3> QED BY <3>1, Pieces, Zenon
    <2>2. reader'[a] = Feed(reader[a], chunk)
      BY <1>6 DEF Arrivals
    <2>3. drained.rest = s[K] - s[k] /\ drained.oversize = OverCap(s, b, t, q, K)
      BY <1>11
    <2> HIDE DEF buffer, drained
    <2> QED BY <1>12, <2>1, <2>2, <2>3
  <1>15. fed'[a] = q /\ sent'[a] = sent[a]
    BY <1>6 DEF Arrivals
  <1>16. sent[a].bodies' = b /\ sent[a].tail.bytes' = t /\ Starts(sent[a].bodies)' = s /\ Stream(a)' = str
    BY <1>6 DEF b, t, s, str, Stream
  <1> QED BY <1>7, <1>8, <1>9, <1>13, <1>14, <1>15, <1>16 DEF Reassembled

(* Nothing has arrived at first.                                            *)
LEMMA InitArrivals ==
  ASSUME Init PROVE Arrivals
  <1>1. fed \in [Attempts -> Nat] /\ DOMAIN frames = Attempts /\ DOMAIN reader = Attempts
    BY DEF Init
  <1>2. ASSUME NEW a \in Attempts PROVE sent[a] \in Hosts[a]
    BY DEF Init
  <1>3. ASSUME NEW a \in Attempts PROVE Reassembled(a)
    <2> DEFINE b == sent[a].bodies
               t == sent[a].tail.bytes
               str == Stream(a)
               s == Starts(b)
    <2>1. b \in Seq(Seq(Nat)) /\ t \in Seq(Nat)
      <3>1. Lawful(b, t, sent[a].tail.ends)
        BY <1>2, HostsAreLawful
      <3> QED BY <3>1 DEF Lawful
    <2>2. Laid(str, s, b, t)
      BY <2>1, StreamIsLaid DEF Stream
    <2>3. fed[a] = 0 /\ frames[a] = <<>> /\ reader[a] = [buffer |-> <<>>, oversize |-> FALSE]
      BY DEF Init, EmptyReader
    <2> HIDE DEF b, t, str, s
    <2>4. Len(b) \in Nat /\ str \in Seq(Nat) /\ Len(str) \in Nat /\ s \in [0 .. Len(b) -> Nat] /\ s[0] = 0
      <3>1. str \in Seq(Nat) /\ s \in [0 .. Len(b) -> Nat] /\ s[0] = 0
        BY <2>2 DEF Laid
      <3> QED BY <2>1, <3>1
    <2>5. ASSUME 0 < Len(b) PROVE 0 < s[0 + 1]
      <3>1. 0 \in 0 .. Len(b) - 1
        BY <2>4, <2>5
      <3>2. s[0 + 1] = s[0] + 2 + Len(b[0 + 1])
        BY <2>2, <3>1 DEF Laid
      <3>3. 0 + 1 \in 1 .. Len(b)
        BY <2>4, <2>5
      <3>4. Len(b[0 + 1]) \in Nat
        BY <2>1, <3>3
      <3> QED BY <2>4, <3>2, <3>4
    <2>6. Complete(s, b, 0, 0) /\ 0 \in 0 .. Len(b)
      BY <2>4, <2>5 DEF Complete
    <2>7. Decoded(b, 0, 0) = <<>>
      BY DEF Decoded
    <2>8. OverCap(s, b, t, 0, 0) = FALSE
      BY <2>4 DEF OverCap
    <2>9. SubSeq(str, s[0] + 1, 0) = <<>>
      BY <2>4
    <2>10. reader[a] = [buffer |-> SubSeq(str, s[0] + 1, 0), oversize |-> OverCap(s, b, t, 0, 0)]
      BY <2>3, <2>8, <2>9
    <2>11. 0 \in 0 .. Len(str)
      BY <2>4
    <2> QED BY <2>3, <2>6, <2>7, <2>10, <2>11 DEF Reassembled, b, t, str, s
  <1> QED BY <1>1, <1>2, <1>3 DEF Arrivals

(* An attempt of which nothing arrives stays as it is.                      *)
LEMMA NothingArrives ==
  ASSUME NEW a \in Attempts, Reassembled(a), sent' = sent, fed'[a] = fed[a],
         frames'[a] = frames[a], reader'[a] = reader[a]
  PROVE  Reassembled(a)'
  BY DEF Reassembled, Stream

(* No other step touches what has arrived.                                  *)
LEMMA ArrivalsStep ==
  ASSUME Arrivals, [Next]_vars PROVE Arrivals'
  <1>1. CASE UNCHANGED <<sent, fed, reader, frames>>
    <2>1. \A a \in Attempts : Reassembled(a)'
      BY <1>1, NothingArrives DEF Arrivals
    <2> QED BY <1>1, <2>1 DEF Arrivals
  <1>2. ASSUME NEW a \in Attempts, NEW n \in 1 .. MaxChunk, Deliver(a, n) PROVE Arrivals'
    <2>1. /\ fed' = [fed EXCEPT ![a] = @ + n] /\ sent' = sent
          /\ DOMAIN frames' = DOMAIN frames /\ DOMAIN reader' = DOMAIN reader
          /\ \A c \in Attempts \ {a} : frames'[c] = frames[c] /\ reader'[c] = reader[c]
      BY <1>2 DEF Deliver, Arrivals
    <2>2. fed' \in [Attempts -> Nat]
      BY <2>1 DEF Arrivals
    <2>3. ASSUME NEW c \in Attempts PROVE Reassembled(c)'
      <3>1. CASE c = a
        BY <1>2, <3>1, Arrival
      <3>2. CASE c # a
        <4>1. fed'[c] = fed[c]
          BY <2>1, <3>2 DEF Arrivals
        <4> QED BY <2>1, <3>2, <4>1, NothingArrives DEF Arrivals
      <3> QED BY <3>1, <3>2
    <2> QED BY <2>1, <2>2, <2>3 DEF Arrivals
  <1>3. CASE Next
    <2>1. ASSUME NEW a \in Attempts, NEW e \in {"direct", "bin", "bridge"}, Start(a, e) PROVE Arrivals'
      BY <1>1, <2>1 DEF Start
    <2>2. ASSUME NEW a \in Attempts, BridgeMismatch(a) PROVE Arrivals'
      BY <1>1, <2>2 DEF BridgeMismatch, io
    <2>3. ASSUME NEW a \in Attempts, Advance(a) PROVE Arrivals'
      <3>1. CASE UNCHANGED io
        BY <1>1, <3>1 DEF io
      <3>2. CASE Close(a)
        BY <1>1, <3>2 DEF Close
      <3>3. CASE ~UNCHANGED io /\ ~Close(a)
        BY <1>2, <2>3, <3>3 DEF Advance, Own, Author, Host, Arguments, Greeting, Probe, Import, Request, AuthorFails,
                                Answer, Timeout
      <3> QED BY <3>1, <3>2, <3>3
    <2>4. CASE Say
      BY <1>1, <2>4 DEF Say, io
    <2> QED BY <1>3, <2>1, <2>2, <2>3, <2>4 DEF Next
  <1>4. CASE UNCHANGED vars
    BY <1>1, <1>4 DEF vars, io
  <1> QED BY <1>3, <1>4

(* With all of a stream, all of its frames, and the end it has.             *)
LEMMA ArrivalsSuffice ==
  ASSUME Arrivals PROVE ChunksDoNotMatter
  <1> SUFFICES ASSUME NEW a \in Attempts
               PROVE  /\ frames[a] = [i \in 1..Len(frames[a]) |-> Decode(sent[a].bodies[i])]
                      /\ fed[a] = Len(Stream(a)) =>
                           /\ Len(frames[a]) = Len(sent[a].bodies)
                           /\ StreamEnd(reader[a]) = sent[a].tail.ends
    BY DEF ChunksDoNotMatter
  <1> DEFINE b == sent[a].bodies
             t == sent[a].tail.bytes
             ends == sent[a].tail.ends
             str == Stream(a)
             s == Starts(b)
             q == fed[a]
  <1>1. Lawful(b, t, ends) /\ b \in Seq(Seq(Nat)) /\ t \in Seq(Nat)
    <2>1. Lawful(b, t, ends)
      BY HostsAreLawful DEF Arrivals
    <2> QED BY <2>1 DEF Lawful
  <1>2. Laid(str, s, b, t)
    BY <1>1, StreamIsLaid DEF Stream
  <1>3. PICK K \in 0 .. Len(b) :
          /\ Complete(s, b, q, K)
          /\ frames[a] = Decoded(b, 0, K)
          /\ reader[a] = [buffer |-> SubSeq(str, s[K] + 1, q), oversize |-> OverCap(s, b, t, q, K)]
    BY DEF Arrivals, Reassembled
  <1> HIDE DEF b, t, ends, str, s, q
  <1>4. K \in Nat /\ Len(b) \in Nat
    BY <1>1
  <1>5. frames[a] = [i \in 1..Len(frames[a]) |-> Decode(b[i])] /\ Len(frames[a]) = K
    <2>1. /\ Len(Decoded(b, 0, K)) = K /\ \A i \in 1 .. K : 0 + i = i
      BY <1>4, DecodedOn
    <2>2. Decoded(b, 0, K) = [i \in 1 .. K |-> Decode(b[i])]
      BY <1>4, <2>1 DEF Decoded
    <2> QED BY <1>3, <2>1, <2>2
  <1>6. ASSUME q = Len(str) PROVE K = Len(b) /\ StreamEnd(reader[a]) = ends
    <2>1. K = Len(b)
      <3>1. ASSUME K < Len(b) PROVE FALSE
        <4>1. K \in 0 .. Len(b) - 1 /\ K + 1 \in 0 .. Len(b)
          BY <1>4, <3>1
        <4>2. s[K + 1] <= Len(str) /\ s \in [0 .. Len(b) -> Nat] /\ str \in Seq(Nat)
          BY <1>2, <4>1 DEF Laid
        <4>3. q < s[K + 1]
          BY <1>3, <3>1 DEF Complete
        <4> QED BY <1>6, <4>1, <4>2, <4>3
      <3> QED BY <1>4, <3>1
    <2>2. /\ str \in Seq(Nat) /\ s[K] \in Nat /\ Len(t) \in Nat /\ Len(str) = s[K] + Len(t)
      BY <1>1, <1>2, <1>4, <2>1 DEF Laid
    <2> DEFINE rest == SubSeq(str, s[K] + 1, Len(str))
    <2>3. rest = <<>> <=> t = <<>>
      <3>1. Len(rest) = Len(str) - s[K]
        <4>1. s[K] <= Len(str) /\ Len(str) <= Len(str) /\ Len(str) \in Nat
          BY <2>2
        <4> QED BY <2>2, <4>1, Pieces
      <3>2. rest \in Seq(Nat)
        <4>1. s[K] + 1 \in Int /\ Len(str) \in Int
          BY <2>2
        <4>2. \A x \in s[K] + 1 .. Len(str) : str[x] \in Nat
          <5>1. \A x \in s[K] + 1 .. Len(str) : x \in 1 .. Len(str)
            BY <2>2
          <5>2. \A x \in 1 .. Len(str) : str[x] \in Nat
            BY <2>2
          <5> QED BY <5>1, <5>2, Zenon
        <4> QED BY <4>1, <4>2, SubSeqProperties, Zenon
      <3> HIDE DEF rest
      <3>3. Len(rest) = Len(t)
        BY <2>2, <3>1
      <3> QED BY <1>1, <3>2, <3>3
    <2>4. OverCap(s, b, t, q, K) <=> Len(t) >= 2 /\ t[1] * Base + t[2] > Cap
      <3>1. q >= s[K] + 2 <=> Len(t) >= 2
        BY <1>6, <2>2
      <3> QED BY <2>1, <3>1 DEF OverCap
    <2>5. PICK over : over = OverCap(s, b, t, q, K)
      OBVIOUS
    <2>6. reader[a].buffer = rest /\ reader[a].oversize = over
      <3>1. reader[a] = [buffer |-> rest, oversize |-> over]
        BY <1>3, <1>6, <2>5, Zenon
      <3> HIDE DEF rest
      <3> QED BY <3>1
    <2>7. EndOfStream(t, ends) /\ ends \in {"clean", "short", "oversize"}
      BY <1>1 DEF Lawful
    <2> HIDE DEF rest
    <2>8. CASE ends = "clean"
      <3>1. t = <<>>
        BY <2>7, <2>8 DEF EndOfStream
      <3>2. OverCap(s, b, t, q, K) = FALSE
        BY <2>4, <3>1
      <3> QED BY <2>1, <2>3, <2>5, <2>6, <2>8, <3>1, <3>2 DEF StreamEnd
    <2>9. CASE ends = "short"
      <3>1. t # <<>> /\ ~(Len(t) >= 2 /\ t[1] * Base + t[2] > Cap)
        <4>1. t # <<>> /\ (Len(t) >= 2 => t[1] * Base + t[2] <= Cap)
          BY <2>7, <2>9 DEF EndOfStream, Prefix
        <4>2. ASSUME Len(t) >= 2 PROVE t[1] * Base + t[2] \in Nat
          <5>1. t[1] \in Nat /\ t[2] \in Nat
            BY <1>1, <4>2
          <5>2. t[1] * Base \in Nat
            BY <5>1, Bases, Products, Zenon
          <5> QED BY <5>1, <5>2
        <4> QED BY <4>1, <4>2, Bases
      <3>2. OverCap(s, b, t, q, K) = FALSE
        BY <2>4, <3>1
      <3> QED BY <2>1, <2>3, <2>5, <2>6, <2>9, <3>1, <3>2 DEF StreamEnd
    <2>10. CASE ends = "oversize"
      <3>1. Len(t) >= 2 /\ t[1] * Base + t[2] > Cap
        BY <2>7, <2>10 DEF EndOfStream, Prefix
      <3>2. OverCap(s, b, t, q, K) = TRUE
        BY <2>4, <3>1 DEF OverCap
      <3> QED BY <2>1, <2>5, <2>6, <2>10, <3>2 DEF StreamEnd
    <2> QED BY <2>7, <2>8, <2>9, <2>10
  <1> QED BY <1>5, <1>6 DEF b, t, ends, str, s, q

(* Whatever the host writes, and however it is cut into chunks.             *)
THEOREM ChunksAreImmaterial == Spec => []ChunksDoNotMatter
  BY InitArrivals, ArrivalsStep, ArrivalsSuffice, PTL DEF Spec

=============================================================================
