---------------------------- MODULE CommandsProofs ----------------------------
(***************************************************************************)
(* Proofs about Commands for any aliases, secrets, processes and keyrings.    *)
(*                                                                         *)
(* The argument.  What a process still has to take is a program's end, of      *)
(* which the proof keeps only what may come right after what, so that a step   *)
(* knows the one before it: a save comes after a login, a listing or a         *)
(* confirmed delete, and what it is about is sound since then.  An entry that   *)
(* is loaded is sound because what is saved is.  What only one process writes   *)
(* is not disturbed by the others; the two files are, at any of their steps.    *)
(***************************************************************************)
EXTENDS Commands, TLAPS

Steps ==
  Preliminary \cup CanFail \cup Asks \cup Inputs \cup {"confirm", "pending", "run", "send", "done"}

Elements(s) == {s[i] : i \in 1..Len(s)}

\* A step and the next of the same program.
Follows(x, y) ==
  /\ y = "login" => x \in {"ask email", "edit email"}
  /\ y = "probe" => x \in {"ask bucket", "edit bucket"}
  /\ y = "list bucket" => x = "probe"
  /\ y = "cap" => x = "login"
  /\ y = "truncate" => x \in {"cap", "list bucket", "agree"}
  /\ y = "write" => x = "truncate"
  /\ x = "run" => y = "send"
  /\ x # "send"

InOrder(s) == \A i \in 1..(Len(s) - 1) : Follows(s[i], s[i + 1])

\* Nothing has to come before the step x.
Opening(x) == x \notin {"login", "probe", "list bucket", "cap", "truncate", "write", "send"}

Good == {"saved", "listed", "cancelled", "nothing", "whole"}
Bad == {"none", "unprotected", "failures", "ledger behind", "error"}
Exits == {"none", "success", "failure", "killed"}

FilesType == keyring \in [Aliases -> Entries] /\ probe = [p \in Processes |-> probe[p]]

SessionType ==
  /\ command \in [Processes -> DOMAIN Programs \cup {"none"}]
  /\ terminal \in [Processes -> BOOLEAN] /\ nonInteractive \in [Processes -> BOOLEAN]
  /\ environment \in [Processes -> [Aliases -> Injections \cup {"unset"}]]
  /\ todo \in [Processes -> Seq(Steps)]
  /\ store \in [Processes -> [Aliases -> Entries]]
  /\ about \in [Processes -> Aliases \cup {"none"}] /\ candidate \in [Processes -> Entries]
  /\ exit \in [Processes -> Exits]

OutcomeType == outcome \in [Processes -> Good \cup Bad]

TypeInv == FilesType /\ SessionType /\ OutcomeType /\ started \in 0..MaxCommands

\* What is in the files, or loaded from one, is sound.
SoundInv ==
  /\ OnlyVerifiedIsUsed
  /\ \A p \in Processes : \A a \in Aliases : Sound(store[p][a])

\* What a process has in hand at a step is what the steps before made it.
Ready(p) ==
  /\ At(p, "login") => candidate[p].kind = "email" /\ candidate[p].security \in {"tls", "starttls"}
  /\ At(p, "probe") \/ At(p, "list bucket") =>
       /\ about[p] \in Aliases /\ candidate[p].kind = "bucket"
       /\ candidate[p].injected = environment[p][about[p]]
  /\ At(p, "list bucket") =>
       probe[p][about[p]].secret = SecretFor(candidate[p].injected, candidate[p].secret)
  /\ At(p, "cap") \/ At(p, "truncate") \/ At(p, "write") => Sound(candidate[p])
  /\ Running(p) /\ ~At(p, "send") => outcome[p] = "none"
  /\ At(p, "send") => outcome[p] \in Bad \cup {"whole"}

\* A job is past its confirmation with its user or --non-interactive.
Confirmed(p) ==
  Running(p) /\ command[p] \in Jobs \ {"email_scan"} /\ "confirm" \notin Elements(todo[p])
    => terminal[p] \/ nonInteractive[p]

\* An exit code tells of the outcome, and ends the command.
Ended(p) ==
  /\ exit[p] = "success" => outcome[p] \in Good
  /\ exit[p] = "failure" => outcome[p] \in Bad
  /\ exit[p] # "none" => ~Running(p)

ProcessInv(p) == InOrder(todo[p]) /\ Ready(p) /\ Confirmed(p) /\ Ended(p)

CommandsInv == TypeInv /\ SoundInv /\ \A p \in Processes : ProcessInv(p)

-----------------------------------------------------------------------------
(* The programs. *)

\* A part of a program that begins with a and ends with b.
Piece(s, a, b) ==
  /\ s \in Seq(Steps) /\ s # <<>> /\ InOrder(s)
  /\ Head(s) = a /\ s[Len(s)] = b

\* One step.
LEMMA One == ASSUME NEW a \in Steps PROVE Piece(<<a>>, a, a)
BY DEF Piece, InOrder

\* Two steps.
LEMMA Two ==
  ASSUME NEW a \in Steps, NEW b \in Steps, Follows(a, b)
  PROVE  Piece(<<a, b>>, a, b)
<1>1. \A i \in 1..1 : i = 1
  OBVIOUS
<1> QED
  BY <1>1 DEF Piece, InOrder

\* Three steps.
LEMMA Three ==
  ASSUME NEW a \in Steps, NEW b \in Steps, NEW c \in Steps, Follows(a, b), Follows(b, c)
  PROVE  Piece(<<a, b, c>>, a, c)
<1>1. \A i \in 1..2 : i = 1 \/ i = 2
  OBVIOUS
<1> QED
  BY <1>1 DEF Piece, InOrder

\* Four steps.
LEMMA Four ==
  ASSUME NEW a \in Steps, NEW b \in Steps, NEW c \in Steps, NEW d \in Steps,
         Follows(a, b), Follows(b, c), Follows(c, d)
  PROVE  Piece(<<a, b, c, d>>, a, d)
<1>1. \A i \in 1..3 : i = 1 \/ i = 2 \/ i = 3
  OBVIOUS
<1> QED
  BY <1>1 DEF Piece, InOrder

\* Five steps.
LEMMA Five ==
  ASSUME NEW a \in Steps, NEW b \in Steps, NEW c \in Steps, NEW d \in Steps, NEW e \in Steps,
         Follows(a, b), Follows(b, c), Follows(c, d), Follows(d, e)
  PROVE  Piece(<<a, b, c, d, e>>, a, e)
<1>1. \A i \in 1..4 : i = 1 \/ i = 2 \/ i = 3 \/ i = 4
  OBVIOUS
<1> QED
  BY <1>1 DEF Piece, InOrder

\* One part after another, where the second's first step may follow.
LEMMA Join ==
  ASSUME NEW s, NEW t, NEW a, NEW b, NEW c, NEW d, Piece(s, a, b), Piece(t, c, d), Follows(b, c)
  PROVE  /\ Piece(s \o t, a, d)
         /\ Elements(t) \subseteq Elements(s \o t) /\ Elements(s) \subseteq Elements(s \o t)
<1>0. /\ s \in Seq(Steps) /\ t \in Seq(Steps) /\ s # <<>> /\ t # <<>>
      /\ Len(s) \in Nat \ {0} /\ Len(t) \in Nat \ {0}
  BY DEF Piece
<1>1. s \o t \in Seq(Steps) /\ Len(s \o t) = Len(s) + Len(t)
  BY <1>0
<1>2. \A i \in 1..Len(s) : (s \o t)[i] = s[i]
  BY <1>0
<1>3. \A i \in 1..Len(t) : (s \o t)[i + Len(s)] = t[i]
  BY <1>0
<1>4. ASSUME NEW i \in 1..(Len(s \o t) - 1) PROVE Follows((s \o t)[i], (s \o t)[i + 1])
  <2>1. CASE i < Len(s)
    BY <1>0, <1>2, <2>1 DEF Piece, InOrder
  <2>2. CASE i = Len(s)
    <3>1. (s \o t)[i] = b
      BY <1>0, <1>2, <2>2 DEF Piece
    <3>2. (s \o t)[i + 1] = t[1] /\ t[1] = c
      BY <1>0, <1>3, <2>2 DEF Piece
    <3> QED
      BY <3>1, <3>2
  <2>3. CASE i > Len(s)
    <3>1. i - Len(s) \in 1..(Len(t) - 1)
      BY <1>0, <1>1, <2>3
    <3>2. (s \o t)[i] = t[i - Len(s)]
      BY <1>0, <1>3, <3>1
    <3>3. (s \o t)[i + 1] = t[i - Len(s) + 1]
      BY <1>0, <1>1, <2>3
    <3> QED
      BY <3>1, <3>2, <3>3 DEF Piece, InOrder
  <2> QED
    BY <1>0, <2>1, <2>2, <2>3
<1>5. \A i \in 1..Len(t) : i + Len(s) \in 1..Len(s \o t)
  BY <1>0, <1>1
<1>6. \A i \in 1..Len(s) : i \in 1..Len(s \o t)
  BY <1>0, <1>1
<1>7. Elements(t) \subseteq Elements(s \o t) /\ Elements(s) \subseteq Elements(s \o t)
  BY <1>2, <1>3, <1>5, <1>6 DEF Elements
<1> QED
  BY <1>0, <1>1, <1>2, <1>3, <1>4, <1>7 DEF Piece, InOrder

\* A part with the step that is its last or its first.
LEMMA Ends ==
  ASSUME NEW s, NEW a, NEW b, Piece(s, a, b)
  PROVE  a \in Elements(s) /\ b \in Elements(s)
<1>1. s \in Seq(Steps) /\ Len(s) \in Nat \ {0} /\ s[1] = a /\ s[Len(s)] = b
  BY DEF Piece
<1> QED
  BY <1>1 DEF Elements

\* The steps are steps.
LEMMA StepsAre ==
  {"load", "available", "truncate conf", "write conf", "begin", "run", "send", "truncate",
   "write", "ask email", "ask bucket", "edit email", "edit bucket", "agree", "login",
   "probe", "list bucket", "done", "target", "rest", "confirm", "kind", "converter",
   "gather", "bucket", "pending", "identity", "cap"} \subseteq Steps
BY DEF Steps, Preliminary, CanFail, Asks, Inputs

\* The parts that programs share.
LEMMA Parts ==
  /\ Piece(Save, "truncate", "write") /\ Piece(Prepare, "load", "write conf")
  /\ Piece(Finish, "begin", "send")
<1>1. Piece(<<"truncate", "write">>, "truncate", "write")
  <2>1. "truncate" \in Steps /\ "write" \in Steps
    BY StepsAre
  <2>2. Follows("truncate", "write")
    BY DEF Follows
  <2> QED
    BY <2>1, <2>2, Two
<1>2. Piece(<<"load", "available", "truncate conf", "write conf">>, "load", "write conf")
  <2>1. "load" \in Steps /\ "available" \in Steps /\ "truncate conf" \in Steps /\ "write conf"
      \in Steps
    BY StepsAre
  <2>2. Follows("load", "available") /\ Follows("available", "truncate conf") /\
      Follows("truncate conf", "write conf")
    BY DEF Follows
  <2> QED
    BY <2>1, <2>2, Four
<1>3. Piece(<<"begin", "run", "send">>, "begin", "send")
  <2>1. "begin" \in Steps /\ "run" \in Steps /\ "send" \in Steps
    BY StepsAre
  <2>2. Follows("begin", "run") /\ Follows("run", "send")
    BY DEF Follows
  <2> QED
    BY <2>1, <2>2, Three
<1> QED
  BY <1>1, <1>2, <1>3 DEF Save, Prepare, Finish

\* AddEmail.
LEMMA AddEmailPiece ==
  Piece(AddEmail, "load", "write")
<1>1. Piece(<<"load", "ask email", "login", "cap">>, "load", "cap")
  <2>1. "load" \in Steps /\ "ask email" \in Steps /\ "login" \in Steps /\ "cap" \in Steps
    BY StepsAre
  <2>2. Follows("load", "ask email") /\ Follows("ask email", "login") /\ Follows("login", "cap")
    BY DEF Follows
  <2> QED
    BY <2>1, <2>2, Four
<1>2. Piece(<<"load", "ask email", "login", "cap">> \o Save, "load", "write")
  <2>1. Follows("cap", "truncate")
    BY DEF Follows
  <2> QED
    BY <1>1, Parts, <2>1, Join
<1> QED
  BY <1>2 DEF AddEmail

\* AddBucket.
LEMMA AddBucketPiece ==
  Piece(AddBucket, "load", "write")
<1>1. Piece(<<"load", "ask bucket", "probe", "list bucket">>, "load", "list bucket")
  <2>1. "load" \in Steps /\ "ask bucket" \in Steps /\ "probe" \in Steps /\ "list bucket" \in
      Steps
    BY StepsAre
  <2>2. Follows("load", "ask bucket") /\ Follows("ask bucket", "probe") /\ Follows("probe",
      "list bucket")
    BY DEF Follows
  <2> QED
    BY <2>1, <2>2, Four
<1>2. Piece(<<"load", "ask bucket", "probe", "list bucket">> \o Save, "load", "write")
  <2>1. Follows("list bucket", "truncate")
    BY DEF Follows
  <2> QED
    BY <1>1, Parts, <2>1, Join
<1> QED
  BY <1>2 DEF AddBucket

\* ModifyEmail.
LEMMA ModifyEmailPiece ==
  Piece(ModifyEmail, "load", "write")
<1>1. Piece(<<"load", "edit email", "login", "cap">>, "load", "cap")
  <2>1. "load" \in Steps /\ "edit email" \in Steps /\ "login" \in Steps /\ "cap" \in Steps
    BY StepsAre
  <2>2. Follows("load", "edit email") /\ Follows("edit email", "login") /\ Follows("login", "cap")
    BY DEF Follows
  <2> QED
    BY <2>1, <2>2, Four
<1>2. Piece(<<"load", "edit email", "login", "cap">> \o Save, "load", "write")
  <2>1. Follows("cap", "truncate")
    BY DEF Follows
  <2> QED
    BY <1>1, Parts, <2>1, Join
<1> QED
  BY <1>2 DEF ModifyEmail

\* ModifyBucket.
LEMMA ModifyBucketPiece ==
  Piece(ModifyBucket, "load", "write")
<1>1. Piece(<<"load", "edit bucket", "probe", "list bucket">>, "load", "list bucket")
  <2>1. "load" \in Steps /\ "edit bucket" \in Steps /\ "probe" \in Steps /\ "list bucket" \in
      Steps
    BY StepsAre
  <2>2. Follows("load", "edit bucket") /\ Follows("edit bucket", "probe") /\ Follows("probe",
      "list bucket")
    BY DEF Follows
  <2> QED
    BY <2>1, <2>2, Four
<1>2. Piece(<<"load", "edit bucket", "probe", "list bucket">> \o Save, "load", "write")
  <2>1. Follows("list bucket", "truncate")
    BY DEF Follows
  <2> QED
    BY <1>1, Parts, <2>1, Join
<1> QED
  BY <1>2 DEF ModifyBucket

\* Delete.
LEMMA DeletePiece ==
  Piece(Delete, "load", "write")
<1>1. Piece(<<"load", "agree">>, "load", "agree")
  <2>1. "load" \in Steps /\ "agree" \in Steps
    BY StepsAre
  <2>2. Follows("load", "agree")
    BY DEF Follows
  <2> QED
    BY <2>1, <2>2, Two
<1>2. Piece(<<"load", "agree">> \o Save, "load", "write")
  <2>1. Follows("agree", "truncate")
    BY DEF Follows
  <2> QED
    BY <1>1, Parts, <2>1, Join
<1> QED
  BY <1>2 DEF Delete

\* List.
LEMMA ListPiece ==
  Piece(List, "load", "done")
<1>1. Piece(<<"load", "done">>, "load", "done")
  <2>1. "load" \in Steps /\ "done" \in Steps
    BY StepsAre
  <2>2. Follows("load", "done")
    BY DEF Follows
  <2> QED
    BY <2>1, <2>2, Two
<1> QED
  BY <1>1 DEF List

\* CopyJob.
LEMMA CopyJobPiece ==
  Piece(CopyJob, "load", "send") /\ "confirm" \in Elements(CopyJob)
<1>1. Piece(<<"target", "rest", "confirm">>, "target", "confirm")
  <2>1. "target" \in Steps /\ "rest" \in Steps /\ "confirm" \in Steps
    BY StepsAre
  <2>2. Follows("target", "rest") /\ Follows("rest", "confirm")
    BY DEF Follows
  <2> QED
    BY <2>1, <2>2, Three
<1>2. "confirm" \in Elements(<<"target", "rest", "confirm">>)
  BY <1>1, Ends
<1>3. Piece(Prepare \o <<"target", "rest", "confirm">>, "load", "confirm") /\ "confirm" \in
    Elements(Prepare \o <<"target", "rest", "confirm">>)
  <2>1. Follows("write conf", "target")
    BY DEF Follows
  <2> QED
    BY Parts, <1>1, <2>1, Join, <1>2
<1>4. Piece(Prepare \o <<"target", "rest", "confirm">> \o Finish, "load", "send") /\ "confirm"
    \in Elements(Prepare \o <<"target", "rest", "confirm">> \o Finish)
  <2>1. Follows("confirm", "begin")
    BY DEF Follows
  <2> QED
    BY <1>3, Parts, <2>1, Join, <1>3
<1> QED
  BY <1>4 DEF CopyJob

\* TransformAsks.
LEMMA TransformAsksPiece ==
  Piece(TransformAsks, "kind", "confirm") /\ "confirm" \in Elements(TransformAsks)
<1>1. Piece(<<"kind", "converter">>, "kind", "converter")
  <2>1. "kind" \in Steps /\ "converter" \in Steps
    BY StepsAre
  <2>2. Follows("kind", "converter")
    BY DEF Follows
  <2> QED
    BY <2>1, <2>2, Two
<1>2. Piece(<<"target", "rest", "confirm">>, "target", "confirm")
  <2>1. "target" \in Steps /\ "rest" \in Steps /\ "confirm" \in Steps
    BY StepsAre
  <2>2. Follows("target", "rest") /\ Follows("rest", "confirm")
    BY DEF Follows
  <2> QED
    BY <2>1, <2>2, Three
<1>3. Piece(<<"kind", "converter">> \o Prepare, "kind", "write conf")
  <2>1. Follows("converter", "load")
    BY DEF Follows
  <2> QED
    BY <1>1, Parts, <2>1, Join
<1>4. "confirm" \in Elements(<<"target", "rest", "confirm">>)
  BY <1>2, Ends
<1>5. Piece(<<"kind", "converter">> \o Prepare \o <<"target", "rest", "confirm">>, "kind",
    "confirm") /\ "confirm" \in Elements(<<"kind", "converter">> \o Prepare \o <<"target",
    "rest", "confirm">>)
  <2>1. Follows("write conf", "target")
    BY DEF Follows
  <2> QED
    BY <1>3, <1>2, <2>1, Join, <1>4
<1> QED
  BY <1>5 DEF TransformAsks

\* TransformRuns.
LEMMA TransformRunsPiece ==
  Piece(TransformRuns, "begin", "send")
<1>1. Piece(<<"begin", "gather", "run", "send">>, "begin", "send")
  <2>1. "begin" \in Steps /\ "gather" \in Steps /\ "run" \in Steps /\ "send" \in Steps
    BY StepsAre
  <2>2. Follows("begin", "gather") /\ Follows("gather", "run") /\ Follows("run", "send")
    BY DEF Follows
  <2> QED
    BY <2>1, <2>2, Four
<1> QED
  BY <1>1 DEF TransformRuns

\* DeduplicateAsks.
LEMMA DeduplicateAsksPiece ==
  Piece(DeduplicateAsks, "load", "confirm") /\ "confirm" \in Elements(DeduplicateAsks)
<1>1. Piece(<<"bucket", "gather", "pending", "rest", "confirm">>, "bucket", "confirm")
  <2>1. "bucket" \in Steps /\ "gather" \in Steps /\ "pending" \in Steps /\ "rest" \in Steps /\
      "confirm" \in Steps
    BY StepsAre
  <2>2. Follows("bucket", "gather") /\ Follows("gather", "pending") /\ Follows("pending",
      "rest") /\ Follows("rest", "confirm")
    BY DEF Follows
  <2> QED
    BY <2>1, <2>2, Five
<1>2. "confirm" \in Elements(<<"bucket", "gather", "pending", "rest", "confirm">>)
  BY <1>1, Ends
<1>3. Piece(Prepare \o <<"bucket", "gather", "pending", "rest", "confirm">>, "load", "confirm")
    /\ "confirm" \in Elements(Prepare \o <<"bucket", "gather", "pending", "rest", "confirm">>)
  <2>1. Follows("write conf", "bucket")
    BY DEF Follows
  <2> QED
    BY Parts, <1>1, <2>1, Join, <1>2
<1> QED
  BY <1>3 DEF DeduplicateAsks

\* UploadOnly.
LEMMA UploadOnlyPiece ==
  Piece(UploadOnly, "load", "send") /\ "confirm" \in Elements(UploadOnly)
<1>1. Piece(<<"gather", "bucket", "rest", "confirm">>, "gather", "confirm")
  <2>1. "gather" \in Steps /\ "bucket" \in Steps /\ "rest" \in Steps /\ "confirm" \in Steps
    BY StepsAre
  <2>2. Follows("gather", "bucket") /\ Follows("bucket", "rest") /\ Follows("rest", "confirm")
    BY DEF Follows
  <2> QED
    BY <2>1, <2>2, Four
<1>2. "confirm" \in Elements(<<"gather", "bucket", "rest", "confirm">>)
  BY <1>1, Ends
<1>3. Piece(Prepare \o <<"gather", "bucket", "rest", "confirm">>, "load", "confirm") /\
    "confirm" \in Elements(Prepare \o <<"gather", "bucket", "rest", "confirm">>)
  <2>1. Follows("write conf", "gather")
    BY DEF Follows
  <2> QED
    BY Parts, <1>1, <2>1, Join, <1>2
<1>4. Piece(Prepare \o <<"gather", "bucket", "rest", "confirm">> \o Finish, "load", "send") /\
    "confirm" \in Elements(Prepare \o <<"gather", "bucket", "rest", "confirm">> \o Finish)
  <2>1. Follows("confirm", "begin")
    BY DEF Follows
  <2> QED
    BY <1>3, Parts, <2>1, Join, <1>3
<1> QED
  BY <1>4 DEF UploadOnly

\* ImportAsks.
LEMMA ImportAsksPiece ==
  Piece(ImportAsks, "load", "rest")
<1>1. Piece(<<"identity", "target", "rest">>, "identity", "rest")
  <2>1. "identity" \in Steps /\ "target" \in Steps /\ "rest" \in Steps
    BY StepsAre
  <2>2. Follows("identity", "target") /\ Follows("target", "rest")
    BY DEF Follows
  <2> QED
    BY <2>1, <2>2, Three
<1>2. Piece(Prepare \o <<"identity", "target", "rest">>, "load", "rest")
  <2>1. Follows("write conf", "identity")
    BY DEF Follows
  <2> QED
    BY Parts, <1>1, <2>1, Join
<1> QED
  BY <1>2 DEF ImportAsks

\* ImportRuns.
LEMMA ImportRunsPiece ==
  Piece(ImportRuns, "gather", "send") /\ "confirm" \in Elements(ImportRuns)
<1>1. Piece(<<"gather", "pending", "confirm">>, "gather", "confirm")
  <2>1. "gather" \in Steps /\ "pending" \in Steps /\ "confirm" \in Steps
    BY StepsAre
  <2>2. Follows("gather", "pending") /\ Follows("pending", "confirm")
    BY DEF Follows
  <2> QED
    BY <2>1, <2>2, Three
<1>2. "confirm" \in Elements(<<"gather", "pending", "confirm">>)
  BY <1>1, Ends
<1>3. Piece(<<"gather", "pending", "confirm">> \o Finish, "gather", "send") /\ "confirm" \in
    Elements(<<"gather", "pending", "confirm">> \o Finish)
  <2>1. Follows("confirm", "begin")
    BY DEF Follows
  <2> QED
    BY <1>1, Parts, <2>1, Join, <1>2
<1> QED
  BY <1>3 DEF ImportRuns

\* ScanJob.
LEMMA ScanJobPiece ==
  Piece(ScanJob, "load", "send")
<1>1. Piece(<<"identity", "target", "rest">>, "identity", "rest")
  <2>1. "identity" \in Steps /\ "target" \in Steps /\ "rest" \in Steps
    BY StepsAre
  <2>2. Follows("identity", "target") /\ Follows("target", "rest")
    BY DEF Follows
  <2> QED
    BY <2>1, <2>2, Three
<1>2. Piece(Prepare \o <<"identity", "target", "rest">>, "load", "rest")
  <2>1. Follows("write conf", "identity")
    BY DEF Follows
  <2> QED
    BY Parts, <1>1, <2>1, Join
<1>3. Piece(Prepare \o <<"identity", "target", "rest">> \o Finish, "load", "send")
  <2>1. Follows("rest", "begin")
    BY DEF Follows
  <2> QED
    BY <1>2, Parts, <2>1, Join
<1> QED
  BY <1>3 DEF ScanJob

\* Every program is a sequence of steps, in order; each of a job but the scan
\* asks for confirmation.
LEMMA ProgramsInOrder ==
  ASSUME NEW c \in DOMAIN Programs
  PROVE  /\ Programs[c] \in Seq(Steps) /\ Programs[c] # <<>> /\ InOrder(Programs[c])
         /\ Opening(Head(Programs[c]))
         /\ c \notin KeyringCommands \cup {"email_scan"} => "confirm" \in Elements(Programs[c])
<1>1. /\ Piece(TransformAsks \o TransformRuns, "kind", "send")
      /\ "confirm" \in Elements(TransformAsks \o TransformRuns)
  <2>1. Follows("confirm", "begin")
    BY DEF Follows
  <2> QED
    BY <2>1, Join, TransformAsksPiece, TransformRunsPiece
<1>2. /\ Piece(DeduplicateAsks \o Finish, "load", "send")
      /\ "confirm" \in Elements(DeduplicateAsks \o Finish)
  <2>1. Follows("confirm", "begin")
    BY DEF Follows
  <2> QED
    BY <2>1, Join, Parts, DeduplicateAsksPiece
<1>3. /\ Piece(ImportAsks \o ImportRuns, "load", "send")
      /\ "confirm" \in Elements(ImportAsks \o ImportRuns)
  <2>1. Follows("rest", "gather")
    BY DEF Follows
  <2> QED
    BY <2>1, Join, ImportAsksPiece, ImportRunsPiece
<1>4. Opening("load") /\ Opening("kind")
  BY DEF Opening
<1>5. ASSUME NEW s, NEW a, NEW b, Piece(s, a, b), Opening(a), Programs[c] = s,
             c \notin KeyringCommands \cup {"email_scan"} => "confirm" \in Elements(s)
      PROVE  /\ Programs[c] \in Seq(Steps) /\ Programs[c] # <<>> /\ InOrder(Programs[c])
             /\ Opening(Head(Programs[c]))
             /\ c \notin KeyringCommands \cup {"email_scan"} => "confirm" \in Elements(Programs[c])
  BY <1>5 DEF Piece
<1>6. CASE c = "add_email"
  <2>1. Programs[c] = AddEmail
    BY <1>6 DEF Programs, DeleteJob
  <2>2. c \in KeyringCommands \cup {"email_scan"} \/ "confirm" \in Elements(AddEmail)
    BY <1>6, AddEmailPiece DEF KeyringCommands
  <2> QED
    BY <1>4, <1>5, <2>1, <2>2, AddEmailPiece
<1>7. CASE c = "add_bucket"
  <2>1. Programs[c] = AddBucket
    BY <1>7 DEF Programs, DeleteJob
  <2>2. c \in KeyringCommands \cup {"email_scan"} \/ "confirm" \in Elements(AddBucket)
    BY <1>7, AddBucketPiece DEF KeyringCommands
  <2> QED
    BY <1>4, <1>5, <2>1, <2>2, AddBucketPiece
<1>8. CASE c = "modify_email"
  <2>1. Programs[c] = ModifyEmail
    BY <1>8 DEF Programs, DeleteJob
  <2>2. c \in KeyringCommands \cup {"email_scan"} \/ "confirm" \in Elements(ModifyEmail)
    BY <1>8, ModifyEmailPiece DEF KeyringCommands
  <2> QED
    BY <1>4, <1>5, <2>1, <2>2, ModifyEmailPiece
<1>9. CASE c = "modify_bucket"
  <2>1. Programs[c] = ModifyBucket
    BY <1>9 DEF Programs, DeleteJob
  <2>2. c \in KeyringCommands \cup {"email_scan"} \/ "confirm" \in Elements(ModifyBucket)
    BY <1>9, ModifyBucketPiece DEF KeyringCommands
  <2> QED
    BY <1>4, <1>5, <2>1, <2>2, ModifyBucketPiece
<1>10. CASE c = "delete"
  <2>1. Programs[c] = Delete
    BY <1>10 DEF Programs, DeleteJob
  <2>2. c \in KeyringCommands \cup {"email_scan"} \/ "confirm" \in Elements(Delete)
    BY <1>10, DeletePiece DEF KeyringCommands
  <2> QED
    BY <1>4, <1>5, <2>1, <2>2, DeletePiece
<1>11. CASE c = "list"
  <2>1. Programs[c] = List
    BY <1>11 DEF Programs, DeleteJob
  <2>2. c \in KeyringCommands \cup {"email_scan"} \/ "confirm" \in Elements(List)
    BY <1>11, ListPiece DEF KeyringCommands
  <2> QED
    BY <1>4, <1>5, <2>1, <2>2, ListPiece
<1>12. CASE c = "rclone_copy"
  <2>1. Programs[c] = CopyJob
    BY <1>12 DEF Programs, DeleteJob
  <2>2. c \in KeyringCommands \cup {"email_scan"} \/ "confirm" \in Elements(CopyJob)
    BY <1>12, CopyJobPiece DEF KeyringCommands
  <2> QED
    BY <1>4, <1>5, <2>1, <2>2, CopyJobPiece
<1>13. CASE c = "rclone_delete"
  <2>1. Programs[c] = CopyJob
    BY <1>13 DEF Programs, DeleteJob
  <2>2. c \in KeyringCommands \cup {"email_scan"} \/ "confirm" \in Elements(CopyJob)
    BY <1>13, CopyJobPiece DEF KeyringCommands
  <2> QED
    BY <1>4, <1>5, <2>1, <2>2, CopyJobPiece
<1>14. CASE c = "transform"
  <2>1. Programs[c] = TransformAsks \o TransformRuns
    BY <1>14 DEF Programs, DeleteJob
  <2>2. c \in KeyringCommands \cup {"email_scan"} \/ "confirm" \in Elements(TransformAsks \o TransformRuns)
    BY <1>14, <1>1 DEF KeyringCommands
  <2> QED
    BY <1>4, <1>5, <2>1, <2>2, <1>1
<1>15. CASE c = "deduplicate"
  <2>1. Programs[c] = DeduplicateAsks \o Finish
    BY <1>15 DEF Programs, DeleteJob
  <2>2. c \in KeyringCommands \cup {"email_scan"} \/ "confirm" \in Elements(DeduplicateAsks \o Finish)
    BY <1>15, <1>2 DEF KeyringCommands
  <2> QED
    BY <1>4, <1>5, <2>1, <2>2, <1>2
<1>16. CASE c = "upload_only"
  <2>1. Programs[c] = UploadOnly
    BY <1>16 DEF Programs, DeleteJob
  <2>2. c \in KeyringCommands \cup {"email_scan"} \/ "confirm" \in Elements(UploadOnly)
    BY <1>16, UploadOnlyPiece DEF KeyringCommands
  <2> QED
    BY <1>4, <1>5, <2>1, <2>2, UploadOnlyPiece
<1>17. CASE c = "email_import"
  <2>1. Programs[c] = ImportAsks \o ImportRuns
    BY <1>17 DEF Programs, DeleteJob
  <2>2. c \in KeyringCommands \cup {"email_scan"} \/ "confirm" \in Elements(ImportAsks \o ImportRuns)
    BY <1>17, <1>3 DEF KeyringCommands
  <2> QED
    BY <1>4, <1>5, <2>1, <2>2, <1>3
<1>18. CASE c = "email_scan"
  <2>1. Programs[c] = ScanJob
    BY <1>18 DEF Programs, DeleteJob
  <2>2. c \in KeyringCommands \cup {"email_scan"} \/ "confirm" \in Elements(ScanJob)
    BY <1>18, ScanJobPiece DEF KeyringCommands
  <2> QED
    BY <1>4, <1>5, <2>1, <2>2, ScanJobPiece
<1> QED
  BY <1>6, <1>7, <1>8, <1>9, <1>10, <1>11, <1>12, <1>13, <1>14,
     <1>15, <1>16, <1>17, <1>18 DEF Programs

-----------------------------------------------------------------------------
(* Entries. *)

\* What an entry of either kind holds.
LEMMA EntryKinds ==
  ASSUME NEW e \in Entries
  PROVE  /\ e.kind = "email" =>
              /\ e.provider \in Providers /\ e.port \in Ports /\ e.secret \in Secrets
              /\ e.security \in {"default", "tls", "starttls"}
         /\ e.kind = "bucket" => 
              /\ e.secret \in Secrets /\ e.injected \in Injections \cup {"unset"}
              /\ e = Bucket(e.secret, e.tried, e.injected)
<1>1. CASE e = Nothing
  BY <1>1 DEF Nothing
<1>2. CASE \E secret \in Secrets, tried \in Secrets \cup Injections \cup {"untried"},
              injected \in Injections \cup {"unset"} : e = Bucket(secret, tried, injected)
  BY <1>2 DEF Bucket
<1>3. CASE \E provider \in Providers, port \in Ports, security \in {"default", "tls", "starttls"},
              secret \in Secrets, tried \in {<<>>} \cup (Ports \X {"tls", "starttls"} \X Secrets) :
             e = Email(provider, port, security, secret, tried)
  BY <1>3 DEF Email
<1> QED
  BY <1>1, <1>2, <1>3 DEF Entries

\* What is an entry.
LEMMA AreEntries ==
  /\ Nothing \in Entries /\ Empty \in [Aliases -> Entries]
  /\ \A secret \in Secrets, tried \in Secrets \cup Injections \cup {"untried"},
        injected \in Injections \cup {"unset"} : Bucket(secret, tried, injected) \in Entries
  /\ \A provider \in Providers, port \in Ports, security \in {"default", "tls", "starttls"},
        secret \in Secrets, tried \in {<<>>} \cup (Ports \X {"tls", "starttls"} \X Secrets) :
       Email(provider, port, security, secret, tried) \in Entries
BY DEF Entries, Empty

\* Nothing is sound.
LEMMA NothingIsSound ==
  Sound(Nothing) /\ (\A a \in Aliases : Sound(Empty[a]))
BY DEF Sound, Nothing, Empty

\* Whether a login is with what will be read back.
LEMMA StoredIsRead ==
  ASSUME NEW provider, NEW port, NEW security \in {"tls", "starttls"}, NEW secret
  PROVE  Sound(Email(provider, port, StoredSecurity(provider, port, security), secret,
                        Login(port, security, secret)))
BY DEF Sound, Email, StoredSecurity, SecurityOf, DefaultSecurity

\* A bucket listed with the secret that is used.
LEMMA ListedIsUsed ==
  ASSUME NEW secret, NEW injected
  PROVE  Sound(Bucket(secret, SecretFor(injected, secret), injected))
BY DEF Sound, Bucket

-----------------------------------------------------------------------------
(* Steps of one process. *)

\* What is a process's own, and all that its invariant is about.
Own(p) ==
  <<todo[p], command[p], terminal[p], nonInteractive[p], environment[p], store[p], about[p],
    candidate[p], exit[p]>>
Local(p) == <<Own(p), probe[p], outcome[p]>>

\* A process that is left alone.
LEMMA LeftAlone ==
  ASSUME NEW q \in Processes, ProcessInv(q), Local(q)' = Local(q) PROVE ProcessInv(q)'
BY DEF ProcessInv, Local, Own, Ready, Confirmed, Ended, At, Running

\* The end of a process.
LEMMA Exited ==
  ASSUME TypeInv, NEW p \in Processes, NEW code \in Exits, Exit(p, code)
  PROVE  /\ SessionType'
         /\ todo'[p] = <<>> /\ exit'[p] = code /\ store'[p] = Empty
         /\ \A q \in Processes \ {p} : Own(q)' = Own(q)
<1>1. <<>> \in Seq(Steps)
  OBVIOUS
<1>2. /\ todo' \in [Processes -> Seq(Steps)] /\ todo'[p] = <<>>
      /\ \A q \in Processes \ {p} : todo'[q] = todo[q]
  BY <1>1 DEF Exit, TypeInv, SessionType
<1>3. /\ exit' \in [Processes -> Exits] /\ exit'[p] = code
      /\ \A q \in Processes \ {p} : exit'[q] = exit[q]
  BY DEF Exit, TypeInv, SessionType
<1>4. /\ store' \in [Processes -> [Aliases -> Entries]] /\ store'[p] = Empty
      /\ \A q \in Processes \ {p} : store'[q] = store[q]
  BY AreEntries DEF Exit, TypeInv, SessionType
<1>5. /\ candidate' \in [Processes -> Entries] /\ about' \in [Processes -> Aliases \cup {"none"}]
      /\ \A q \in Processes \ {p} : candidate'[q] = candidate[q] /\ about'[q] = about[q]
  BY AreEntries DEF Exit, TypeInv, SessionType
<1>6. /\ command' \in [Processes -> DOMAIN Programs \cup {"none"}]
      /\ terminal' \in [Processes -> BOOLEAN] /\ nonInteractive' \in [Processes -> BOOLEAN]
      /\ \A q \in Processes \ {p} : /\ command'[q] = command[q] /\ terminal'[q] = terminal[q]
                                    /\ nonInteractive'[q] = nonInteractive[q]
  BY DEF Exit, TypeInv, SessionType
<1>7. /\ environment' \in [Processes -> [Aliases -> Injections \cup {"unset"}]]
      /\ \A q \in Processes \ {p} : environment'[q] = environment[q]
  BY DEF Exit, TypeInv, SessionType, Unset
<1> QED
  BY <1>2, <1>3, <1>4, <1>5, <1>6, <1>7 DEF SessionType, Own

\* A process that has ended, with a code that is true.
LEMMA ExitedWell ==
  ASSUME NEW p \in Processes, todo'[p] = <<>>,
         exit'[p] = "success" => outcome'[p] \in Good,
         exit'[p] = "failure" => outcome'[p] \in Bad
  PROVE  ProcessInv(p)'
<1>1. Len(<<>>) = 0
  OBVIOUS
<1>2. InOrder(<<>>)
  BY <1>1 DEF InOrder
<1> QED
  BY <1>2 DEF ProcessInv, Ready, Confirmed, Ended, At, Running

\* A process that goes on to its next step.
LEMMA Proceeded ==
  ASSUME TypeInv, NEW p \in Processes, ProcessInv(p), Running(p), Proceed(p)
  PROVE  /\ todo' \in [Processes -> Seq(Steps)] /\ InOrder(todo'[p])
         /\ \A q \in Processes \ {p} : todo'[q] = todo[q]
         /\ exit' = exit /\ exit[p] = "none"
         /\ todo'[p] # <<>> => Follows(Head(todo[p]), Head(todo'[p]))
         /\ \A x \in Elements(todo[p]) : x = Head(todo[p]) \/ x \in Elements(todo'[p])
<1>1. /\ todo \in [Processes -> Seq(Steps)] /\ todo[p] \in Seq(Steps) /\ todo[p] # <<>>
      /\ InOrder(todo[p])
  BY DEF TypeInv, SessionType, Running, ProcessInv
<1>2. /\ todo'[p] = Tail(todo[p]) /\ exit' = exit
      /\ todo' = [todo EXCEPT ![p] = Tail(todo[p])]
  BY <1>1 DEF Proceed
<1> DEFINE s == todo[p]
<1> HIDE DEF s
<1>3. s \in Seq(Steps) /\ s # <<>> /\ Len(s) \in Nat \ {0} /\ InOrder(s)
  BY <1>1 DEF s
<1>4. /\ Tail(s) \in Seq(Steps) /\ Len(Tail(s)) = Len(s) - 1 /\ Head(s) = s[1]
      /\ \A i \in 1..(Len(s) - 1) : Tail(s)[i] = s[i + 1]
  BY <1>3
<1>5. InOrder(Tail(s))
  <2> SUFFICES ASSUME NEW i \in 1..(Len(Tail(s)) - 1) PROVE Follows(Tail(s)[i], Tail(s)[i + 1])
    BY DEF InOrder
  <2>1. i + 1 \in 1..(Len(s) - 1) /\ i \in 1..(Len(s) - 1)
    BY <1>3, <1>4
  <2> QED
    BY <1>3, <1>4, <2>1 DEF InOrder
<1>6. Tail(s) # <<>> => Follows(Head(s), Head(Tail(s)))
  <2> SUFFICES ASSUME Tail(s) # <<>> PROVE Follows(Head(s), Head(Tail(s)))
    OBVIOUS
  <2>1. Len(Tail(s)) > 0 /\ Head(Tail(s)) = Tail(s)[1]
    BY <1>4
  <2>2. 1 \in 1..(Len(s) - 1)
    BY <1>3, <1>4, <2>1
  <2>3. Head(Tail(s)) = s[1 + 1]
    BY <1>4, <2>1, <2>2
  <2> QED
    BY <1>3, <1>4, <2>2, <2>3 DEF InOrder
<1>7. \A x \in Elements(s) : x = Head(s) \/ x \in Elements(Tail(s))
  <2> SUFFICES ASSUME NEW i \in 1..Len(s), i # 1 PROVE s[i] \in Elements(Tail(s))
    BY <1>4 DEF Elements
  <2>1. i - 1 \in 1..Len(Tail(s)) /\ i - 1 \in 1..(Len(s) - 1) /\ (i - 1) + 1 = i
    BY <1>3, <1>4
  <2>2. Tail(s)[i - 1] = s[i]
    BY <1>4, <2>1
  <2> QED
    BY <2>1, <2>2 DEF Elements
<1>8. exit[p] = "none"
  BY DEF ProcessInv, Ended
<1> QED
  BY <1>1, <1>2, <1>4, <1>5, <1>6, <1>7, <1>8 DEF s

\* Its confirmation, if it is not this step, is before it or behind it still.
LEMMA ProceededWell ==
  ASSUME TypeInv, NEW p \in Processes, ProcessInv(p), Running(p), Proceed(p),
         UNCHANGED session,
         At(p, "confirm") => terminal[p] \/ nonInteractive[p],
         Ready(p)'
  PROVE  ProcessInv(p)'
<1>1. InOrder(todo'[p]) /\ exit' = exit /\ exit[p] = "none"
  BY Proceeded
<1>2. Confirmed(p)'
  BY Proceeded DEF Confirmed, ProcessInv, At, Running, session
<1> QED
  BY <1>1, <1>2 DEF ProcessInv, Ended

\* What a step of p is to keep, the two files' contents aside.
Kept(p) ==
  /\ TypeInv' /\ ProcessInv(p)'
  /\ \A q \in Processes \ {p} : Local(q)' = Local(q)

\* A step that ends the process.
LEMMA ByExit ==
  ASSUME TypeInv, NEW p \in Processes, NEW code \in Exits, Exit(p, code),
         NEW result \in Good \cup Bad, outcome' = [outcome EXCEPT ![p] = result],
         code = "success" => result \in Good, code = "failure" => result \in Bad,
         UNCHANGED <<probe, started>>, keyring' \in [Aliases -> Entries]
  PROVE  Kept(p)
<1>1. /\ SessionType' /\ todo'[p] = <<>> /\ exit'[p] = code
      /\ \A q \in Processes \ {p} : Own(q)' = Own(q)
  BY Exited
<1>2. /\ OutcomeType' /\ outcome'[p] = result
      /\ \A q \in Processes \ {p} : outcome'[q] = outcome[q]
  BY DEF TypeInv, OutcomeType
<1>3. FilesType'
  BY DEF TypeInv, FilesType
<1>4. TypeInv'
  BY <1>1, <1>2, <1>3 DEF TypeInv
<1>5. ProcessInv(p)'
  BY <1>1, <1>2, ExitedWell
<1> QED
  BY <1>1, <1>2, <1>4, <1>5 DEF Kept, Local

\* The same, where there is no news of the outcome.
LEMMA BySilentExit ==
  ASSUME TypeInv, NEW p \in Processes, NEW code \in Exits, Exit(p, code), outcome' = outcome,
         code = "success" => outcome[p] \in Good, code = "failure" => outcome[p] \in Bad,
         UNCHANGED <<probe, started>>, keyring' \in [Aliases -> Entries]
  PROVE  Kept(p)
<1>1. outcome[p] \in Good \cup Bad /\ outcome' = [outcome EXCEPT ![p] = outcome[p]]
  BY DEF TypeInv, OutcomeType
<1> QED
  BY <1>1, ByExit

\* A step after which the process goes on.
LEMMA ByProceed ==
  ASSUME TypeInv, NEW p \in Processes, ProcessInv(p), Running(p), Proceed(p),
         UNCHANGED <<session, started>>,
         At(p, "confirm") => terminal[p] \/ nonInteractive[p],
         Ready(p)', FilesType', OutcomeType', store' \in [Processes -> [Aliases -> Entries]],
         about' \in [Processes -> Aliases \cup {"none"}], candidate' \in [Processes -> Entries],
         \A q \in Processes \ {p} :
           /\ store'[q] = store[q] /\ about'[q] = about[q] /\ candidate'[q] = candidate[q]
           /\ probe'[q] = probe[q] /\ outcome'[q] = outcome[q]
  PROVE  Kept(p)
<1>1. /\ todo' \in [Processes -> Seq(Steps)] /\ exit' = exit
      /\ \A q \in Processes \ {p} : todo'[q] = todo[q]
  BY Proceeded
<1>2. TypeInv'
  BY <1>1 DEF TypeInv, SessionType, session
<1>3. ProcessInv(p)'
  BY ProceededWell
<1> QED
  BY <1>1, <1>2, <1>3 DEF Kept, Local, Own, session

\* What a process that goes on finds at its next step, when this one neither runs
\* nor sends.
LEMMA StepReady ==
  ASSUME TypeInv, NEW p \in Processes, ProcessInv(p), NEW step, At(p, step), Proceed(p),
         UNCHANGED <<session, outcome>>, step \notin {"run", "send"},
         step \in {"ask email", "edit email"} =>
           candidate'[p].kind = "email" /\ candidate'[p].security \in {"tls", "starttls"},
         step \in {"ask bucket", "edit bucket", "probe"} =>
           /\ about'[p] \in Aliases /\ candidate'[p].kind = "bucket"
           /\ candidate'[p].injected = environment[p][about'[p]],
         step = "probe" =>
           probe'[p][about'[p]].secret = SecretFor(candidate'[p].injected, candidate'[p].secret),
         step \in {"login", "cap", "list bucket", "agree", "truncate"} => Sound(candidate'[p])
  PROVE  Ready(p)'
<1>1. Running(p) /\ Head(todo[p]) = step /\ outcome[p] = "none"
  BY DEF At, ProcessInv, Ready
<1>2. todo'[p] # <<>> => Follows(step, Head(todo'[p]))
  BY <1>1, Proceeded
<1> DEFINE next == Head(todo'[p])
<1>3. todo'[p] # <<>> =>
        /\ next = "login" => step \in {"ask email", "edit email"}
        /\ next = "probe" => step \in {"ask bucket", "edit bucket"}
        /\ next = "list bucket" => step = "probe"
        /\ next = "cap" => step = "login"
        /\ next = "truncate" => step \in {"cap", "list bucket", "agree"}
        /\ next = "write" => step = "truncate"
  BY <1>2 DEF Follows
<1>4. outcome'[p] = "none" /\ "none" \in Bad
  BY <1>1 DEF Bad
<1> HIDE DEF next
<1> QED
  BY <1>3, <1>4 DEF Ready, At, Running, session, next

-----------------------------------------------------------------------------
(* The actions. *)

\* What stays as it is.
LEMMA Typed ==
  ASSUME TypeInv
  PROVE  /\ keyring \in [Aliases -> Entries] /\ store \in [Processes -> [Aliases -> Entries]]
         /\ about \in [Processes -> Aliases \cup {"none"}] /\ candidate \in [Processes -> Entries]
         /\ outcome \in [Processes -> Good \cup Bad] /\ todo \in [Processes -> Seq(Steps)]
BY DEF TypeInv, FilesType, SessionType, OutcomeType

\* A step that nothing but the next step comes of.
LEMMA Plain ==
  ASSUME TypeInv, NEW p \in Processes, ProcessInv(p), NEW step, At(p, step), Proceed(p),
         step \notin {"run", "send", "ask email", "edit email", "ask bucket", "edit bucket", "probe",
                      "login", "cap", "list bucket", "agree", "truncate"},
         At(p, "confirm") => terminal[p] \/ nonInteractive[p],
         FilesType', UNCHANGED <<session, started, outcome, candidate, probe>>,
         store' \in [Processes -> [Aliases -> Entries]], \A q \in Processes \ {p} : store'[q] = store[q],
         about' \in [Processes -> Aliases \cup {"none"}], \A q \in Processes \ {p} : about'[q] = about[q]
  PROVE  Kept(p)
<1>1. Ready(p)'
  BY StepReady
<1>2. OutcomeType' /\ candidate' \in [Processes -> Entries]
  BY DEF TypeInv, OutcomeType, SessionType
<1>3. Running(p)
  BY DEF At
<1> QED
  BY <1>1, <1>2, <1>3, ByProceed

\* A failure, before the end.
LEMMA FailsKept ==
  ASSUME TypeInv, NEW p \in Processes, ProcessInv(p), NEW step, At(p, step), step # "send",
         Exit(p, "failure"), UNCHANGED <<started, outcome>>, UNCHANGED <<probe, keyring>>
  PROVE  Kept(p)
<1>1. outcome[p] = "none"
  BY DEF ProcessInv, Ready, At
<1> QED
  BY <1>1, Typed, BySilentExit DEF Exits, Bad

\* A new command.
LEMMA BeginKept ==
  ASSUME TypeInv, NEW p \in Processes, ProcessInv(p), Begin(p)
  PROVE  Kept(p)
<1>1. PICK c \in DOMAIN Programs, there \in BOOLEAN, told \in BOOLEAN, env \in Environments :
        /\ command' = [command EXCEPT ![p] = c]
        /\ terminal' = [terminal EXCEPT ![p] = there]
        /\ nonInteractive' = [nonInteractive EXCEPT ![p] = told]
        /\ environment' = [environment EXCEPT ![p] = env]
        /\ todo' = [todo EXCEPT ![p] = Programs[c]]
  BY DEF Begin
<1>2. /\ Programs[c] \in Seq(Steps) /\ Programs[c] # <<>> /\ InOrder(Programs[c])
      /\ Opening(Head(Programs[c]))
      /\ c \notin KeyringCommands \cup {"email_scan"} => "confirm" \in Elements(Programs[c])
  BY ProgramsInOrder
<1>3. /\ todo'[p] = Programs[c] /\ command'[p] = c /\ terminal'[p] = there /\ nonInteractive'[p] = told
      /\ outcome'[p] = "none" /\ exit'[p] = "none"
  BY <1>1 DEF Begin, TypeInv, SessionType, OutcomeType
<1>4. SessionType'
  BY <1>1, <1>2, KeyringAssumption DEF Begin, TypeInv, SessionType, subject, Exits
<1>5. OutcomeType' /\ FilesType'
  BY DEF Begin, TypeInv, OutcomeType, FilesType, files, Bad
<1>6. started' \in 0..MaxCommands
  BY CommandsAssumption DEF Begin, TypeInv
<1>7. \A q \in Processes \ {p} : Local(q)' = Local(q)
  BY <1>1 DEF Begin, TypeInv, SessionType, OutcomeType, files, subject, Local, Own
<1>8. InOrder(todo'[p]) /\ Ready(p)'
  BY <1>2, <1>3 DEF Ready, At, Running, Opening
<1>9. Confirmed(p)'
  BY <1>2, <1>3 DEF Confirmed, Jobs
<1>10. Ended(p)'
  BY <1>3 DEF Ended
<1> QED
  BY <1>4, <1>5, <1>6, <1>7, <1>8, <1>9, <1>10 DEF Kept, TypeInv, ProcessInv

\* The store of a running command is the keyring, as it is now.
LEMMA LoadKept ==
  ASSUME TypeInv, SoundInv, NEW p \in Processes, ProcessInv(p), Load(p)
  PROVE  Kept(p)
<1>1. store' \in [Processes -> [Aliases -> Entries]] /\ \A q \in Processes \ {p} : store'[q] = store[q]
  BY Typed DEF Load
<1> QED
  BY <1>1, Typed, Plain DEF Load, files, invocation, FilesType, TypeInv, At

\* A step without an effect.
LEMMA PassesKept ==
  ASSUME TypeInv, SoundInv, NEW p \in Processes, ProcessInv(p), Passes(p)
  PROVE  Kept(p)
<1>1. PICK step \in Preliminary : At(p, step)
  BY DEF Passes
<1>2. ~At(p, "confirm")
  BY <1>1 DEF At, Preliminary
<1> QED
  BY <1>1, <1>2, Typed, Plain DEF Passes, Preliminary, files, invocation, subject, FilesType, TypeInv

\* The keyring is empty until it is written.
LEMMA TruncateKept ==
  ASSUME TypeInv, SoundInv, NEW p \in Processes, ProcessInv(p), Truncate(p)
  PROVE  Kept(p)
<1>1. Ready(p)'
  BY StepReady DEF Truncate, invocation, subject, ProcessInv, Ready
<1>2. FilesType'
  BY AreEntries DEF Truncate, TypeInv, FilesType
<1> QED
  BY <1>1, <1>2, Typed, ByProceed DEF Truncate, At, invocation, subject, TypeInv, OutcomeType

\* The keyring gets the entry.
LEMMA WriteKept ==
  ASSUME TypeInv, SoundInv, NEW p \in Processes, ProcessInv(p), Write(p)
  PROVE  Kept(p)
<1>1. keyring' \in [Aliases -> Entries]
  BY Typed DEF Write
<1>3. CASE Exit(p, "success") /\ outcome' = [outcome EXCEPT ![p] = "saved"]
  BY <1>1, <1>3, ByExit DEF Write, Exits, Good
<1>4. CASE Exit(p, "failure") /\ outcome' = [outcome EXCEPT ![p] = "unprotected"]
  BY <1>1, <1>4, ByExit DEF Write, Exits, Bad
<1> QED
  BY <1>3, <1>4 DEF Write

\* The truncated rclone.conf.
LEMMA TruncateConfKept ==
  ASSUME TypeInv, SoundInv, NEW p \in Processes, ProcessInv(p), TruncateConf(p)
  PROVE  Kept(p)
BY Typed, Plain DEF TruncateConf, At, files, invocation, subject, FilesType, TypeInv

\* The written rclone.conf.
LEMMA WriteConfKept ==
  ASSUME TypeInv, SoundInv, NEW p \in Processes, ProcessInv(p), WriteConf(p)
  PROVE  Kept(p)
<1>1. CASE Passed(p)
  BY <1>1, Typed, Plain DEF WriteConf, Passed, At, subject, FilesType, TypeInv
<1>2. CASE Exit(p, "failure")
  BY <1>2, FailsKept DEF WriteConf
<1> QED
  BY <1>1, <1>2 DEF WriteConf

\* The probe's own configuration has the candidate's secret, as it will be used.
LEMMA ProbeKept ==
  ASSUME TypeInv, SoundInv, NEW p \in Processes, ProcessInv(p), Probe(p)
  PROVE  Kept(p)
<1>0. /\ about[p] \in Aliases /\ candidate[p].kind = "bucket" /\ candidate[p] \in Entries
      /\ candidate[p].injected = environment[p][about[p]]
  BY Typed DEF Probe, ProcessInv, Ready
<1> DEFINE tried == [Empty EXCEPT ![about[p]] = candidate[p]]
<1>1. tried \in [Aliases -> Entries] /\ tried[about[p]] = candidate[p]
  BY <1>0, AreEntries
<1> HIDE DEF tried
<1>2. Sections(tried, environment[p])[about[p]].secret = SecretFor(candidate[p].injected, candidate[p].secret)
  BY <1>0, <1>1 DEF Sections, Buckets, Section
<1>3. probe' = [probe EXCEPT ![p] = Sections(tried, environment[p])]
  BY DEF Probe, ProbeFile, tried
<1>4. FilesType' /\ probe'[p] = Sections(tried, environment[p]) /\ \A q \in Processes \ {p} : probe'[q] = probe[q]
  BY <1>3 DEF Probe, TypeInv, FilesType
<1>5. Ready(p)'
  BY <1>0, <1>2, <1>4, StepReady DEF Probe, invocation, subject
<1> QED
  BY <1>4, <1>5, Typed, ByProceed DEF Probe, At, invocation, subject, TypeInv, OutcomeType

\* The candidate is what the listing was with.
LEMMA ListBucketKept ==
  ASSUME TypeInv, SoundInv, NEW p \in Processes, ProcessInv(p), ListBucket(p)
  PROVE  Kept(p)
<1> DEFINE c == candidate[p]
<1>0. /\ about[p] \in Aliases /\ c \in Entries /\ c.secret \in Secrets
      /\ c.injected \in Injections \cup {"unset"} /\ c = Bucket(c.secret, c.tried, c.injected)
  BY Typed, EntryKinds DEF ListBucket, ProcessInv, Ready
<1>1. probe[p][about[p]].secret = SecretFor(c.injected, c.secret)
  BY DEF ListBucket, ProcessInv, Ready
<1>2. [c EXCEPT !.tried = SecretFor(c.injected, c.secret)] = Bucket(c.secret, SecretFor(c.injected, c.secret), c.injected)
  <2> DEFINE x == SecretFor(c.injected, c.secret)
              y == c.secret
              z == c.tried
              i == c.injected
  <2>1. c = Bucket(y, z, i)
    BY <1>0
  <2> HIDE DEF c, x, y, z, i
  <2>2. [c EXCEPT !.tried = x] = Bucket(y, x, i)
    BY <2>1 DEF Bucket
  <2> QED
    BY <2>2 DEF x, y, i
<1>3. candidate' = [candidate EXCEPT ![p] = [c EXCEPT !.tried = SecretFor(c.injected, c.secret)]]
  BY <1>1 DEF ListBucket, ProbeFile
<1>4. Bucket(c.secret, SecretFor(c.injected, c.secret), c.injected) \in Entries
  BY <1>0, AreEntries DEF SecretFor
<1>5. /\ candidate' \in [Processes -> Entries]
      /\ candidate'[p] = Bucket(c.secret, SecretFor(c.injected, c.secret), c.injected)
      /\ \A q \in Processes \ {p} : candidate'[q] = candidate[q]
  BY <1>2, <1>3, <1>4, Typed
<1>6. FilesType' /\ \A q \in Processes \ {p} : probe'[q] = probe[q]
  BY DEF ListBucket, ProbeFile, TypeInv, FilesType
<1>7. Sound(candidate'[p])
  BY <1>5, ListedIsUsed
<1>8. Ready(p)'
  BY <1>7, StepReady DEF ListBucket, invocation
<1> QED
  BY <1>5, <1>6, <1>8, Typed, ByProceed DEF ListBucket, At, invocation, TypeInv, OutcomeType

\* The candidate is what the login was with.
LEMMA LogInKept ==
  ASSUME TypeInv, SoundInv, NEW p \in Processes, ProcessInv(p), LogIn(p)
  PROVE  Kept(p)
<1> DEFINE c == candidate[p]
           d == Email(c.provider, c.port, StoredSecurity(c.provider, c.port, c.security), c.secret,
                      Login(c.port, c.security, c.secret))
<1>0. /\ c \in Entries /\ c.security \in {"tls", "starttls"} /\ c.kind = "email"
      /\ c.provider \in Providers /\ c.port \in Ports /\ c.secret \in Secrets
  BY Typed, EntryKinds DEF LogIn, ProcessInv, Ready
<1>1. Sound(d)
  BY <1>0, StoredIsRead
<1>2. d \in Entries
  <2>1. StoredSecurity(c.provider, c.port, c.security) \in {"default", "tls", "starttls"}
    BY <1>0 DEF StoredSecurity
  <2>2. Login(c.port, c.security, c.secret) \in Ports \X {"tls", "starttls"} \X Secrets
    BY <1>0 DEF Login
  <2> QED
    BY <1>0, <2>1, <2>2, AreEntries
<1>3. candidate' = [candidate EXCEPT ![p] = d]
  BY DEF LogIn
<1> HIDE DEF d
<1>4. /\ candidate' \in [Processes -> Entries] /\ candidate'[p] = d
      /\ \A q \in Processes \ {p} : candidate'[q] = candidate[q]
  BY <1>2, <1>3, Typed
<1>5. Ready(p)'
  BY <1>1, <1>4, StepReady DEF LogIn, invocation
<1>6. FilesType'
  BY DEF LogIn, files, TypeInv, FilesType
<1> QED
  BY <1>4, <1>5, <1>6, Typed, ByProceed DEF LogIn, At, files, invocation, TypeInv, OutcomeType

\* What a keyring command is about, and the entry.
LEMMA DescribesKept ==
  ASSUME TypeInv, NEW p \in Processes, ProcessInv(p), NEW step \in Asks, At(p, step),
         NEW a \in Aliases, NEW e \in Entries, Describes(p, a, e),
         step \in {"ask email", "edit email"} =>
           e.kind = "email" /\ e.security \in {"tls", "starttls"},
         step \in {"ask bucket", "edit bucket"} =>
           e.kind = "bucket" /\ e.injected = environment[p][a],
         step = "agree" => Sound(e), step # "cap"
  PROVE  Kept(p)
<1>1. /\ candidate' \in [Processes -> Entries] /\ candidate'[p] = e
      /\ about' \in [Processes -> Aliases \cup {"none"}] /\ about'[p] = a
      /\ \A q \in Processes \ {p} : candidate'[q] = candidate[q] /\ about'[q] = about[q]
  BY Typed DEF Describes
<1>2. Ready(p)'
  BY <1>1, StepReady DEF Describes, invocation, Asks
<1>3. FilesType' /\ ~At(p, "confirm") /\ Running(p)
  BY DEF Describes, files, TypeInv, FilesType, At, Asks
<1> QED
  BY <1>1, <1>2, <1>3, Typed, ByProceed DEF Describes, files, invocation, TypeInv, OutcomeType

\* The user gives up.
LEMMA CancelsKept ==
  ASSUME TypeInv, NEW p \in Processes, Cancels(p)
  PROVE  Kept(p)
BY Typed, ByExit DEF Cancels, files, Exits, Good

\* A bucket as it is asked for, with what the environment has for it.
LEMMA AskedBucket ==
  ASSUME TypeInv, NEW p \in Processes, NEW a \in Aliases, NEW secret \in Secrets
  PROVE  LET e == Bucket(secret, "untried", environment[p][a]) IN
         e \in Entries /\ e.kind = "bucket" /\ e.injected = environment[p][a]
<1>1. environment[p][a] \in Injections \cup {"unset"}
  BY DEF TypeInv, SessionType
<1> QED
  BY <1>1, AreEntries DEF Bucket

\* The cap's answer leaves the entry as it is.
LEMMA CapKept ==
  ASSUME TypeInv, SoundInv, NEW p \in Processes, ProcessInv(p), Cap(p)
  PROVE  Kept(p)
<1>1. Ready(p)'
  BY StepReady DEF Cap, invocation, subject, ProcessInv, Ready
<1>2. FilesType' /\ ~At(p, "confirm") /\ Running(p)
  BY DEF Cap, files, TypeInv, FilesType, At
<1> QED
  BY <1>1, <1>2, Typed, ByProceed DEF Cap, files, invocation, subject, TypeInv, OutcomeType

\* The keyring's questions.
LEMMA AskKept ==
  ASSUME TypeInv, SoundInv, NEW p \in Processes, ProcessInv(p), AskEmail(p) \/ AskBucket(p) \/ EditEmail(p) \/ EditBucket(p) \/ Agree(p)
  PROVE  Kept(p)
<1>1. CASE AskEmail(p)
  <2>1. PICK a \in Aliases, provider \in Providers, port \in Ports, secret \in Secrets,
             security \in {"tls", "starttls"} :
          Describes(p, a, Email(provider, port, security, secret, <<>>))
    BY <1>1 DEF AskEmail
  <2>2. Email(provider, port, security, secret, <<>>) \in Entries
    BY AreEntries
  <2>3. /\ Email(provider, port, security, secret, <<>>).kind = "email"
        /\ Email(provider, port, security, secret, <<>>).security \in {"tls", "starttls"}
    BY DEF Email
  <2> QED
    BY <1>1, <2>1, <2>2, <2>3, DescribesKept DEF AskEmail, Asks
<1>2. CASE AskBucket(p)
  <2>1. PICK a \in Aliases, secret \in Secrets :
          Describes(p, a, Bucket(secret, "untried", environment[p][a]))
    BY <1>2 DEF AskBucket
  <2> QED
    BY <1>2, <2>1, AskedBucket, DescribesKept DEF AskBucket, Asks
<1>3. CASE EditEmail(p)
  <2>1. PICK a \in Aliases, provider \in Providers, port \in Ports, security \in {"tls", "starttls"} :
          /\ store[p][a].kind = "email"
          /\ \E secret \in Secrets \cup {store[p][a].secret} :
               Describes(p, a, Email(provider, port, security, secret, <<>>))
    BY <1>3 DEF EditEmail
  <2>2. store[p][a].secret \in Secrets
    BY <2>1, Typed, EntryKinds
  <2>3. PICK secret \in Secrets : Describes(p, a, Email(provider, port, security, secret, <<>>))
    BY <2>1, <2>2
  <2>4. Email(provider, port, security, secret, <<>>) \in Entries
    BY AreEntries
  <2>5. /\ Email(provider, port, security, secret, <<>>).kind = "email"
        /\ Email(provider, port, security, secret, <<>>).security \in {"tls", "starttls"}
    BY DEF Email
  <2> QED
    BY <1>3, <2>3, <2>4, <2>5, DescribesKept DEF EditEmail, Asks
<1>4. CASE EditBucket(p)
  <2>1. PICK a \in Buckets(store[p]) : \E secret \in Secrets \cup {store[p][a].secret} :
               Describes(p, a, Bucket(secret, "untried", environment[p][a]))
    BY <1>4 DEF EditBucket
  <2>2. a \in Aliases /\ store[p][a].secret \in Secrets
    BY Typed, EntryKinds DEF Buckets
  <2>3. PICK secret \in Secrets : Describes(p, a, Bucket(secret, "untried", environment[p][a]))
    BY <2>1, <2>2
  <2> QED
    BY <1>4, <2>2, <2>3, AskedBucket, DescribesKept DEF EditBucket, Asks
<1>5. CASE Agree(p)
  <2>1. PICK a \in Aliases : Describes(p, a, Nothing) \/ Cancels(p)
    BY <1>5 DEF Agree
  <2>2. CASE Describes(p, a, Nothing)
    <3>1. Nothing \in Entries /\ Sound(Nothing)
      BY AreEntries, NothingIsSound
    <3> QED
      BY <1>5, <2>2, <3>1, DescribesKept DEF Agree, Asks
  <2> QED
    BY <2>1, <2>2, CancelsKept
<1> QED
  BY <1>1, <1>2, <1>3, <1>4, <1>5

\* What becomes of a question of a job, with a user or without.
LEMMA Asked ==
  ASSUME NEW p \in Processes, FallsBack(p) \/ Answers(p)
  PROVE  \/ Resolves(p) \/ Refuses(p) \/ (At(p, "confirm") /\ Cancels(p))
         \/ /\ At(p, "confirm") /\ UNCHANGED <<files, started, outcome>>
            /\ ((terminal[p] \/ nonInteractive[p]) /\ Passed(p)) \/ Exit(p, "failure")
<1>1. CASE FallsBack(p)
  <2>1. Resolves(p) \/ Refuses(p) \/ Confirms(p)
    BY <1>1 DEF FallsBack
  <2>2. CASE Confirms(p)
    BY <2>2 DEF Confirms
  <2> QED
    BY <2>1, <2>2
<1>2. CASE Answers(p)
  <2>1. terminal[p]
    BY <1>2 DEF Answers, Prompts
  <2>2. \/ Resolves(p) \/ Refuses(p) \/ (At(p, "confirm") /\ Cancels(p))
        \/ At(p, "confirm") /\ Passed(p) /\ UNCHANGED <<files, started, outcome>>
    BY <1>2, Zenon DEF Answers
  <2> QED
    BY <2>1, <2>2
<1> QED
  BY <1>1, <1>2

\* The jobs' questions.
LEMMA QuestionsKept ==
  ASSUME TypeInv, SoundInv, NEW p \in Processes, ProcessInv(p), FallsBack(p) \/ Answers(p)
  PROVE  Kept(p)
<1>1. CASE Resolves(p)
  <2>1. PICK step \in Inputs : At(p, step)
    BY <1>1 DEF Resolves, Kind, Target, BucketConfig, Identities, Rest, Inputs
  <2>2. about' = about \/ \E a \in Aliases : about' = [about EXCEPT ![p] = a]
    BY <1>1 DEF Resolves, Kind, Target, BucketConfig, Identities, Rest, Buckets
  <2>3. about' \in [Processes -> Aliases \cup {"none"}] /\ \A q \in Processes \ {p} : about'[q] = about[q]
    BY <2>2, Typed
  <2>4. ~At(p, "confirm") /\ FilesType'
    BY <1>1, <2>1 DEF At, Inputs, Resolves, files, TypeInv, FilesType
  <2> QED
    BY <1>1, <2>1, <2>3, <2>4, Typed, Plain DEF Resolves, Inputs, files, invocation
<1>2. CASE Refuses(p)
  BY <1>2, FailsKept DEF Refuses, Inputs, files
<1>3. CASE Cancels(p)
  BY <1>3, CancelsKept
<1>4. CASE At(p, "confirm") /\ UNCHANGED <<files, started, outcome>> /\ Exit(p, "failure")
  BY <1>4, FailsKept DEF files
<1>5. CASE /\ At(p, "confirm") /\ UNCHANGED <<files, started, outcome>>
           /\ (terminal[p] \/ nonInteractive[p]) /\ Passed(p)
  BY <1>5, Typed, Plain DEF Passed, files, subject, TypeInv, FilesType
<1> QED
  BY <1>1, <1>2, <1>3, <1>4, <1>5, Asked

\* Nothing is pending, or the job goes on.
LEMMA PendingKept ==
  ASSUME TypeInv, SoundInv, NEW p \in Processes, ProcessInv(p), Pending(p)
  PROVE  Kept(p)
<1>1. CASE Passed(p) /\ UNCHANGED outcome
  BY <1>1, Typed, Plain DEF Pending, At, Passed, files, subject, FilesType, TypeInv
<1>2. CASE Exit(p, "success") /\ outcome' = [outcome EXCEPT ![p] = "nothing"]
  BY <1>2, Typed, ByExit DEF Pending, files, Exits, Good
<1> QED
  BY <1>1, <1>2 DEF Pending

\* The run has a result, and sending is what is left.
LEMMA RunKept ==
  ASSUME TypeInv, SoundInv, NEW p \in Processes, ProcessInv(p), Run(p)
  PROVE  Kept(p)
<1>1. PICK result \in {"whole", "failures", "ledger behind", "error"} :
        outcome' = [outcome EXCEPT ![p] = result]
  BY DEF Run
<1>2. /\ OutcomeType' /\ outcome'[p] = result /\ \A q \in Processes \ {p} : outcome'[q] = outcome[q]
  BY <1>1, Typed DEF OutcomeType, Good, Bad
<1>3. Running(p) /\ Head(todo[p]) = "run" /\ ~At(p, "confirm")
  BY DEF Run, At
<1>4. todo'[p] # <<>> => Head(todo'[p]) = "send"
  BY <1>3, Proceeded DEF Run, Follows
<1>5. Ready(p)'
  BY <1>2, <1>4 DEF Ready, At, Running, Bad
<1>6. FilesType'
  BY DEF Run, files, TypeInv, FilesType
<1> QED
  BY <1>2, <1>3, <1>5, <1>6, Typed, ByProceed DEF Run, files, invocation, subject

\* The job's exit code tells of its result.
LEMMA SendKept ==
  ASSUME TypeInv, SoundInv, NEW p \in Processes, ProcessInv(p), Send(p)
  PROVE  Kept(p)
<1>1. outcome[p] \in Bad \cup {"whole"}
  BY DEF Send, ProcessInv, Ready
<1>2. /\ ExitOf(outcome[p]) \in Exits
      /\ ExitOf(outcome[p]) = "success" => outcome[p] \in Good
      /\ ExitOf(outcome[p]) = "failure" => outcome[p] \in Bad
  BY <1>1 DEF ExitOf, Exits, Good
<1> QED
  BY <1>2, Typed, BySilentExit DEF Send, files

\* The other ends of a command.
LEMMA EndsKept ==
  ASSUME TypeInv, SoundInv, NEW p \in Processes, ProcessInv(p), Fails(p) \/ GivesUp(p) \/ Crash(p) \/ Done(p)
  PROVE  Kept(p)
<1>1. CASE Fails(p)
  <2>1. PICK step \in CanFail : At(p, step)
    BY <1>1 DEF Fails
  <2>2. step # "send"
    BY DEF CanFail, Preliminary
  <2> QED
    BY <1>1, <2>1, <2>2, FailsKept DEF Fails, files
<1>2. CASE GivesUp(p)
  BY <1>2, FailsKept DEF GivesUp, Asks, files
<1>3. CASE Crash(p)
  BY <1>3, Typed, BySilentExit DEF Crash, Exits, files
<1>4. CASE Done(p)
  BY <1>4, Typed, ByExit DEF Done, Exits, Good, files
<1> QED
  BY <1>1, <1>2, <1>3, <1>4

-----------------------------------------------------------------------------
(* What the files hold. *)

\* What is loaded stays sound where a process ends.
LEMMA ExitSound ==
  ASSUME TypeInv, SoundInv, NEW p \in Processes, NEW code, Exit(p, code)
  PROVE  \A q \in Processes : \A a \in Aliases : Sound(store'[q][a])
<1>1. \A q \in Processes : store'[q] = store[q] \/ store'[q] = Empty
  BY DEF Exit, TypeInv, SessionType
<1>2. \A a \in Aliases : Sound(Empty[a])
  BY NothingIsSound
<1> QED
  BY <1>1, <1>2 DEF SoundInv

\* A step that writes neither file.
LEMMA FilesSound ==
  ASSUME TypeInv, SoundInv, NEW p \in Processes, UNCHANGED <<keyring, conf>>,
         store' = store \/ \E code \in Exits : Exit(p, code)
  PROVE  SoundInv'
<1>1. \A q \in Processes : \A a \in Aliases : Sound(store'[q][a])
  BY ExitSound DEF SoundInv
<1> QED
  BY <1>1 DEF SoundInv, OnlyVerifiedIsUsed

\* A save writes what is sound: what was loaded, and what was tried since.
LEMMA WriteSound ==
  ASSUME TypeInv, SoundInv, NEW p \in Processes, ProcessInv(p), Write(p)
  PROVE  SoundInv'
<1>1. Sound(candidate[p])
  BY DEF Write, ProcessInv, Ready
<1>2. store[p] \in [Aliases -> Entries] /\ \A a \in Aliases : Sound(store[p][a])
  BY Typed DEF SoundInv
<1>3. \A a \in Aliases : keyring'[a] = store[p][a] \/ (a = about[p] /\ keyring'[a] = candidate[p])
  BY <1>2 DEF Write
<1>4. \A a \in Aliases : Sound(keyring'[a])
  BY <1>1, <1>2, <1>3
<1>5. \A q \in Processes : \A a \in Aliases : Sound(store'[q][a])
  BY ExitSound DEF Write
<1> QED
  BY <1>4, <1>5 DEF Write, SoundInv, OnlyVerifiedIsUsed

\* A section that is not there.
LEMMA NoSectionIsSound == SoundSection(NoSection)
BY DEF SoundSection, NoSection

\* rclone.conf is written from what was loaded.
LEMMA ConfSound ==
  ASSUME TypeInv, SoundInv, NEW p \in Processes, TruncateConf(p) \/ WriteConf(p)
  PROVE  SoundInv'
<1>1. \A a \in Aliases : SoundSection(conf'[a])
  <2>1. CASE TruncateConf(p)
    BY <2>1, NoSectionIsSound DEF TruncateConf, EmptyConfig
  <2>2. CASE WriteConf(p)
    <3> SUFFICES ASSUME NEW a \in Aliases
                 PROVE  SoundSection(Sections(store[p], environment[p])[a])
      BY <2>2 DEF WriteConf
    <3>1. CASE a \in Buckets(store[p])
      <4>1. store[p][a].kind = "bucket" /\ Sound(store[p][a])
        BY <3>1 DEF Buckets, SoundInv
      <4>2. Sections(store[p], environment[p])[a] = Section(environment[p][a], store[p][a])
        BY <3>1 DEF Sections
      <4> QED
        BY <4>1, <4>2 DEF Section, SoundSection, SecretFor, Sound
    <3>2. CASE a \notin Buckets(store[p])
      BY <3>2, NoSectionIsSound DEF Sections
    <3> QED
      BY <3>1, <3>2
  <2> QED
    BY <2>1, <2>2
<1>2. keyring' = keyring /\ (store' = store \/ \E code \in Exits : Exit(p, code))
  BY DEF TruncateConf, WriteConf, Passed, subject, Exits
<1>3. \A q \in Processes : \A a \in Aliases : Sound(store'[q][a])
  BY <1>2, ExitSound DEF SoundInv
<1> QED
  BY <1>1, <1>2, <1>3 DEF SoundInv, OnlyVerifiedIsUsed

\* What a process loads is the keyring.
LEMMA LoadSound ==
  ASSUME TypeInv, SoundInv, NEW p \in Processes, Load(p) PROVE SoundInv'
<1>1. \A q \in Processes : store'[q] = store[q] \/ store'[q] = keyring
  BY Typed DEF Load
<1> QED
  BY <1>1 DEF Load, files, SoundInv, OnlyVerifiedIsUsed

\* Every step keeps the files sound.
LEMMA SoundStep ==
  ASSUME TypeInv, SoundInv, NEW p \in Processes, ProcessInv(p),
         Begin(p) \/ Step(p) \/ User(p) \/ Crash(p)
  PROVE  SoundInv'
<1>1. CASE Begin(p)
  BY <1>1, FilesSound DEF Begin, files, subject
<1>2. CASE Passes(p) \/ Probe(p) \/ ListBucket(p) \/ LogIn(p) \/ Run(p)
  BY <1>2, FilesSound DEF Passes, Probe, ListBucket, LogIn, Run, files, subject
<1>3. CASE Fails(p) \/ GivesUp(p) \/ Crash(p) \/ Done(p) \/ Send(p)
  BY <1>3, FilesSound DEF Fails, GivesUp, Crash, Done, Send, ExitOf, files, Exits
<1>4. CASE Truncate(p)
  BY <1>4, NothingIsSound DEF Truncate, subject, SoundInv, OnlyVerifiedIsUsed
<1>5. CASE AskEmail(p) \/ AskBucket(p) \/ EditEmail(p) \/ EditBucket(p) \/ Cap(p) \/ Agree(p)
  <2>1. UNCHANGED <<keyring, conf>> /\ (store' = store \/ Exit(p, "success"))
    BY <1>5 DEF AskEmail, AskBucket, EditEmail, EditBucket, Cap, Agree, Describes, Cancels, files, subject
  <2> QED
    BY <2>1, FilesSound DEF Exits
<1>6. CASE FallsBack(p) \/ Answers(p)
  <2>1. UNCHANGED <<keyring, conf>> /\ (store' = store \/ Exit(p, "success") \/ Exit(p, "failure"))
    BY <1>6, Asked DEF Resolves, Refuses, Cancels, Passed, files, subject
  <2> QED
    BY <2>1, FilesSound DEF Exits
<1>7. CASE Pending(p)
  BY <1>7, FilesSound DEF Pending, Passed, files, subject, Exits
<1> QED
  BY <1>1, <1>2, <1>3, <1>4, <1>5, <1>6, <1>7, WriteSound, ConfSound, LoadSound DEF Step, User

-----------------------------------------------------------------------------
(* The theorems. *)

\* Every step keeps the rest, of its process and of the others.
LEMMA ActionKept ==
  ASSUME TypeInv, SoundInv, NEW p \in Processes, ProcessInv(p),
         Begin(p) \/ Step(p) \/ User(p) \/ Crash(p)
  PROVE  Kept(p)
<1>1. CASE Begin(p)
  BY <1>1, BeginKept
<1>2. CASE User(p)
  BY <1>2, AskKept, CapKept, QuestionsKept, EndsKept DEF User
<1>3. CASE Crash(p)
  BY <1>3, EndsKept
<1>4. CASE Step(p)
  BY <1>4, PassesKept, EndsKept, LoadKept, TruncateKept, WriteKept, TruncateConfKept, WriteConfKept,
     ProbeKept, ListBucketKept, LogInKept, QuestionsKept, PendingKept, RunKept, SendKept DEF Step
<1> QED
  BY <1>1, <1>2, <1>3, <1>4

\* Initially no process runs, and the keyring is as commands have left it.
LEMMA InitCommands == Init => CommandsInv
<1> SUFFICES ASSUME Init PROVE CommandsInv
  OBVIOUS
<1>1. keyring \in [Aliases -> Entries] /\ \A a \in Aliases : Sound(keyring[a])
  BY CommandsAssumption DEF Init
<1>2. TypeInv
  <2>1. SessionType
    BY AreEntries DEF Init, SessionType, Exits, Unset
  <2>2. 0 \in 0..MaxCommands
    BY CommandsAssumption
  <2> QED
    BY <1>1, <2>1, <2>2 DEF Init, TypeInv, FilesType, OutcomeType, Bad
<1>3. SoundInv
  BY <1>1, NothingIsSound, NoSectionIsSound DEF Init, SoundInv, OnlyVerifiedIsUsed, EmptyConfig
<1>4. ASSUME NEW p \in Processes PROVE ProcessInv(p)
  <2>1. todo[p] = <<>> /\ exit[p] = "none"
    BY DEF Init
  <2>2. Len(<<>>) = 0
    OBVIOUS
  <2>3. InOrder(<<>>)
    BY <2>2 DEF InOrder
  <2> QED
    BY <2>1, <2>3 DEF ProcessInv, Ready, Confirmed, Ended, At, Running
<1> QED
  BY <1>2, <1>3, <1>4 DEF CommandsInv

\* The invariant, for any constants.
LEMMA CommandsInvariant == Spec => []CommandsInv
<1>1. CommandsInv /\ [Next]_vars => CommandsInv'
  <2> SUFFICES ASSUME CommandsInv, [Next]_vars PROVE CommandsInv'
    OBVIOUS
  <2>1. ASSUME NEW p \in Processes, Begin(p) \/ Step(p) \/ User(p) \/ Crash(p) PROVE CommandsInv'
    <3>1. Kept(p) /\ SoundInv'
      BY <2>1, ActionKept, SoundStep DEF CommandsInv
    <3>2. ASSUME NEW q \in Processes PROVE ProcessInv(q)'
      BY <3>1, LeftAlone DEF CommandsInv, Kept
    <3> QED
      BY <3>1, <3>2 DEF CommandsInv, Kept
  <2>2. CASE UNCHANGED vars
    BY ZenonT(60), <2>2 DEF vars, files, invocation, session, subject, CommandsInv, TypeInv, FilesType, SessionType,
       OutcomeType, SoundInv, OnlyVerifiedIsUsed, ProcessInv, Ready, Confirmed, Ended, At, Running
  <2> QED
    BY <2>1, <2>2 DEF Next
<1> QED
  BY InitCommands, <1>1, PTL DEF Spec

\* The variables have their types, whichever commands run beside each other.
THEOREM TypeCorrect == Spec => []TypeOK
<1>1. CommandsInv => TypeOK
  <2> SUFFICES ASSUME CommandsInv PROVE TypeOK
    OBVIOUS
  <2>1. /\ \A a \in Aliases : keyring[a] \in Entries
        /\ \A p \in Processes, a \in Aliases : store[p][a] \in Entries
        /\ started \in 0..MaxCommands
    BY Typed DEF CommandsInv, TypeInv
  <2>2. ASSUME NEW p \in Processes
        PROVE  /\ candidate[p] \in Entries /\ about[p] \in Aliases \cup {"none"}
               /\ command[p] \in DOMAIN Programs \cup {"none"}
               /\ outcome[p] \in Good \cup Bad /\ exit[p] \in Exits
               /\ exit[p] # "none" => ~Running(p)
    BY DEF CommandsInv, TypeInv, SessionType, OutcomeType, ProcessInv, Ended
  <2>3. ASSUME NEW p \in Processes PROVE {todo[p][i] : i \in DOMAIN todo[p]} \subseteq Steps
    BY Typed DEF CommandsInv
  <2> QED
    BY <2>1, <2>2, <2>3 DEF TypeOK, Steps, Good, Bad, Exits
<1> QED
  BY CommandsInvariant, <1>1, PTL

\* What keyring.toml and rclone.conf hold has been tried with a server as it will
\* be used.
THEOREM VerifiedAlone == Spec => []OnlyVerifiedIsUsed
<1>1. CommandsInv => OnlyVerifiedIsUsed
  BY DEF CommandsInv, SoundInv
<1> QED
  BY CommandsInvariant, <1>1, PTL

\* A command's exit code says how it ended, and no job runs unconfirmed.
THEOREM OutcomesAreTrue == Spec => []OutcomeIsTrue
<1>1. CommandsInv => OutcomeIsTrue
  <2> SUFFICES ASSUME CommandsInv, NEW p \in Processes
               PROVE  /\ exit[p] = "success" => outcome[p] \in Good
                      /\ exit[p] = "failure" => outcome[p] \notin Good
                      /\ At(p, "send") /\ command[p] \in Jobs \ {"email_scan"} => terminal[p] \/ nonInteractive[p]
    BY DEF OutcomeIsTrue, Good
  <2>1. ProcessInv(p)
    BY DEF CommandsInv
  <2>2. ASSUME At(p, "send") PROVE Elements(todo[p]) = {"send"}
    <3>1. /\ todo[p] \in Seq(Steps) /\ todo[p] # <<>> /\ Head(todo[p]) = "send" /\ InOrder(todo[p])
      BY <2>1, <2>2, Typed DEF CommandsInv, At, Running, ProcessInv
    <3>2. Len(todo[p]) \in Nat \ {0} /\ todo[p][1] = "send"
      BY <3>1
    <3>3. ~(1 \in 1..(Len(todo[p]) - 1))
      BY <3>1, <3>2 DEF InOrder, Follows
    <3>4. Len(todo[p]) = 1
      <4> DEFINE n == Len(todo[p])
      <4>1. n \in Nat \ {0} /\ ~(1 \in 1..(n - 1))
        BY <3>2, <3>3
      <4> HIDE DEF n
      <4>2. n = 1
        BY <4>1
      <4> QED
        BY <4>2 DEF n
    <3> QED
      BY <3>2, <3>4 DEF Elements
  <2>3. At(p, "send") => Running(p) /\ "confirm" \notin Elements(todo[p])
    BY <2>2 DEF At
  <2>4. exit[p] = "failure" => outcome[p] \notin Good
    BY <2>1 DEF ProcessInv, Ended, Good, Bad
  <2> QED
    BY <2>1, <2>3, <2>4 DEF ProcessInv, Ended, Confirmed
<1> QED
  BY CommandsInvariant, <1>1, PTL

=============================================================================
