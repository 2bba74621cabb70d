--------------------------- MODULE MCTransformFile ---------------------------
(* Small instance of TransformFile.  Each listing is what one run's kind     *)
(* matches: a workbook, and one of another kind; two that differ by case; the   *)
(* same in directories; directories that differ by case and share no key; a    *)
(* video, and one in an audio run; a message; two that only local_fold takes   *)
(* for one, and two that only the volume does; three files of which two are    *)
(* bad, and two of which one is; one for each other way convert_one goes.     *)
EXTENDS TransformFile

book == <<"b">>
BOOK == <<"B">>
inA == <<"A", "c">>
ina == <<"a", "c">>
onA == <<"A", "d">>
ona == <<"a", "d">>
stray == <<"stray">>
film == <<"film">>
song == <<"song">>
mail == <<"mail">>
sigma == <<"s1">>
Sigma == <<"s2">>
sharp == <<"ss">>
Sharp == <<"sz">>
clip1 == <<"c1">>
clip2 == <<"c2">>
clip3 == <<"c3">>

\* Input kinds listed with one file, and what that file is.
Single ==
  [epub |-> "good", rst |-> "good", key |-> "wrongKind", icns |-> "broken", csv |-> "good",
   vcf |-> "broken", procreate |-> "broken", jpeg |-> "good"]

MCKeyOrder ==
  <<inA, onA, BOOK, ina, ona, book,
    <<"csv">>, <<"epub">>, film, <<"icns">>, <<"jpeg">>, <<"key">>, mail, clip1, clip2, clip3,
    <<"procreate">>, <<"rst">>, sigma, Sigma, song, sharp, stray, Sharp, <<"vcf">>>>

Names == UNION {ToSet(p) : p \in ToSet(KeyOrder)}

MCLocalFold == [x \in Names |-> CASE x = "A" -> "a" [] x = "B" -> "b" [] x = "s2" -> "s1" [] OTHER -> x]
MCOnVolume == [x \in Names |-> CASE x = "A" -> "a" [] x = "B" -> "b" [] x = "sz" -> "ss" [] OTHER -> x]

MCListings ==
  {{book}, {stray}, {BOOK, book}, {inA, ina}, {inA, ona}, {film}, {song}, {mail},
   {sigma, Sigma}, {sharp, Sharp}, {clip1, clip2, clip3}, {clip1, clip3}}
    \cup {{<<n>>} : n \in DOMAIN Single}

MCKind == [k \in ToSet(KeyOrder) |->
  CASE k \in {book, BOOK, stray} -> "numbers"
    [] k \in {inA, onA, ina, ona} -> "eps"
    [] k = mail -> "md"
    [] k = film -> "mov"
    [] k = song -> "m4a"
    [] k \in {sigma, Sigma, sharp, Sharp} -> "txt"
    [] k \in {clip1, clip2, clip3} -> "textclipping"
    [] OTHER -> k[1]]
MCNature == [k \in ToSet(KeyOrder) |->
  CASE k = mail -> "email"
    [] k \in {stray, song, clip1, clip2} -> "wrongKind"
    [] k[1] \in DOMAIN Single -> Single[k[1]]
    [] OTHER -> "good"]
MCSheets == [k \in ToSet(KeyOrder) |-> IF k = book THEN <<2, 3>> ELSE <<1>>]
=============================================================================
