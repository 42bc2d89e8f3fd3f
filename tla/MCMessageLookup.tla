-------------------------- MODULE MCMessageLookup --------------------------
(* A small installation: two directories, German in three files, French in two, *)
(* and a program that asks for two domains.                                      *)
EXTENDS MessageLookup, TLC

CONSTANTS t1, t2

MCThreads == {t1, t2}
MCULongs == 16
MCNormal == [c \in {"UTF-8", "ISO-8859-1", "utf8"} |->
               CASE c = "UTF-8" -> "utf8" [] c = "ISO-8859-1" -> "iso88591" [] OTHER -> c]
MCHashString == [m \in 0..4 |-> IF m = 0 THEN 0 ELSE 5 * m + 2]

\* Names.
German    == [language |-> "de", territory |-> "DE", codeset |-> "UTF-8", modifier |-> ""]
Alias     == Named("german")
French    == Named("fr")
MCAliases == Alias :> [German EXCEPT !.codeset = "", !.territory = ""]

MCEnvironments ==
  {[locale |-> German, LANGUAGE |-> <<>>],
   [locale |-> German, LANGUAGE |-> <<French, Alias>>],
   [locale |-> C, LANGUAGE |-> <<French>>]}

\* Catalogs.  n % 10 = 1 ? 0 : 1
Tens == <<N, Number(10), Expr("module", <<1, 2>>), Number(1), Expr("equal", <<3, 4>>),
          Number(0), Expr("qmop", <<5, 6, 4>>)>>
Plain(charset, plural) == [charset |-> charset, plural |-> plural, nplurals |-> 2]
File(orig, trans, hash, header) ==
  [magic |-> "right", major |-> 0, minor |-> 0, orig |-> orig, trans |-> trans,
   hash |-> hash, segments |-> <<>>, sysdep |-> <<>>, header |-> header]

\* With a hash table of five places: 0 at place 0, 1 (hash 7) at 2.
DE     == File(<<0, 1>>, <<<<"">>, <<"Taste", "Tasten">>>>, <<1, 0, 2, 0, 0>>,
               Plain("ISO-8859-1", Tens))
\* Without one; a message more.
DE_utf8 == File(<<0, 1, 2>>, <<<<"">>, <<"Knopf", "Knoepfe">>, <<"Maus">>>>, <<>>,
                Plain("UTF-8", NULL))
\* With a system dependent message and one that has to drop out.
FR     == [File(<<0, 1>>, <<<<"">>, <<"bouton", "boutons">>>>, <<1, 0, 2, 0, 0>>,
                Plain("KOI8-R", NULL))
           EXCEPT !.minor = 1, !.segments = <<<<"PRI", "u", "64">>, <<"PRI", "q", "64">>>>,
                  !.sysdep = <<[orig |-> 3, trans |-> <<"trois">>, refs |-> <<1>>],
                               [orig |-> 4, trans |-> <<"quatre">>, refs |-> <<1, 2>>]>>]
\* Two that are refused.
Broken == [DE EXCEPT !.magic = "wrong"]
Unterminated == [FR EXCEPT !.segments = <<<<>>, <<"PRI", "u", "64">>>>]

At_(dir, name, mask, domain) == Path(dir, name, mask, domain)
MCFiles ==
     At_("/usr", German, 0, "btnx") :> DE
  @@ At_("/usr", German, 1, "btnx") :> DE_utf8
  @@ At_("/usr", German, 5, "btnx") :> Broken
  @@ At_("/usr", French, 0, "btnx") :> FR
  @@ At_("/opt", German, 4, "btnx") :> DE_utf8
  @@ At_("/opt", French, 0, "btnx") :> Unterminated

MCIconv == [c \in {"ISO-8859-1", "UTF-8", "KOI8-R"} \X {"UTF-8", "ISO-8859-1"} |->
              CASE c = <<"KOI8-R", "ISO-8859-1">> -> "illegal"
                [] c = <<"UTF-8", "ISO-8859-1">> -> "none"
                [] OTHER -> "ok"]

MCQuestions ==
  {[domain |-> "btnx", msgid |-> 1, plural |-> TRUE, n |-> 11],
   [domain |-> NULL, msgid |-> 3, plural |-> FALSE, n |-> 0]}
MCDirs == {"/opt"}
MCCodesets == {"ISO-8859-1"}
=============================================================================
