--------------------------- MODULE MessageLookup ---------------------------
(***************************************************************************)
(* gettext() and its settings, as src/intl builds them: dcigettext.c,      *)
(* finddomain.c, loadmsgcat.c, bindtextdom.c, textdomain.c, localealias.c. *)
(* Threads look messages up under the read lock _nl_state_lock; a setting  *)
(* is changed under its write lock, while no look-up is under way.  The    *)
(* list of catalogs, the catalogs' contents and the tree of known          *)
(* translations are filled as they are asked for.                          *)
(*                                                                         *)
(* The build without per-thread locales; one category, LC_MESSAGES, while  *)
(* LC_CTYPE keeps its charset; one absolute directory per domain; memory   *)
(* does not run out.                                                       *)
(***************************************************************************)
EXTENDS MessageCatalog, LocaleNames, SequencesExt

CONSTANTS
  Threads,
  Questions,      \* the calls: [domain (or NULL), msgid, plural, n]
  Dirs, Codesets, \* what a domain can be bound to
  Environments,   \* [locale, LANGUAGE]: a name, C if nothing is set; a sequence of names
  Aliases,        \* the locale.alias files, a partial function from names to names
  Files,          \* the catalogs on the disk, a partial function from paths
  Iconv,          \* Iconv[from, to]: "ok", "none" (cannot be opened), "illegal"
  OutputCharset,  \* OUTPUT_CHARSET, or else the charset of LC_CTYPE, which then stays
  DefaultDir, DefaultDomain,
  MaxCalls, MaxSettings  \* bounds

ASSUME BoundsAssumption == {MaxCalls, MaxSettings} \subseteq Nat
ASSUME ThreadsOK == NULL \notin Threads
ASSUME NamesOK == \A e \in Environments : e.LANGUAGE \in Seq(Range(e.LANGUAGE))

VARIABLES
  bindings,  \* _nl_domain_bindings: domain -> [dirname, codeset]
  current,   \* _nl_current_default_domain
  counter,   \* _nl_msg_cat_cntr
  env,       \* what the environment and setlocale say
  known,     \* root: <<domain, msgid>> -> [counter, domain, translation]
  loaded,    \* _nl_loaded_domains: path -> [decided, data, conversions]
  lock,      \* the recursive lock of _nl_load_domain: [owner, depth]
  th,        \* the threads' program counters and local variables
  broken,    \* history: two threads extended one catalog's conversions at once
  since,     \* history: the environments there were since counter was changed
  calls, settings
vars == <<bindings, current, counter, env, known, loaded, lock, th, broken, since, calls, settings>>

Domains == {q.domain : q \in Questions} \ {NULL}
Idle == [pc |-> "idle"]
Free == [owner |-> NULL, depth |-> 0]
Named(language) == [language |-> language, territory |-> "", codeset |-> "", modifier |-> ""]
C == Named("C")
NoLanguage == {C, Named("POSIX")}

Init ==
  /\ bindings = << >> /\ current = DefaultDomain /\ counter = 0
  /\ env \in Environments /\ since = {env}
  /\ known = << >> /\ loaded = << >> /\ lock = Free /\ broken = FALSE
  /\ th = [t \in Threads |-> Idle]
  /\ calls = 0 /\ settings = 0

Binding(d) == IF d \in DOMAIN bindings THEN bindings[d]
              ELSE [dirname |-> DefaultDir, codeset |-> NULL]

\* guess_category_value: the names to try.
Languages(e) ==
  IF e.locale = C \/ e.LANGUAGE = <<>> THEN <<e.locale>> ELSE e.LANGUAGE

\* get_output_charset.
Encoding(codeset) == IF codeset # NULL THEN codeset ELSE OutputCharset

\* The form a question asks for, and the msgids themselves, by the Germanic rule.
Form(q, data, forms) == IF q.plural THEN plural_lookup(data, q.n, forms) ELSE forms[1]
Untranslated(q) == <<q.msgid, IF ~q.plural \/ q.n = 1 THEN 1 ELSE 2>>
-----------------------------------------------------------------------------
(* Settings. *)

Quiet == \A t \in Threads : th[t].pc = "idle"
Flushes == counter' = counter + 1 /\ since' = {env}
Sets == settings < MaxSettings /\ settings' = settings + 1

\* BINDTEXTDOMAIN and BIND_TEXTDOMAIN_CODESET: set_binding_values.
Binds(d, b) ==
  /\ Quiet /\ Sets
  /\ IF d \in DOMAIN bindings /\ bindings[d] = b
     THEN UNCHANGED <<bindings, counter, since>>
     ELSE bindings' = [x \in DOMAIN bindings \cup {d} |-> IF x = d THEN b ELSE bindings[x]] /\ Flushes
  /\ UNCHANGED <<current, env, known, loaded, lock, th, broken, calls>>
BindDir(d, dir)   == Binds(d, [Binding(d) EXCEPT !.dirname = dir])
BindCodeset(d, c) == Binds(d, [Binding(d) EXCEPT !.codeset = c])

\* TEXTDOMAIN.  It flushes even if the name is the old one.
TextDomain(d) ==
  /\ Quiet /\ Sets
  /\ current' = d /\ Flushes
  /\ UNCHANGED <<bindings, env, known, loaded, lock, th, broken, calls>>

\* The program changes its locale or LANGUAGE: nothing tells the library.
SetsEnvironment(e) ==
  /\ Sets
  /\ env' = e /\ since' = since \cup {e}
  /\ UNCHANGED <<bindings, current, counter, known, loaded, lock, th, broken, calls>>
-----------------------------------------------------------------------------
(* A call. *)

Goes(t, local) == th' = [th EXCEPT ![t] = local]
At(t, pc) == th[t].pc = pc
Key(local) == <<local.domain, local.q.msgid>>
Here(t) == Head(th[t].chain)

\* The catalog does not have the message: on to the next one.
Passes(t) == Goes(t, [th[t] EXCEPT !.pc = "visit", !.chain = Tail(@)])
Answers(t, local, r) == Goes(t, [local EXCEPT !.pc = "return", !.result = r])

\* An answer: nothing, or a translation and the catalog it is from.
Chosen(path, text) == <<[domain |-> path, text |-> text]>>

\* Up to the tree of known translations.
FreshNot(key) == TRUE  \* the counter not compared
Fresh(key) == known[key].counter = counter
Calls(t, q) ==
  LET d == IF q.domain = NULL THEN current ELSE q.domain
      b == Binding(d)
      key == <<d, q.msgid>>
      local == [pc |-> "next", q |-> q, domain |-> d, found |-> key \in DOMAIN known,
                dirname |-> b.dirname, encoding |-> Encoding(b.codeset),
                names |-> Languages(env), chain |-> <<>>, text |-> NULL,
                result |-> <<>>, raced |-> FALSE]
  IN /\ At(t, "idle") /\ calls < MaxCalls /\ calls' = calls + 1
     /\ Goes(t, [local EXCEPT !.pc = IF local.found /\ Fresh(key) THEN "hit" ELSE "next"])
     /\ UNCHANGED <<bindings, current, counter, env, known, loaded, lock, broken, since, settings>>

\* A known translation is used; another thread may be in the middle of changing it.
Hits(t) ==
  LET key == Key(th[t])
      k == known[key]
      torn == \E u \in Threads : At(u, "update") /\ Key(th[u]) = key
  IN /\ At(t, "hit")
     /\ Answers(t, [th[t] EXCEPT !.raced = torn], Chosen(k.domain, k.translation))
     /\ UNCHANGED <<bindings, current, counter, env, known, loaded, lock, broken, since, calls, settings>>

\* _nl_expand_alias.
Expanded(name) == IF name \in DOMAIN Aliases THEN Aliases[name] ELSE name

\* The next name of the list.  _nl_find_domain looks for it as it is written first.
NextName(t) ==
  LET names == th[t].names
      chain == Chain(th[t].dirname, Head(names), Written(Head(names)), th[t].domain)
  IN /\ At(t, "next")
     /\ IF names = <<>> \/ Head(names) \in NoLanguage
        THEN Answers(t, th[t], <<>>)
        ELSE IF Head(chain) \in DOMAIN loaded
        THEN Goes(t, [th[t] EXCEPT !.pc = "visit", !.names = Tail(names),
                                   !.chain = chain])
        ELSE Goes(t, [th[t] EXCEPT !.pc = "make"])
     /\ UNCHANGED <<bindings, current, counter, env, known, loaded, lock, broken, since, calls, settings>>

\* _nl_make_l10nflist, allocating: an entry for the name and for everything it
\* inherits from.  Those that are there already stay.
Entry(path) ==
  [decided |-> IF Len(path.codesets) = 2 THEN 1 ELSE 0, data |-> NULL, conversions |-> {}]
Makes(t) ==
  LET name == Expanded(Head(th[t].names))
      chain == Chain(th[t].dirname, name, Mask(name), th[t].domain)
  IN /\ At(t, "make")
     /\ loaded' = [path \in DOMAIN loaded \cup Range(chain) |->
                     IF path \in DOMAIN loaded THEN loaded[path] ELSE Entry(path)]
     /\ Goes(t, [th[t] EXCEPT !.pc = "visit", !.names = Tail(@), !.chain = chain])
     /\ UNCHANGED <<bindings, current, counter, env, known, lock, broken, since, calls, settings>>

\* A catalog of the chain is loaded if nobody has done so.  (_nl_find_domain goes over
\* the chain up to the first catalog with contents, then _nl_find_msg goes over it
\* again; the second pass finds the first one's catalogs decided.)
NotLoadedYet(path) == loaded[path].decided = 0  \* one being loaded passes
NotLoaded(path) == loaded[path].decided <= 0
Visits(t) ==
  /\ At(t, "visit")
  /\ IF th[t].chain = <<>> THEN Goes(t, [th[t] EXCEPT !.pc = "next"])
     ELSE Goes(t, [th[t] EXCEPT !.pc = IF NotLoaded(Here(t)) THEN "load" ELSE "find"])
  /\ UNCHANGED <<bindings, current, counter, env, known, loaded, lock, broken, since, calls, settings>>
-----------------------------------------------------------------------------
(* _nl_load_domain, with its recursive lock. *)

MayLockOnce(t) == lock = Free  \* not recursive
MayLock(t) == lock.owner \in {NULL, t}
Unlocked == IF lock.depth = 1 THEN Free ELSE [lock EXCEPT !.depth = @ - 1]

Loads(t) ==
  /\ At(t, "load") /\ MayLock(t)
  /\ IF loaded[Here(t)].decided # 0
     THEN Goes(t, [th[t] EXCEPT !.pc = "find"]) /\ UNCHANGED <<loaded, lock>>
     ELSE /\ lock' = [owner |-> t, depth |-> lock.depth + 1]
          /\ loaded' = [loaded EXCEPT ![Here(t)].decided = -1, ![Here(t)].data = NULL]
          /\ Goes(t, [th[t] EXCEPT !.pc = "read"])
  /\ UNCHANGED <<bindings, current, counter, env, known, broken, since, calls, settings>>

\* The file is opened, checked and taken in.
ReadsFile(t) ==
  LET path == Here(t)
      data == IF path \in DOMAIN Files THEN Loaded(Files[path]) ELSE NULL
  IN /\ At(t, "read")
     /\ IF data = NULL
        THEN /\ loaded' = [loaded EXCEPT ![path].decided = 1]
             /\ lock' = Unlocked
             /\ Goes(t, [th[t] EXCEPT !.pc = "find"])
        ELSE /\ loaded' = [loaded EXCEPT ![path].data = data]
             /\ Goes(t, [th[t] EXCEPT !.pc = "header"])
             /\ UNCHANGED lock
     /\ UNCHANGED <<bindings, current, counter, env, known, broken, since, calls, settings>>

\* The header is looked up by _nl_find_msg, which calls _nl_load_domain again; its
\* second call takes the lock and gives it back.
ReadsHeader(t) ==
  /\ At(t, "header") /\ MayLock(t)
  /\ loaded' = [loaded EXCEPT ![Here(t)].decided = 1]
  /\ lock' = Unlocked
  /\ Goes(t, [th[t] EXCEPT !.pc = "find"])
  /\ UNCHANGED <<bindings, current, counter, env, known, broken, since, calls, settings>>
-----------------------------------------------------------------------------
(* _nl_find_msg, from the look into the catalog to the converted translation. *)

\* What iconv makes of a translation: its charset is the header's, or NULL if it does not
\* say; it stays as it is if no conversion can be opened, and cannot be used if it has
\* a character the encoding does not have.
Converted(data, forms, encoding) ==
  LET charset == IF Find(data, 0) = 0 THEN NULL ELSE data.header.charset
  IN IF charset = NULL \/ Iconv[charset, encoding] = "none"
     THEN [forms |-> forms, charset |-> charset]
     ELSE IF Iconv[charset, encoding] = "illegal" THEN NULL
     ELSE [forms |-> forms, charset |-> encoding]

\* The translation of m in data, NULL if there is none that can be used.
Translation(data, m, encoding) ==
  IF data = NULL \/ Find(data, m) = 0 THEN NULL
  ELSE Converted(data, data.trans[Find(data, m)], encoding)

Takes(t, text) ==
  IF text = NULL THEN Passes(t) ELSE Goes(t, [th[t] EXCEPT !.pc = "store", !.text = text])

\* The first use of an encoding enlarges the catalog's array of conversions, under no
\* lock but the shared one.
Finds(t) ==
  LET path == Here(t)
      data == loaded[path].data
      first == th[t].encoding \notin loaded[path].conversions
      both  == \E u \in Threads \ {t} : At(u, "open") /\ Here(u) = path
  IN /\ At(t, "find")
     /\ IF data # NULL /\ Find(data, th[t].q.msgid) # 0 /\ first
        THEN Goes(t, [th[t] EXCEPT !.pc = "open"]) /\ broken' = (broken \/ both)
        ELSE Takes(t, Translation(data, th[t].q.msgid, th[t].encoding)) /\ UNCHANGED broken
     /\ UNCHANGED <<bindings, current, counter, env, known, loaded, lock, since, calls, settings>>

\* iconv_open, and the conversion.  After two threads did this at once the array may
\* hold anything: the translation may be lost or garbled.
Opens(t) ==
  LET path == Here(t)
      text == Translation(loaded[path].data, th[t].q.msgid, th[t].encoding)
  IN /\ At(t, "open")
     /\ loaded' = [loaded EXCEPT ![path].conversions = @ \cup {th[t].encoding}]
     /\ \E r \in {text} \cup IF broken THEN {NULL, [forms |-> <<"garbled">>, charset |-> NULL]} ELSE {} :
          Takes(t, r)
     /\ UNCHANGED <<bindings, current, counter, env, known, lock, broken, since, calls, settings>>

\* Back in DCIGETTEXT: a new node, unless another thread was faster, or the old node's
\* fields one after the other, its counter first.
Stores(t) ==
  LET key == Key(th[t])
      new == [counter |-> counter, domain |-> Here(t), translation |-> th[t].text]
  IN /\ At(t, "store")
     /\ IF th[t].found
        THEN /\ known' = [known EXCEPT ![key].counter = counter]
             /\ Goes(t, [th[t] EXCEPT !.pc = "update"])
        ELSE /\ known' = [k \in DOMAIN known \cup {key} |->
                             IF k \in DOMAIN known THEN known[k] ELSE new]
             /\ Answers(t, th[t], Chosen(Here(t), th[t].text))
     /\ UNCHANGED <<bindings, current, counter, env, loaded, lock, broken, since, calls, settings>>
Updates(t) ==
  /\ At(t, "update")
  /\ known' = [known EXCEPT ![Key(th[t])].domain = Here(t), ![Key(th[t])].translation = th[t].text]
  /\ Answers(t, th[t], Chosen(Here(t), th[t].text))
  /\ UNCHANGED <<bindings, current, counter, env, loaded, lock, broken, since, calls, settings>>

\* What the caller gets: its form of the translation, which the rule in its catalog's
\* data chooses, or the msgid.
Given(q, answer, data) ==
  IF answer = <<>> THEN [domain |-> NULL, text |-> Untranslated(q)]
  ELSE [domain |-> answer[1].domain,
        text |-> <<Form(q, data, answer[1].text.forms), answer[1].text.charset>>]
Said(t) == Given(th[t].q, th[t].result, loaded[th[t].result[1].domain].data)

Returns(t) ==
  /\ At(t, "return")
  /\ Goes(t, Idle)
  /\ UNCHANGED <<bindings, current, counter, env, known, loaded, lock, broken, since, calls, settings>>
-----------------------------------------------------------------------------
Runs(t) ==
  \/ Hits(t) \/ NextName(t) \/ Makes(t) \/ Visits(t)
  \/ Loads(t) \/ ReadsFile(t) \/ ReadsHeader(t)
  \/ Finds(t) \/ Opens(t) \/ Stores(t) \/ Updates(t) \/ Returns(t)

Next ==
  \/ \E t \in Threads : Runs(t)
  \/ \E t \in Threads, q \in Questions : Calls(t, q)
  \/ \E d \in Domains : (\E dir \in Dirs : BindDir(d, dir)) \/ (\E c \in Codesets : BindCodeset(d, c))
  \/ \E d \in Domains : TextDomain(d)
  \/ \E e \in Environments : SetsEnvironment(e)

Spec == Init /\ [][Next]_vars /\ \A t \in Threads : WF_vars(Runs(t))
-----------------------------------------------------------------------------
(* Properties. *)

\* The contents of a catalog: a file with both spellings of the codeset is not read.
Contents(path) ==
  IF path \in DOMAIN Files /\ Len(path.codesets) # 2 THEN Loaded(Files[path]) ELSE NULL

\* What a call should answer, searched for from nothing: the first catalog of a chain
\* that has the message in a form that can be used,
Usable(chain, local) ==
  LET text(i) == Translation(Contents(chain[i]), local.q.msgid, local.encoding)
      has == {i \in DOMAIN chain : text(i) # NULL}
  IN IF has = {} THEN <<>>
     ELSE LET i == CHOOSE i \in has : \A j \in has : i <= j IN Chosen(chain[i], text(i))

\* with the first name that has one.  A name is searched for with all its parts once,
\* and as it is written later.
ChainsOf(name, local) ==
  LET full == Expanded(name)
  IN {Chain(local.dirname, full, Mask(full), local.domain),
      Chain(local.dirname, name, Written(name), local.domain)}

InVain(name, local) ==
  name \notin NoLanguage /\ \E chain \in ChainsOf(name, local) : Usable(chain, local) = <<>>

Right(names, local) ==
  UNION {IF n > Len(names) \/ names[n] \in NoLanguage THEN {<<>>}
         ELSE {Usable(chain, local) : chain \in ChainsOf(names[n], local)} \ {<<>>}
         : n \in {k \in 1..(Len(names) + 1) : \A m \in 1..(k - 1) : InVain(names[m], local)}}

\* A call answers with the translation the present bindings lead to, for the present
\* languages or for ones there were since the last setting; a cached translation, a
\* catalog another thread has loaded and one found by a shorter name make no
\* difference.  Not promised when two threads use an encoding of a catalog for the
\* first time at once, or when the node is being changed.
AnswersRight ==
  broken \/ \A t \in Threads :
    At(t, "return") /\ ~th[t].raced =>
      \E e \in since : \E r \in Right(Languages(e), th[t]) :
        Said(t) = Given(th[t].q, r, Contents(r[1].domain))

\* A thread never looks into a catalog that another one is still loading.
UsesOnlyLoaded ==
  \A t \in Threads :
    At(t, "find") \/ At(t, "open") => loaded[Here(t)].decided = 1

\* Every call returns: no thread waits for itself, nor two for one another.
EveryCallReturns == \A t \in Threads : [](~At(t, "idle") => <>At(t, "idle"))
=============================================================================
