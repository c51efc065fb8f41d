--------------------------- MODULE UpgradeProofs ---------------------------
(* Proofs about what sits on top of a switch: the packages and the images. *)
EXTENDS PackageManager, SonicInstaller, SequenceTheorems, FiniteSetTheorems, TLAPS

(***************************************************************************)
(* The package manager.                                                    *)
(***************************************************************************)
Entries ==
  [installed : BOOLEAN, version : Versions \cup {0},
   image : {ImageOf[p] : p \in Packages} \cup {"None"}, default : Versions \cup {0}]

\* What packages.json says of an installed package fits together.
SoundEntry(n, e) ==
  e \in Entries /\ (e.installed => e.version \in Versions /\ e.image = ImageOf[<<n, e.version>>])

Database(d) ==
  /\ DOMAIN d \subseteq Names /\ d = [n \in DOMAIN d |-> d[n]]
  /\ \A n \in DOMAIN d : SoundEntry(n, d[n])

\* The verbs that leave the service of their package as it is.
CalmVerbs ==
  {"source.install", "source.uninstall", "order", "plugins", "unplug", "start", "stop", "disable",
   "rm", "rmi", "missing"}

\* The steps of a command, and the steps that undo one.
Verbs == CalmVerbs \cup {"create", "recreate", "remove", "unmake", "update"}
Options == BOOLEAN \cup {"", "enabled", "disabled"} \cup SUBSET Packages
Undos == [do : Verbs, pkg : Packages, opt : Options, undo : {<<>>}]
Steps == [do : Verbs, pkg : Packages, opt : Options, undo : Seq(Undos)]

ProcessStates == {"idle", "ready", "run", "undo", "migrate"}

\* A process: its fields, with a copy of packages.json when it is at work and
\* a package it is to change when it runs a command.
Process(me) ==
  /\ me = [pc |-> me.pc, db |-> me.db, name |-> me.name, entry |-> me.entry, todo |-> me.todo,
           undo |-> me.undo, more |-> me.more, ignored |-> me.ignored, edit |-> me.edit,
           rollback |-> me.rollback]
  /\ me.pc \in ProcessStates /\ me.more \subseteq DOMAIN OldPackages
  /\ me.ignored \in BOOLEAN /\ me.edit \in BOOLEAN /\ me.rollback \in BOOLEAN
  /\ me.todo \in Seq(Steps) /\ me.undo \in Seq(Undos)
  /\ me.pc # "idle" => Database(me.db) /\ me.more \subseteq DOMAIN me.db
  /\ me.pc \in {"run", "undo"} => me.name \in DOMAIN me.db /\ SoundEntry(me.name, me.entry)

Whole(s) ==
  s = [images |-> s.images, files |-> s.files, lists |-> s.lists, features |-> s.features,
       plugins |-> s.plugins, order |-> s.order, up |-> s.up, config |-> s.config]

SystemRecord(s) ==
  /\ Whole(s)
  /\ s.files = [n \in Names |-> s.files[n]] /\ s.features = [n \in Names |-> s.features[n]]
  /\ DOMAIN s.order = {"fast", "warm"}

PackageTypeOK ==
  /\ Database(file) /\ SystemRecord(sys)
  /\ client = [c \in Clients |-> client[c]] /\ \A c \in Clients : Process(client[c])
  /\ suspect \subseteq Names /\ unchecked \in BOOLEAN

\* The lock is held for a whole command, and by one process.
LockHeld ==
  \A c \in Clients : client[c].pc \in {"run", "undo", "migrate"} <=> lock = c

\* A command that passed its checks leaves packages that fit together.
FitAtEnd ==
  \A c \in Clients :
    client[c].pc = "run" /\ ~client[c].ignored =>
      validate_package_tree(
        get_installed_packages([client[c].db EXCEPT ![client[c].name] = client[c].entry]))

---------------------------------------------------------------------------
LEMMA InstalledArePackages ==
  ASSUME NEW d, Database(d)
  PROVE  get_installed_packages(d) \subseteq Packages
  BY DEF Database, SoundEntry, Entries, get_installed_packages, get_installed_package, Installed, Packages

LEMMA SameInstalled ==
  ASSUME NEW d, Lost(d) = {}
  PROVE  get_installed_packages(d) = get_installed_packages(file)
<1>1. \A m \in DOMAIN d \cup DOMAIN file :
        is_installed(file, m) \/ is_installed(d, m) => m \in DOMAIN d \cap DOMAIN file /\ d[m] = file[m]
  BY DEF Lost
<1> QED
  BY <1>1 DEF get_installed_packages, get_installed_package, Installed, is_installed, has_package

\* What add-repository, remove-repository and an update of an entry make of
\* the installed packages.
LEMMA InstalledOfUpdate ==
  ASSUME NEW d, Database(d), NEW n \in DOMAIN d, NEW e
  PROVE  get_installed_packages([d EXCEPT ![n] = e]) =
           {q \in get_installed_packages(d) : q[1] # n} \cup
           (IF e.installed THEN {<<n, e.version>>} ELSE {})
  <1> DEFINE x == [d EXCEPT ![n] = e]
  <1>1. DOMAIN x = DOMAIN d /\ x[n] = e /\ \A m \in DOMAIN d \ {n} : x[m] = d[m]
    BY DEF Database
  <1>2. \A q : q \in get_installed_packages(x) <=>
           \E m \in DOMAIN d : x[m].installed /\ q = <<m, x[m].version>>
    BY <1>1 DEF get_installed_packages, get_installed_package, Installed
  <1>3. \A q : q \in get_installed_packages(d) <=>
           \E m \in DOMAIN d : d[m].installed /\ q = <<m, d[m].version>>
    BY DEF get_installed_packages, get_installed_package, Installed
  <1>4. \A q \in get_installed_packages(x) :
           q \in {r \in get_installed_packages(d) : r[1] # n} \cup (IF e.installed THEN {<<n, e.version>>} ELSE {})
    <2> TAKE q \in get_installed_packages(x)
    <2>1. PICK m \in DOMAIN d : x[m].installed /\ q = <<m, x[m].version>>
      BY <1>2
    <2>2. q[1] = m
      BY <2>1
    <2>3. CASE m = n
      <3>1. e.installed /\ q = <<n, e.version>>
        BY <1>1, <2>1, <2>3
      <3> QED
        BY <3>1
    <2>4. CASE m # n
      BY <1>1, <1>3, <2>1, <2>2, <2>4
    <2> QED
      BY <2>3, <2>4
  <1>5. ASSUME NEW q \in get_installed_packages(d), q[1] # n PROVE q \in get_installed_packages(x)
    <2>1. PICK m \in DOMAIN d : d[m].installed /\ q = <<m, d[m].version>>
      BY <1>3
    <2>2. m # n
      BY <1>5, <2>1
    <2> QED
      BY <1>1, <1>2, <2>1, <2>2
  <1>6. e.installed => <<n, e.version>> \in get_installed_packages(x)
    BY <1>1, <1>2
  <1> HIDE DEF x
  <1>7. get_installed_packages(x) =
          {q \in get_installed_packages(d) : q[1] # n} \cup (IF e.installed THEN {<<n, e.version>>} ELSE {})
    <2>1. CASE e.installed
      BY <1>4, <1>5, <1>6, <2>1
    <2>2. CASE ~e.installed
      BY <1>4, <1>5, <2>2
    <2> QED
      BY <2>1, <2>2
  <1> QED
    BY <1>7 DEF x

LEMMA InstalledOfAdded ==
  ASSUME NEW d, Database(d), NEW n \in Names, n \notin DOMAIN d, NEW v \in Versions \cup {0}
  PROVE  /\ Database(add_package(d, n, v))
         /\ get_installed_packages(add_package(d, n, v)) = get_installed_packages(d)
         /\ DOMAIN add_package(d, n, v) = DOMAIN d \cup {n}
         /\ ~add_package(d, n, v)[n].installed
  <1> DEFINE x == add_package(d, n, v)
  <1>1. /\ DOMAIN x = DOMAIN d \cup {n} /\ x[n] = PackageEntry(v)
        /\ x = [m \in DOMAIN x |-> x[m]] /\ \A m \in DOMAIN d : x[m] = d[m]
    BY DEF add_package
  <1>2. SoundEntry(n, PackageEntry(v)) /\ ~PackageEntry(v).installed
    BY DEF SoundEntry, Entries, PackageEntry
  <1>3. Database(x)
    BY <1>1, <1>2 DEF Database
  <1>4. Installed(x) = Installed(d)
    BY <1>1, <1>2 DEF Installed
  <1>5. get_installed_packages(x) = get_installed_packages(d)
    BY <1>1, <1>4 DEF get_installed_packages, get_installed_package, Installed
  <1> QED
    BY <1>1, <1>2, <1>3, <1>5

LEMMA InstalledOfRemoved ==
  ASSUME NEW d, Database(d), NEW n \in DOMAIN d, ~d[n].installed
  PROVE  /\ Database([m \in DOMAIN d \ {n} |-> d[m]])
         /\ get_installed_packages([m \in DOMAIN d \ {n} |-> d[m]]) = get_installed_packages(d)
  <1> DEFINE x == [m \in DOMAIN d \ {n} |-> d[m]]
  <1>1. Database(x)
    BY DEF Database
  <1>2. Installed(x) = Installed(d)
    BY DEF Installed
  <1>3. get_installed_packages(x) = get_installed_packages(d)
    BY <1>2 DEF get_installed_packages, get_installed_package, Installed
  <1> QED
    BY <1>1, <1>3

---------------------------------------------------------------------------
\* What a command makes of its package, step by step: the version whose files
\* and lines are there, 0 for none, and whether FEATURE has a row of it.
Statuses == (Versions \cup {0}) \X {"none", "some"}

\* A walk along the sequence q of members of S: each takes one status to the
\* next by an edge <<member, status, status>> of R.
Walk(R, S, q, a, b) ==
  /\ q \in Seq(S)
  /\ \E st \in [1..(Len(q) + 1) -> Statuses] :
       /\ st[1] = a /\ st[Len(q) + 1] = b
       /\ \A i \in 1..Len(q) : <<q[i], st[i], st[i + 1]>> \in R

LEMMA WalkNowhere ==
  ASSUME NEW R, NEW S, NEW a \in Statuses
  PROVE  Walk(R, S, <<>>, a, a)
  <1> DEFINE st == [i \in 1..1 |-> a]
  <1>1. st \in [1..(Len(<<>>) + 1) -> Statuses] /\ st[1] = a /\ st[Len(<<>>) + 1] = a
    OBVIOUS
  <1>2. \A i \in 1..Len(<<>>) : <<(<<>>)[i], st[i], st[i + 1]>> \in R
    OBVIOUS
  <1> QED
    BY <1>1, <1>2, EmptySeq DEF Walk

LEMMA WalkEnds ==
  ASSUME NEW R, NEW S, NEW a, NEW b, Walk(R, S, <<>>, a, b)
  PROVE  a = b
  BY DEF Walk

LEMMA WalkOne ==
  ASSUME NEW R, NEW S, NEW x \in S, NEW a \in Statuses, NEW b \in Statuses, <<x, a, b>> \in R
  PROVE  Walk(R, S, <<x>>, a, b)
  <1> DEFINE st == [i \in 1..2 |-> IF i = 1 THEN a ELSE b]
  <1>1. <<x>> \in Seq(S) /\ Len(<<x>>) = 1 /\ (<<x>>)[1] = x
    OBVIOUS
  <1>2. st \in [1..2 -> Statuses] /\ st[1] = a /\ st[2] = b
    OBVIOUS
  <1> HIDE DEF st
  <1> QED
    BY <1>1, <1>2 DEF Walk

LEMMA WalkFirst ==
  ASSUME NEW R, NEW S, NEW q, NEW a, NEW b, Walk(R, S, q, a, b), q # <<>>
  PROVE  /\ q \in Seq(S) /\ Head(q) \in S
         /\ \E m \in Statuses : <<Head(q), a, m>> \in R /\ Walk(R, S, Tail(q), m, b)
<1>1. PICK st \in [1..(Len(q) + 1) -> Statuses] :
        /\ st[1] = a /\ st[Len(q) + 1] = b
        /\ \A i \in 1..Len(q) : <<q[i], st[i], st[i + 1]>> \in R
  BY DEF Walk
<1>2. q \in Seq(S) /\ Len(q) \in Nat \ {0}
  BY EmptySeq DEF Walk
<1>3. /\ Head(q) \in S /\ Head(q) = q[1] /\ Tail(q) \in Seq(S) /\ Len(Tail(q)) = Len(q) - 1
      /\ \A i \in 1..Len(Tail(q)) : Tail(q)[i] = q[i + 1]
  BY <1>2, HeadTailProperties
<1> DEFINE rest == [i \in 1..Len(q) |-> st[i + 1]]
<1>4. rest \in [1..(Len(Tail(q)) + 1) -> Statuses] /\ rest[1] = st[2] /\ rest[Len(Tail(q)) + 1] = b
  BY <1>1, <1>2, <1>3
<1>5. \A i \in 1..Len(Tail(q)) : <<Tail(q)[i], rest[i], rest[i + 1]>> \in R
  BY <1>1, <1>2, <1>3
<1> HIDE DEF rest
<1>6. Walk(R, S, Tail(q), st[2], b)
  BY <1>3, <1>4, <1>5 DEF Walk
<1>7. st[2] \in Statuses /\ <<Head(q), a, st[2]>> \in R
  BY <1>1, <1>2, <1>3
<1> QED
  BY <1>2, <1>3, <1>6, <1>7

LEMMA WalkOn ==
  ASSUME NEW R, NEW S, NEW q, NEW r, NEW a, NEW b, NEW c, Walk(R, S, q, a, b), Walk(R, S, r, b, c)
  PROVE  Walk(R, S, q \o r, a, c)
<1>1. PICK st \in [1..(Len(q) + 1) -> Statuses] :
        /\ st[1] = a /\ st[Len(q) + 1] = b
        /\ \A i \in 1..Len(q) : <<q[i], st[i], st[i + 1]>> \in R
  BY DEF Walk
<1>2. PICK su \in [1..(Len(r) + 1) -> Statuses] :
        /\ su[1] = b /\ su[Len(r) + 1] = c
        /\ \A i \in 1..Len(r) : <<r[i], su[i], su[i + 1]>> \in R
  BY DEF Walk
<1>3. q \in Seq(S) /\ r \in Seq(S) /\ Len(q) \in Nat /\ Len(r) \in Nat
  BY DEF Walk
<1>4. /\ q \o r \in Seq(S) /\ Len(q \o r) = Len(q) + Len(r)
      /\ \A i \in 1..(Len(q) + Len(r)) : (q \o r)[i] = IF i <= Len(q) THEN q[i] ELSE r[i - Len(q)]
  BY <1>3, ConcatProperties
<1> DEFINE sv == [i \in 1..(Len(q) + Len(r) + 1) |->
                    IF i <= Len(q) THEN st[i] ELSE su[i - Len(q)]]
<1>5. sv \in [1..(Len(q \o r) + 1) -> Statuses]
  BY <1>3, <1>4
<1>6. sv[1] = a /\ sv[Len(q \o r) + 1] = c
  BY <1>1, <1>2, <1>3, <1>4
<1>7. ASSUME NEW i \in 1..Len(q \o r) PROVE <<(q \o r)[i], sv[i], sv[i + 1]>> \in R
  <2>1. CASE i < Len(q)
    BY <1>1, <1>3, <1>4, <2>1
  <2>2. CASE i = Len(q)
    <3>1. i \in 1..Len(q) /\ i + 1 \in 1..(Len(q) + Len(r) + 1) /\ (i + 1) - Len(q) = 1 /\ ~(i + 1 <= Len(q))
      BY <1>3, <1>4, <2>2
    <3>2. sv[i] = st[i] /\ sv[i + 1] = su[1] /\ (q \o r)[i] = q[i]
      BY <1>3, <1>4, <2>2, <3>1
    <3> HIDE DEF sv
    <3>3. <<q[i], st[i], st[i + 1]>> \in R
      BY <1>1, <3>1
    <3>4. su[1] = st[i + 1]
      BY <1>1, <1>2, <2>2
    <3> QED
      BY <3>2, <3>3, <3>4
  <2>3. CASE i > Len(q)
    <3>1. i - Len(q) \in 1..Len(r) /\ i + 1 - Len(q) = (i - Len(q)) + 1
      BY <1>3, <1>4, <2>3
    <3>2. (q \o r)[i] = r[i - Len(q)] /\ sv[i] = su[i - Len(q)] /\ sv[i + 1] = su[(i - Len(q)) + 1]
      BY <1>3, <1>4, <2>3, <3>1
    <3> HIDE DEF sv
    <3> QED
      BY <1>2, <3>1, <3>2
  <2>4. i < Len(q) \/ i = Len(q) \/ i > Len(q)
    BY <1>3, <1>4
  <2> HIDE DEF sv
  <2> QED
    BY <2>1, <2>2, <2>3, <2>4
<1> HIDE DEF sv
<1> QED
  BY <1>4, <1>5, <1>6, <1>7 DEF Walk

---------------------------------------------------------------------------
\* What a step makes of the service of its package, and of all the others.
Rows(s, n) == {l \in s.lists : l[2] = n}

Serves(s, n, a) ==
  /\ s.files[n] = IF a[1] = 0 THEN {} ELSE Made(<<n, a[1]>>)
  /\ Rows(s, n) = IF a[1] = 0 THEN {} ELSE Listed(<<n, a[1]>>)
  /\ s.features[n] = "none" <=> a[2] = "none"

\* Nothing is changed of other packages, except that an image can go.
Apart(s, t, x) ==
  /\ SystemRecord(t)
  /\ \A m \in Names \ {x.pkg[1]} :
       t.files[m] = s.files[m] /\ Rows(t, m) = Rows(s, m) /\ t.features[m] = s.features[m]
  /\ \A i \in s.images \ t.images : x.do \in {"source.uninstall", "rmi"} /\ i = ImageOf[x.pkg]

LEMMA ServiceUntouched ==
  ASSUME NEW s, NEW t, NEW x, SystemRecord(t), t.files = s.files, t.lists = s.lists,
         t.features = s.features,
         \A i \in s.images \ t.images : x.do \in {"source.uninstall", "rmi"} /\ i = ImageOf[x.pkg]
  PROVE  Apart(s, t, x) /\ \A n \in Names, a \in Statuses : Serves(s, n, a) => Serves(t, n, a)
  BY DEF Apart, Rows, Serves

\* Steps that write other parts of the system: images, plug-ins, orders and
\* what runs.
Beside(s, t, I) ==
  /\ SystemRecord(t) /\ t.files = s.files /\ t.lists = s.lists /\ t.features = s.features
  /\ t.images = I

LEMMA OtherPartWritten ==
  ASSUME NEW s, SystemRecord(s), NEW S
  PROVE  /\ \A t : t = [s EXCEPT !.plugins = S] => Beside(s, t, s.images)
         /\ \A t : t = [s EXCEPT !.up = S] => Beside(s, t, s.images)
         /\ \A t : t = [s EXCEPT !.order = S] /\ DOMAIN S = {"fast", "warm"} => Beside(s, t, s.images)
         /\ \A t : t = [s EXCEPT !.images = S] => Beside(s, t, S)
<1>1. Whole(s)
  BY DEF SystemRecord
<1>2. ASSUME NEW t, t = [s EXCEPT !.plugins = S]
      PROVE  Beside(s, t, s.images)
  <2>1. /\ Whole(t) /\ t.files = s.files /\ t.lists = s.lists /\ t.features = s.features
        /\ t.images = s.images /\ t.order = s.order
    BY <1>1, <1>2 DEF Whole
  <2> QED
    BY <1>2, <2>1 DEF SystemRecord, Beside
<1>3. ASSUME NEW t, t = [s EXCEPT !.up = S]
      PROVE  Beside(s, t, s.images)
  <2>1. /\ Whole(t) /\ t.files = s.files /\ t.lists = s.lists /\ t.features = s.features
        /\ t.images = s.images /\ t.order = s.order
    BY <1>1, <1>3 DEF Whole
  <2> QED
    BY <1>3, <2>1 DEF SystemRecord, Beside
<1>4. ASSUME NEW t, t = [s EXCEPT !.order = S], DOMAIN S = {"fast", "warm"}
      PROVE  Beside(s, t, s.images)
  <2>1. /\ Whole(t) /\ t.files = s.files /\ t.lists = s.lists /\ t.features = s.features
        /\ t.images = s.images /\ t.order = S
    BY <1>1, <1>4 DEF Whole
  <2> QED
    BY <1>4, <2>1 DEF SystemRecord, Beside
<1>5. ASSUME NEW t, t = [s EXCEPT !.images = S]
      PROVE  Beside(s, t, S)
  <2>1. /\ Whole(t) /\ t.files = s.files /\ t.lists = s.lists /\ t.features = s.features
        /\ t.images = S /\ t.order = s.order
    BY <1>1, <1>5 DEF Whole
  <2> QED
    BY <1>5, <2>1 DEF SystemRecord, Beside
<1> QED
  BY <1>2, <1>3, <1>4, <1>5

Written(s, t, n, F, L, C, X) ==
  t = [s EXCEPT !.files[n] = F, !.lists = L, !.config = C, !.features[n] = X]

LEMMA ServiceWritten ==
  ASSUME NEW s, SystemRecord(s), NEW t, NEW n \in Names, NEW F, NEW L, NEW C, NEW X,
         Written(s, t, n, F, L, C, X)
  PROVE  /\ SystemRecord(t) /\ t.images = s.images /\ t.lists = L
         /\ t.files[n] = F /\ t.features[n] = X
         /\ \A m \in Names \ {n} : t.files[m] = s.files[m] /\ t.features[m] = s.features[m]
  <1> DEFINE G == [s.files EXCEPT ![n] = F]
             Y == [s.features EXCEPT ![n] = X]
  <1>1. t = [images |-> s.images, files |-> G, lists |-> L, features |-> Y, plugins |-> s.plugins,
             order |-> s.order, up |-> s.up, config |-> C]
    <2>1. Whole(s)
      BY DEF SystemRecord
    <2> HIDE DEF G, Y
    <2>2. t = [s EXCEPT !.files = G, !.lists = L, !.config = C, !.features = Y]
      BY DEF Written, G, Y
    <2> QED
      BY <2>1, <2>2 DEF Whole
  <1>2. /\ t.images = s.images /\ t.files = G /\ t.lists = L /\ t.features = Y /\ t.plugins = s.plugins
        /\ t.order = s.order /\ t.up = s.up /\ t.config = C
    BY <1>1
  <1>3. /\ G = [m \in Names |-> G[m]] /\ G[n] = F /\ \A m \in Names \ {n} : G[m] = s.files[m]
        /\ Y = [m \in Names |-> Y[m]] /\ Y[n] = X /\ \A m \in Names \ {n} : Y[m] = s.features[m]
    BY DEF SystemRecord
  <1> HIDE DEF G, Y
  <1>4. SystemRecord(t)
    BY <1>1, <1>2, <1>3 DEF SystemRecord, Whole
  <1> QED
    BY <1>2, <1>3, <1>4

LEMMA CreateService ==
  ASSUME NEW s, SystemRecord(s), NEW x, x.pkg \in Packages, NEW register \in BOOLEAN, NEW state
  PROVE  LET t == create(s, x.pkg, register, state)
             n == x.pkg[1]
             v == x.pkg[2]
         IN /\ Apart(s, t, x)
            /\ \A w \in {"none", "some"} : Serves(s, n, <<0, w>>) /\ ~register => Serves(t, n, <<v, w>>)
            /\ Serves(s, n, <<0, "none">>) /\ register /\ state # "none" => Serves(t, n, <<v, "some">>)
  <1> DEFINE n == x.pkg[1]
             v == x.pkg[2]
             t == create(s, x.pkg, register, state)
  <1>1. n \in Names /\ v \in Versions /\ x.pkg = <<n, v>> /\ v # 0
    BY PackageAssumption DEF Packages
  <1>2. /\ SystemRecord(t) /\ t.images = s.images /\ t.lists = s.lists \cup Listed(x.pkg)
        /\ t.files[n] = {f \in s.files[n] : f[1] \notin {g[1] : g \in Made(x.pkg)}} \cup Made(x.pkg)
        /\ t.features[n] = IF register THEN RegisterFeature(s.features[n], state) ELSE s.features[n]
        /\ \A m \in Names \ {n} : t.files[m] = s.files[m] /\ t.features[m] = s.features[m]
    <2> DEFINE F == {f \in s.files[n] : f[1] \notin {g[1] : g \in Made(x.pkg)}} \cup Made(x.pkg)
               L == s.lists \cup Listed(x.pkg)
               C == set_initial_config(s.config, x.pkg)
               X == IF register THEN RegisterFeature(s.features[n], state) ELSE s.features[n]
    <2>1. Written(s, t, n, F, L, C, X)
      BY DEF create, Written
    <2> HIDE DEF t, n, F, L, C, X
    <2>2. /\ SystemRecord(t) /\ t.images = s.images /\ t.lists = L /\ t.files[n] = F /\ t.features[n] = X
          /\ \A m \in Names \ {n} : t.files[m] = s.files[m] /\ t.features[m] = s.features[m]
      BY <1>1, <2>1, ServiceWritten
    <2> QED
      BY <2>2 DEF F, L, X
  <1>3. \A l \in Listed(x.pkg) : l[2] = n
    BY DEF Listed
  <1> HIDE DEF t
  <1>5. \A m \in Names \ {n} : Rows(t, m) = Rows(s, m)
    BY <1>2, <1>3 DEF Rows
  <1>6. Rows(s, n) = {} => Rows(t, n) = Listed(x.pkg)
    BY <1>2, <1>3 DEF Rows
  <1>7. Apart(s, t, x)
    BY <1>2, <1>5 DEF Apart
  <1>8. ASSUME NEW w \in {"none", "some"}, Serves(s, n, <<0, w>>)
        PROVE  t.files[n] = Made(<<n, v>>) /\ Rows(t, n) = Listed(<<n, v>>) /\ (s.features[n] = "none" <=> w = "none")
    BY <1>1, <1>2, <1>6, <1>8 DEF Serves
  <1>9. ASSUME NEW w \in {"none", "some"}, Serves(s, n, <<0, w>>), ~register PROVE Serves(t, n, <<v, w>>)
    BY <1>1, <1>2, <1>8, <1>9 DEF Serves
  <1>10. ASSUME Serves(s, n, <<0, "none">>), register, state # "none" PROVE Serves(t, n, <<v, "some">>)
    BY <1>1, <1>2, <1>8, <1>10 DEF Serves, RegisterFeature
  <1> QED
    BY <1>7, <1>9, <1>10 DEF t

LEMMA RemoveService ==
  ASSUME NEW s, SystemRecord(s), NEW x, x.pkg \in Packages, NEW deregister \in BOOLEAN, NEW keep
  PROVE  LET t == remove(s, x.pkg, deregister, keep)
             n == x.pkg[1]
         IN /\ Apart(s, t, x)
            /\ \A v \in {0, x.pkg[2]}, w \in {"none", "some"} :
                 Serves(s, n, <<v, w>>) =>
                   Serves(t, n, <<0, IF deregister THEN "none" ELSE w>>)
  <1> DEFINE n == x.pkg[1]
             t == remove(s, x.pkg, deregister, keep)
  <1>1. n \in Names /\ x.pkg[2] \in Versions /\ x.pkg = <<n, x.pkg[2]>> /\ x.pkg[2] # 0
    BY PackageAssumption DEF Packages
  <1>2. /\ SystemRecord(t) /\ t.images = s.images /\ t.lists = s.lists \ Listed(x.pkg)
        /\ t.files[n] = {f \in s.files[n] : f[1] \in {"yang", "cli"}} \ YangParts(x.pkg)
        /\ t.features[n] = IF deregister THEN "none" ELSE s.features[n]
        /\ \A m \in Names \ {n} : t.files[m] = s.files[m] /\ t.features[m] = s.features[m]
    <2> DEFINE F == {f \in s.files[n] : f[1] \in {"yang", "cli"}} \ YangParts(x.pkg)
               L == s.lists \ Listed(x.pkg)
               C == IF deregister /\ ~keep THEN remove_config(s.config, x.pkg) ELSE s.config
               X == IF deregister THEN "none" ELSE s.features[n]
    <2>1. Written(s, t, n, F, L, C, X)
      BY DEF remove, Written
    <2> HIDE DEF t, n, F, L, C, X
    <2>2. /\ SystemRecord(t) /\ t.images = s.images /\ t.lists = L /\ t.files[n] = F /\ t.features[n] = X
          /\ \A m \in Names \ {n} : t.files[m] = s.files[m] /\ t.features[m] = s.features[m]
      BY <1>1, <2>1, ServiceWritten
    <2> QED
      BY <2>2 DEF F, L, X
  <1>3. \A l \in Listed(x.pkg) : l[2] = n
    BY DEF Listed
  <1>4. ASSUME NEW f \in Made(x.pkg), f \notin YangParts(x.pkg) PROVE f[1] \notin {"yang", "cli"}
    <2>1. PICK g \in GeneratedFiles(x.pkg) \cup DumpAndReconcile(x.pkg) : f = <<g, x.pkg[2]>>
      BY <1>4 DEF Made
    <2>2. g \in {"container", "service", "systemd", "systemd@", "reconcile", "dump"}
      BY DEF GeneratedFiles, DumpAndReconcile
    <2> QED
      BY <2>1, <2>2
  <1> HIDE DEF t
  <1>6. \A m \in Names \ {n} : Rows(t, m) = Rows(s, m)
    BY <1>2, <1>3 DEF Rows
  <1>7. Rows(s, n) \in {{}, Listed(x.pkg)} => Rows(t, n) = {}
    BY <1>2, <1>3 DEF Rows
  <1>8. s.files[n] \in {{}, Made(x.pkg)} => t.files[n] = {}
    BY <1>4, <1>2
  <1>9. Apart(s, t, x)
    BY <1>2, <1>6 DEF Apart
  <1>10. ASSUME NEW v \in {0, x.pkg[2]}, NEW w \in {"none", "some"}, Serves(s, n, <<v, w>>)
         PROVE  Serves(t, n, <<0, IF deregister THEN "none" ELSE w>>)
    <2>1. s.files[n] \in {{}, Made(x.pkg)} /\ Rows(s, n) \in {{}, Listed(x.pkg)} /\ (s.features[n] = "none" <=> w = "none")
      BY <1>1, <1>10 DEF Serves
    <2> QED
      BY <1>2, <1>7, <1>8, <2>1 DEF Serves
  <1> QED
    BY <1>9, <1>10 DEF t

\* The edges of a command's walk: what step x makes of status a.
Moves(x, a, b) ==
  \/ x.do \in CalmVerbs /\ b = a
  \/ x.do = "update" /\ a[2] = "some" /\ b = a
  \/ x.do = "create" /\ x.opt \in {"enabled", "disabled"} /\ a = <<0, "none">> /\ b = <<x.pkg[2], "some">>
  \/ x.do = "recreate" /\ a[1] = 0 /\ b = <<x.pkg[2], a[2]>>
  \/ x.do = "remove" /\ a[1] = x.pkg[2] /\ b = <<0, "none">>
  \/ x.do = "unmake" /\ a[1] = x.pkg[2] /\ b = <<0, a[2]>>

FeatureTo(s, t, n, X) ==
  t = [s EXCEPT !.features[n] = X] \/ \E U : t = [s EXCEPT !.features[n] = X, !.up = U]

LEMMA FeatureWritten ==
  ASSUME NEW s, SystemRecord(s), NEW n \in Names, NEW X, NEW t, FeatureTo(s, t, n, X)
  PROVE  /\ SystemRecord(t) /\ t.files = s.files /\ t.lists = s.lists /\ t.images = s.images
         /\ t.features[n] = X /\ \A m \in Names \ {n} : t.features[m] = s.features[m]
  <1> DEFINE Y == [s.features EXCEPT ![n] = X]
  <1>1. Whole(s)
    BY DEF SystemRecord
  <1>2. Y = [m \in Names |-> Y[m]] /\ Y[n] = X /\ \A m \in Names \ {n} : Y[m] = s.features[m]
    BY DEF SystemRecord
  <1>3. t = [s EXCEPT !.features = Y] \/ \E U : t = [s EXCEPT !.features = Y, !.up = U]
    BY Zenon DEF FeatureTo
  <1> HIDE DEF Y
  <1>4. /\ Whole(t) /\ t.files = s.files /\ t.lists = s.lists /\ t.features = Y /\ t.images = s.images
        /\ t.order = s.order
    <2>1. CASE t = [s EXCEPT !.features = Y]
      BY <1>1, <2>1 DEF Whole
    <2>2. ASSUME NEW U, t = [s EXCEPT !.features = Y, !.up = U]
          PROVE  /\ Whole(t) /\ t.files = s.files /\ t.lists = s.lists /\ t.features = Y /\ t.images = s.images
                 /\ t.order = s.order
      BY <1>1, <2>2 DEF Whole
    <2> QED
      BY Zenon, <1>3, <2>1, <2>2
  <1> QED
    BY <1>2, <1>4 DEF SystemRecord

\* Changes that leave every service as it is.
Aside(s, t, x) ==
  \/ t = s
  \/ \E S : t = [s EXCEPT !.plugins = S]
  \/ \E S : t = [s EXCEPT !.up = S]
  \/ \E S : DOMAIN S = {"fast", "warm"} /\ t = [s EXCEPT !.order = S]
  \/ \E S : /\ t = [s EXCEPT !.images = S]
            /\ \A i \in s.images \ S : x.do \in {"source.uninstall", "rmi"} /\ i = ImageOf[x.pkg]

LEMMA AsideIsCalm ==
  ASSUME NEW s, SystemRecord(s), NEW t, NEW x, Aside(s, t, x)
  PROVE  Apart(s, t, x) /\ \A n \in Names, a \in Statuses : Serves(s, n, a) => Serves(t, n, a)
<1> DEFINE Goes(I) == \A i \in s.images \ I : x.do \in {"source.uninstall", "rmi"} /\ i = ImageOf[x.pkg]
<1>1. \E I : Beside(s, t, I) /\ Goes(I)
  <2>1. CASE t = s
    BY <2>1 DEF Beside
  <2>2. ASSUME NEW S, t = [s EXCEPT !.plugins = S] PROVE Beside(s, t, s.images)
    BY <2>2, OtherPartWritten
  <2>3. ASSUME NEW S, t = [s EXCEPT !.up = S] PROVE Beside(s, t, s.images)
    BY <2>3, OtherPartWritten
  <2>4. ASSUME NEW S, DOMAIN S = {"fast", "warm"}, t = [s EXCEPT !.order = S] PROVE Beside(s, t, s.images)
    BY <2>4, OtherPartWritten
  <2>5. ASSUME NEW S, t = [s EXCEPT !.images = S] PROVE Beside(s, t, S)
    BY <2>5, OtherPartWritten
  <2>6. Goes(s.images)
    OBVIOUS
  <2>7. \A S : (\A i \in s.images \ S : x.do \in {"source.uninstall", "rmi"} /\ i = ImageOf[x.pkg]) => Goes(S)
    OBVIOUS
  <2> HIDE DEF Goes
  <2> QED
    BY <2>1, <2>2, <2>3, <2>4, <2>5, <2>6, <2>7 DEF Aside
<1>2. PICK I : Beside(s, t, I) /\ Goes(I)
  BY <1>1
<1> QED
  BY <1>2, ServiceUntouched DEF Beside

LEMMA EffectIsAside ==
  ASSUME NEW s, SystemRecord(s), NEW x, x.do \in CalmVerbs \ {"disable"}, NEW d
  PROVE  Aside(s, Effect(s, x, d), x)
<1>1. CASE x.do = "source.install"
  <2>1. Effect(s, x, d) = [s EXCEPT !.images = s.images \cup {ImageOf[x.pkg]}]
    BY <1>1 DEF Effect
  <2> QED
    BY <2>1 DEF Aside
<1>2. CASE x.do = "source.uninstall"
  <2>1. Effect(s, x, d) = [s EXCEPT !.images = s.images \ {ImageOf[x.pkg]}]
    BY <1>2 DEF Effect
  <2> QED
    BY <1>2, <2>1 DEF Aside
<1>3. CASE x.do = "rmi"
  <2>1. Effect(s, x, d) \in {s, [s EXCEPT !.images = s.images \ {ImageOf[x.pkg]}]}
    BY <1>3 DEF Effect, remove_unused_docker_image
  <2> QED
    BY <1>3, <2>1 DEF Aside
<1>4. CASE x.do = "order"
  <2>1. Effect(s, x, d) = [s EXCEPT !.order = [k \in DOMAIN s.order |-> x.opt]]
    BY <1>4 DEF Effect, generate_shutdown_sequence_files
  <2> QED
    BY <2>1 DEF Aside, SystemRecord
<1>5. CASE x.do = "plugins"
  <2>1. Effect(s, x, d) = _install_cli_plugins(s, x.pkg, Plugins[x.pkg])
    BY <1>5 DEF Effect
  <2> QED
    BY <2>1 DEF Aside, _install_cli_plugins
<1>6. CASE x.do = "unplug"
  <2>1. Effect(s, x, d) = _uninstall_cli_plugins(s, x.pkg, Plugins[x.pkg])
    BY <1>6 DEF Effect
  <2> QED
    BY <2>1 DEF Aside, _uninstall_cli_plugins
<1>7. CASE x.do = "start"
  <2>1. Effect(s, x, d) = _start_feature(s, x.pkg)
    BY <1>7 DEF Effect
  <2> QED
    BY <2>1 DEF Aside, _start_feature
<1>8. CASE x.do = "stop"
  <2>1. Effect(s, x, d) = _stop_feature(s, x.pkg)
    BY <1>8 DEF Effect
  <2> QED
    BY <2>1 DEF Aside, _stop_feature
<1>9. CASE x.do \in {"rm", "missing"}
  <2>1. Effect(s, x, d) = s
    BY <1>9 DEF Effect
  <2> QED
    BY <2>1 DEF Aside
<1> QED
  BY <1>1, <1>2, <1>3, <1>4, <1>5, <1>6, <1>7, <1>8, <1>9 DEF CalmVerbs

\* What one step that succeeds makes of its package.
LEMMA StepEffect ==
  ASSUME NEW s, SystemRecord(s), NEW x, x.pkg \in Packages, NEW a \in Statuses, NEW b \in Statuses,
         Moves(x, a, b), Possible(s, x), NEW d
  PROVE  LET t == Effect(s, x, d)
         IN Apart(s, t, x) /\ (Serves(s, x.pkg[1], a) => Serves(t, x.pkg[1], b))
  <1> DEFINE n == x.pkg[1]
             t == Effect(s, x, d)
  <1>0. /\ n \in Names /\ x.pkg[2] \in Versions /\ x.pkg = <<n, x.pkg[2]>>
        /\ a = <<a[1], a[2]>> /\ a[2] \in {"none", "some"}
    BY DEF Packages, Statuses
  <1>1. CASE x.do \in CalmVerbs \ {"disable"}
    <2>1. b = a
      BY <1>1 DEF Moves, CalmVerbs
    <2>2. Aside(s, t, x)
      BY <1>1, EffectIsAside
    <2> HIDE DEF t
    <2> QED
      BY <1>0, <2>1, <2>2, AsideIsCalm DEF t
  <1>2. CASE x.do \in {"update", "disable"}
    <2> DEFINE X == IF x.do = "disable" \/ s.features[n] = "none" THEN "disabled" ELSE s.features[n]
    <2>1. FeatureTo(s, t, n, X)
      <3>1. CASE x.do = "update"
        <4>1. t = feature_update(s, x.pkg)
          BY <3>1 DEF Effect
        <4> QED
          BY <3>1, <4>1 DEF feature_update, FeatureTo
      <3>2. CASE x.do = "disable"
        <4>1. t = _disable_feature(s, x.pkg)
          BY <3>2 DEF Effect
        <4> QED
          BY Zenon, <3>2, <4>1 DEF _disable_feature, FeatureTo
      <3> QED
        BY <1>2, <3>1, <3>2
    <2>2. b = a /\ (x.do = "update" => a[2] = "some") /\ (x.do = "disable" => s.features[n] # "none")
      BY <1>2 DEF Moves, CalmVerbs, Possible
    <2>3. X = "none" => x.do # "disable" /\ s.features[n] = "none" /\ FALSE
      BY <1>2
    <2> HIDE DEF t, n, X
    <2>4. /\ SystemRecord(t) /\ t.files = s.files /\ t.lists = s.lists /\ t.images = s.images
          /\ t.features[n] = X /\ \A m \in Names \ {n} : t.features[m] = s.features[m]
      BY <1>0, <2>1, FeatureWritten
    <2>5. Apart(s, t, x)
      BY <2>4 DEF Apart, Rows, n
    <2>6. Serves(s, n, a) => Serves(t, n, b)
      BY <1>2, <2>2, <2>3, <2>4 DEF Serves, Rows
    <2> QED
      BY <2>5, <2>6 DEF t, n
  <1>3. CASE x.do = "create"
    <2>1. t = create(s, x.pkg, TRUE, x.opt)
      BY <1>3 DEF Effect
    <2>2. x.opt # "none" /\ a = <<0, "none">> /\ b = <<x.pkg[2], "some">>
      BY <1>3 DEF Moves, CalmVerbs
    <2> HIDE DEF t
    <2> QED
      BY <2>1, <2>2, CreateService DEF t
  <1>4. CASE x.do = "recreate"
    <2>1. t = create(s, x.pkg, FALSE, "disabled")
      BY <1>4 DEF Effect
    <2>2. a = <<0, a[2]>> /\ b = <<x.pkg[2], a[2]>>
      BY <1>0, <1>4 DEF Moves, CalmVerbs
    <2> HIDE DEF t
    <2> QED
      BY <1>0, <2>1, <2>2, CreateService DEF t
  <1>5. CASE x.do = "remove"
    <2>1. t = remove(s, x.pkg, TRUE, x.opt)
      BY <1>5 DEF Effect
    <2>2. a = <<x.pkg[2], a[2]>> /\ b = <<0, "none">>
      BY <1>0, <1>5 DEF Moves, CalmVerbs
    <2> HIDE DEF t
    <2> QED
      BY <1>0, <2>1, <2>2, RemoveService DEF t
  <1>6. CASE x.do = "unmake"
    <2>1. t = remove(s, x.pkg, FALSE, FALSE)
      BY <1>6 DEF Effect
    <2>2. a = <<x.pkg[2], a[2]>> /\ b = <<0, a[2]>>
      BY <1>0, <1>6 DEF Moves, CalmVerbs
    <2> HIDE DEF t
    <2> QED
      BY <1>0, <2>1, <2>2, RemoveService DEF t
  <1> QED
    BY <1>1, <1>2, <1>3, <1>4, <1>5, <1>6 DEF Moves, CalmVerbs

\* A step that fails leaves its package in the status it met.
LEMMA StepFailure ==
  ASSUME NEW s, SystemRecord(s), NEW x, x.pkg \in Packages, NEW a \in Statuses, NEW b \in Statuses,
         Moves(x, a, b), NEW t \in FailedEffects(s, x)
  PROVE  Apart(s, t, x) /\ (Serves(s, x.pkg[1], a) => Serves(t, x.pkg[1], a))
  <1> DEFINE n == x.pkg[1]
  <1>0. /\ n \in Names /\ x.pkg[2] \in Versions /\ a = <<a[1], a[2]>> /\ a[2] \in {"none", "some"}
    BY DEF Packages, Statuses
  <1>1. CASE x.do = "create"
    <2>1. t = remove(s, x.pkg, TRUE, FALSE) /\ a = <<0, "none">>
      BY <1>1 DEF FailedEffects, Moves, CalmVerbs
    <2> QED
      BY <2>1, RemoveService
  <1>2. CASE x.do = "recreate"
    <2>1. t = remove(s, x.pkg, FALSE, FALSE) /\ a = <<0, a[2]>>
      BY <1>0, <1>2 DEF FailedEffects, Moves, CalmVerbs
    <2> QED
      BY <1>0, <2>1, RemoveService
  <1>3. CASE x.do \notin {"create", "recreate"}
    <2> SUFFICES Aside(s, t, x)
      BY <1>0, AsideIsCalm
    <2>1. CASE x.do = "order"
      <3>1. t = s \/ t = [s EXCEPT !.order["fast"] = x.opt]
        BY <2>1 DEF FailedEffects
      <3> DEFINE S == [s.order EXCEPT !["fast"] = x.opt]
      <3>2. DOMAIN S = {"fast", "warm"} /\ (t = s \/ t = [s EXCEPT !.order = S])
        BY <3>1 DEF SystemRecord
      <3> HIDE DEF S
      <3> QED
        BY <3>2 DEF Aside
    <2>2. CASE x.do = "plugins"
      <3>1. t = s \/ \E k : t = _install_cli_plugins(s, x.pkg, k)
        BY <2>2 DEF FailedEffects
      <3> QED
        BY <3>1 DEF Aside, _install_cli_plugins
    <2>3. CASE x.do = "unplug"
      <3>1. t = s \/ \E k : t = _uninstall_cli_plugins(s, x.pkg, k)
        BY <2>3 DEF FailedEffects
      <3> QED
        BY <3>1 DEF Aside, _uninstall_cli_plugins
    <2>4. CASE x.do \in {"start", "stop"}
      <3>1. t \in {s, _start_feature(s, x.pkg), _stop_feature(s, x.pkg)}
        BY <2>4 DEF FailedEffects
      <3> QED
        BY <3>1 DEF Aside, _start_feature, _stop_feature
    <2>5. CASE x.do \notin {"order", "plugins", "unplug", "start", "stop"}
      <3>1. t = s
        BY <1>3, <2>5 DEF FailedEffects
      <3> QED
        BY <3>1 DEF Aside
    <2> QED
      BY <2>1, <2>2, <2>3, <2>4, <2>5
  <1> QED
    BY <1>1, <1>2, <1>3

---------------------------------------------------------------------------
\* The walks of the commands.  Every step of an install or an upgrade can be
\* walked back.  The steps keep the images J, their undos the images K.
Removers == {"source.uninstall", "rmi"}
UndoEdges(n, K) ==
  {e \in Undos \X Statuses \X Statuses :
     /\ e[1].pkg[1] = n /\ Moves(e[1], e[2], e[3])
     /\ e[1].do \in Removers => ImageOf[e[1].pkg] \notin K}
PlainEdges(n) ==
  {e \in Steps \X Statuses \X Statuses : e[1].pkg[1] = n /\ e[1].undo = <<>> /\ Moves(e[1], e[2], e[3])}
StepEdges(n, J, K) ==
  {e \in Steps \X Statuses \X Statuses :
     /\ e[1].pkg[1] = n /\ Moves(e[1], e[2], e[3])
     /\ e[1].do \in Removers => ImageOf[e[1].pkg] \notin J
     /\ Walk(UndoEdges(n, K), Undos, e[1].undo, e[3], e[2])}

LEMMA StepTypes ==
  ASSUME NEW do \in Verbs, NEW p \in Packages, NEW opt \in Options
  PROVE  /\ Step(do, p, opt, <<>>) \in Undos
         /\ Step(do, p, opt, <<>>) \in Steps
         /\ \A u \in Undos : Step(do, p, opt, <<u>>) \in Steps
<1>1. <<>> \in Seq(Undos) /\ \A u \in Undos : <<u>> \in Seq(Undos)
  OBVIOUS
<1> QED
  BY <1>1 DEF Step, Undos, Steps

\* Calm steps, without an undo and with one that is calm.
LEMMA CalmEdge ==
  ASSUME NEW n \in Names, NEW J, NEW K, NEW a \in Statuses, NEW p \in Packages, p[1] = n,
         NEW do \in CalmVerbs, NEW opt \in Options, do \in Removers => ImageOf[p] \notin J
  PROVE  Walk(StepEdges(n, J, K), Steps, <<Step(do, p, opt, <<>>)>>, a, a)
  <1> DEFINE x == Step(do, p, opt, <<>>)
  <1>0. do \in Verbs
    BY DEF Verbs
  <1>1. x \in Steps /\ x.pkg = p /\ x.do = do /\ x.undo = <<>>
    BY <1>0, StepTypes DEF Step
  <1> HIDE DEF x
  <1>2. Moves(x, a, a) /\ Walk(UndoEdges(n, K), Undos, x.undo, a, a)
    BY <1>1, WalkNowhere DEF Moves
  <1>3. <<x, a, a>> \in StepEdges(n, J, K)
    BY <1>1, <1>2 DEF StepEdges
  <1> QED
    BY <1>1, <1>3, WalkOne DEF x

LEMMA PairEdge ==
  ASSUME NEW n \in Names, NEW J, NEW K, NEW a \in Statuses, NEW b \in Statuses,
         NEW p \in Packages, p[1] = n, NEW do \in Verbs, NEW opt \in Options, do \notin Removers,
         NEW u \in Undos, u.pkg[1] = n, u.do \in Removers => ImageOf[u.pkg] \notin K, Moves(u, b, a),
         Moves(Step(do, p, opt, <<u>>), a, b)
  PROVE  Walk(StepEdges(n, J, K), Steps, <<Step(do, p, opt, <<u>>)>>, a, b)
  <1> DEFINE x == Step(do, p, opt, <<u>>)
  <1>1. x \in Steps /\ x.pkg = p /\ x.do = do /\ x.undo = <<u>>
    BY StepTypes DEF Step
  <1> HIDE DEF x
  <1>2. <<u, b, a>> \in UndoEdges(n, K)
    BY DEF UndoEdges
  <1>3. Walk(UndoEdges(n, K), Undos, x.undo, b, a)
    BY <1>1, <1>2, WalkOne
  <1>4. <<x, a, b>> \in StepEdges(n, J, K)
    BY <1>1, <1>3 DEF StepEdges, x
  <1> QED
    BY <1>1, <1>4, WalkOne DEF x

LEMMA Pairs ==
  ASSUME NEW x, NEW y
  PROVE  <<x>> \o <<y>> = <<x, y>>
  <1> DEFINE S == {x, y}
  <1>1. /\ <<x>> \in Seq(S) /\ <<y>> \in Seq(S) /\ <<x, y>> \in Seq(S)
        /\ Len(<<x>>) = 1 /\ Len(<<y>>) = 1 /\ Len(<<x, y>>) = 2
    OBVIOUS
  <1>2. /\ <<x>> \o <<y>> \in Seq(S) /\ Len(<<x>> \o <<y>>) = 2
        /\ \A i \in 1..2 : (<<x>> \o <<y>>)[i] = IF i <= 1 THEN (<<x>>)[i] ELSE (<<y>>)[i - 1]
    BY <1>1, ConcatProperties
  <1>3. \A i \in 1..2 : (<<x>> \o <<y>>)[i] = (<<x, y>>)[i]
    BY <1>2
  <1> HIDE DEF S
  <1> QED
    BY <1>1, <1>2, <1>3, SeqEqual

LEMMA Triples ==
  ASSUME NEW x, NEW y, NEW z
  PROVE  <<x, y>> \o <<z>> = <<x, y, z>>
  <1> DEFINE S == {x, y, z}
  <1>1. /\ <<x, y>> \in Seq(S) /\ <<z>> \in Seq(S) /\ <<x, y, z>> \in Seq(S)
        /\ Len(<<x, y>>) = 2 /\ Len(<<z>>) = 1 /\ Len(<<x, y, z>>) = 3
    OBVIOUS
  <1>2. /\ <<x, y>> \o <<z>> \in Seq(S) /\ Len(<<x, y>> \o <<z>>) = 3
        /\ \A i \in 1..3 : (<<x, y>> \o <<z>>)[i] = IF i <= 2 THEN (<<x, y>>)[i] ELSE (<<z>>)[i - 2]
    BY <1>1, ConcatProperties
  <1>3. \A i \in 1..3 : (<<x, y>> \o <<z>>)[i] = (<<x, y, z>>)[i]
    BY <1>2
  <1> HIDE DEF S
  <1> QED
    BY <1>1, <1>2, <1>3, SeqEqual

LEMMA WalkTwo ==
  ASSUME NEW R, NEW S, NEW x, NEW y, NEW a, NEW b, NEW c,
         Walk(R, S, <<x>>, a, b), Walk(R, S, <<y>>, b, c)
  PROVE  Walk(R, S, <<x, y>>, a, c)
<1>1. Walk(R, S, <<x>> \o <<y>>, a, c)
  BY WalkOn
<1> QED
  BY <1>1, Pairs

LEMMA WalkThree ==
  ASSUME NEW R, NEW S, NEW x, NEW y, NEW z, NEW a, NEW b, NEW c, NEW d,
         Walk(R, S, <<x>>, a, b), Walk(R, S, <<y>>, b, c), Walk(R, S, <<z>>, c, d)
  PROVE  Walk(R, S, <<x, y, z>>, a, d)
<1>1. Walk(R, S, <<x, y>>, a, c)
  BY WalkTwo
<1>2. Walk(R, S, <<x, y>> \o <<z>>, a, d)
  BY <1>1, WalkOn
<1> QED
  BY <1>2, Triples

LEMMA OrdersAreOptions ==
  ASSUME NEW db, Database(db), NEW p \in Packages
  PROVE  /\ get_installed_packages(db) \in Options /\ _get_installed_packages_and(db, p) \in Options
         /\ _get_installed_packages_except(db, p) \in Options /\ "" \in Options
  BY Zenon, InstalledArePackages DEF _get_installed_packages_and, _get_installed_packages_except, Options

\* The steps that put a service together and take it apart, with their undos.
LEMMA ServiceEdges ==
  ASSUME NEW n \in Names, NEW J, NEW K, NEW v \in Versions, NEW state \in {"enabled", "disabled"}
  PROVE  LET p == <<n, v>> IN
         /\ Walk(StepEdges(n, J, K), Steps, <<Step("create", p, state, <<Step("remove", p, FALSE, <<>>)>>)>>,
                 <<0, "none">>, <<v, "some">>)
         /\ Walk(StepEdges(n, J, K), Steps, <<Step("unmake", p, "", <<Step("recreate", p, "", <<>>)>>)>>,
                 <<v, "some">>, <<0, "some">>)
         /\ Walk(StepEdges(n, J, K), Steps, <<Step("recreate", p, "", <<Step("unmake", p, "", <<>>)>>)>>,
                 <<0, "some">>, <<v, "some">>)
         /\ Walk(StepEdges(n, J, K), Steps, <<Step("update", p, "", <<Step("update", p, "", <<>>)>>)>>,
                 <<v, "some">>, <<v, "some">>)
  <1> DEFINE p == <<n, v>>
             x(u) == Step("create", p, state, <<u>>)
             y(u) == Step("unmake", p, "", <<u>>)
             z(u) == Step("recreate", p, "", <<u>>)
             w(u) == Step("update", p, "", <<u>>)
             a == Step("remove", p, FALSE, <<>>)
             b == Step("recreate", p, "", <<>>)
             c == Step("unmake", p, "", <<>>)
             d == Step("update", p, "", <<>>)
  <1>1. /\ p \in Packages /\ p[1] = n /\ p[2] = v
        /\ <<0, "none">> \in Statuses /\ <<0, "some">> \in Statuses /\ <<v, "some">> \in Statuses
    BY DEF Packages, Statuses
  <1>2. /\ {"create", "remove", "unmake", "recreate", "update"} \subseteq Verbs
        /\ {"create", "remove", "unmake", "recreate", "update"} \cap Removers = {}
        /\ state \in Options /\ "" \in Options /\ FALSE \in Options
    BY Zenon DEF Verbs, Removers, Options
  <1>3. \A u : /\ x(u).do = "create" /\ x(u).pkg = p /\ x(u).opt = state
               /\ y(u).do = "unmake" /\ y(u).pkg = p
               /\ z(u).do = "recreate" /\ z(u).pkg = p
               /\ w(u).do = "update" /\ w(u).pkg = p
    BY DEF Step
  <1>4. /\ a.do = "remove" /\ a.pkg = p /\ b.do = "recreate" /\ b.pkg = p
        /\ c.do = "unmake" /\ c.pkg = p /\ d.do = "update" /\ d.pkg = p
    BY DEF Step
  <1>5. a \in Undos /\ b \in Undos /\ c \in Undos /\ d \in Undos
    BY Zenon, <1>1, <1>2, StepTypes
  <1>6. /\ a.pkg[1] = n /\ b.pkg[1] = n /\ c.pkg[1] = n /\ d.pkg[1] = n
        /\ a.do \notin Removers /\ b.do \notin Removers /\ c.do \notin Removers /\ d.do \notin Removers
    BY Zenon, <1>1, <1>2, <1>4
  <1>7. /\ Moves(a, <<v, "some">>, <<0, "none">>) /\ Moves(b, <<0, "some">>, <<v, "some">>)
        /\ Moves(c, <<v, "some">>, <<0, "some">>) /\ Moves(d, <<v, "some">>, <<v, "some">>)
    BY Zenon, <1>1, <1>4 DEF Moves
  <1>8. /\ Moves(x(a), <<0, "none">>, <<v, "some">>) /\ Moves(y(b), <<v, "some">>, <<0, "some">>)
        /\ Moves(z(c), <<0, "some">>, <<v, "some">>) /\ Moves(w(d), <<v, "some">>, <<v, "some">>)
    BY Zenon, <1>1, <1>3 DEF Moves
  <1> HIDE DEF p, a, b, c, d
  <1>9. Walk(StepEdges(n, J, K), Steps, <<x(a)>>, <<0, "none">>, <<v, "some">>)
    BY Zenon, <1>1, <1>2, <1>5, <1>6, <1>7, <1>8, PairEdge
  <1>10. Walk(StepEdges(n, J, K), Steps, <<y(b)>>, <<v, "some">>, <<0, "some">>)
    BY Zenon, <1>1, <1>2, <1>5, <1>6, <1>7, <1>8, PairEdge
  <1>11. Walk(StepEdges(n, J, K), Steps, <<z(c)>>, <<0, "some">>, <<v, "some">>)
    BY Zenon, <1>1, <1>2, <1>5, <1>6, <1>7, <1>8, PairEdge
  <1>12. Walk(StepEdges(n, J, K), Steps, <<w(d)>>, <<v, "some">>, <<v, "some">>)
    BY Zenon, <1>1, <1>2, <1>5, <1>6, <1>7, <1>8, PairEdge
  <1> QED
    BY Zenon, <1>9, <1>10, <1>11, <1>12 DEF p, a, b, c, d

\* A calm step with a calm undo.
LEMMA CalmPair ==
  ASSUME NEW n \in Names, NEW J, NEW K, NEW a \in Statuses, NEW p \in Packages, p[1] = n,
         NEW q \in Packages, q[1] = n, NEW do \in CalmVerbs \ Removers, NEW opt \in Options,
         NEW un \in CalmVerbs, NEW unopt \in Options, un \in Removers => ImageOf[q] \notin K
  PROVE  Walk(StepEdges(n, J, K), Steps, <<Step(do, p, opt, <<Step(un, q, unopt, <<>>)>>)>>, a, a)
  <1> DEFINE u == Step(un, q, unopt, <<>>)
             x == Step(do, p, opt, <<u>>)
  <1>1. do \in Verbs /\ un \in Verbs
    BY DEF Verbs
  <1>2. u \in Undos /\ u.pkg = q /\ u.do = un
    BY <1>1, StepTypes DEF Step
  <1>3. Moves(u, a, a) /\ Moves(x, a, a)
    BY <1>2 DEF Moves, Step
  <1> HIDE DEF u
  <1> QED
    BY <1>1, <1>2, <1>3, PairEdge DEF u

LEMMA Fives ==
  ASSUME NEW a, NEW b, NEW c, NEW d, NEW e
  PROVE  <<a, b, c>> \o <<d, e>> = <<a, b, c, d, e>>
  <1> DEFINE S == {a, b, c, d, e}
  <1>1. /\ <<a, b, c>> \in Seq(S) /\ <<d, e>> \in Seq(S) /\ <<a, b, c, d, e>> \in Seq(S)
        /\ Len(<<a, b, c>>) = 3 /\ Len(<<d, e>>) = 2 /\ Len(<<a, b, c, d, e>>) = 5
    OBVIOUS
  <1>2. /\ <<a, b, c>> \o <<d, e>> \in Seq(S) /\ Len(<<a, b, c>> \o <<d, e>>) = 5
        /\ \A i \in 1..5 : (<<a, b, c>> \o <<d, e>>)[i] = IF i <= 3 THEN (<<a, b, c>>)[i] ELSE (<<d, e>>)[i - 3]
    BY <1>1, ConcatProperties
  <1>3. \A i \in 1..5 : (<<a, b, c>> \o <<d, e>>)[i] = (<<a, b, c, d, e>>)[i]
    BY <1>2
  <1> HIDE DEF S
  <1> QED
    BY <1>1, <1>2, <1>3, SeqEqual

LEMMA Sixes ==
  ASSUME NEW a, NEW b, NEW c, NEW d, NEW e, NEW f
  PROVE  <<a, b, c>> \o <<d, e, f>> = <<a, b, c, d, e, f>>
  <1> DEFINE S == {a, b, c, d, e, f}
  <1>1. /\ <<a, b, c>> \in Seq(S) /\ <<d, e, f>> \in Seq(S) /\ <<a, b, c, d, e, f>> \in Seq(S)
        /\ Len(<<a, b, c>>) = 3 /\ Len(<<d, e, f>>) = 3 /\ Len(<<a, b, c, d, e, f>>) = 6
    OBVIOUS
  <1>2. /\ <<a, b, c>> \o <<d, e, f>> \in Seq(S) /\ Len(<<a, b, c>> \o <<d, e, f>>) = 6
        /\ \A i \in 1..6 : (<<a, b, c>> \o <<d, e, f>>)[i] = IF i <= 3 THEN (<<a, b, c>>)[i] ELSE (<<d, e, f>>)[i - 3]
    BY <1>1, ConcatProperties
  <1>3. \A i \in 1..6 : (<<a, b, c>> \o <<d, e, f>>)[i] = (<<a, b, c, d, e, f>>)[i]
    BY <1>2
  <1> HIDE DEF S
  <1> QED
    BY <1>1, <1>2, <1>3, SeqEqual

\* The image of p is still to be installed.
Pending(q, p) == \E i \in 1..Len(q) : q[i].do = "source.install" /\ q[i].pkg = p

LEMMA PendingOn ==
  ASSUME NEW S, NEW q \in Seq(S), NEW r \in Seq(S), NEW p
  PROVE  /\ Pending(q, p) => Pending(q \o r, p)
         /\ Pending(r, p) => Pending(q \o r, p)
<1>1. /\ Len(q \o r) = Len(q) + Len(r) /\ Len(q) \in Nat /\ Len(r) \in Nat
      /\ \A i \in 1..(Len(q) + Len(r)) : (q \o r)[i] = IF i <= Len(q) THEN q[i] ELSE r[i - Len(q)]
  BY ConcatProperties
<1>2. ASSUME NEW i \in 1..Len(q), q[i].do = "source.install" /\ q[i].pkg = p PROVE Pending(q \o r, p)
  <2>1. i \in 1..Len(q \o r) /\ (q \o r)[i] = q[i]
    BY <1>1
  <2> QED
    BY <1>2, <2>1 DEF Pending
<1>3. ASSUME NEW i \in 1..Len(r), r[i].do = "source.install" /\ r[i].pkg = p PROVE Pending(q \o r, p)
  <2>1. i + Len(q) \in 1..Len(q \o r) /\ (q \o r)[i + Len(q)] = r[i]
    BY <1>1
  <2> QED
    BY <1>3, <2>1 DEF Pending
<1> QED
  BY <1>2, <1>3 DEF Pending

LEMMA InstallWalk ==
  ASSUME NEW db, Database(db), NEW n \in Names, NEW v \in Versions, NEW state \in {"enabled", "disabled"},
         NEW skip \in BOOLEAN, NEW J
  PROVE  /\ Walk(StepEdges(n, J, {}), Steps, InstallSteps(db, <<n, v>>, state, skip), <<0, "none">>, <<v, "some">>)
         /\ Pending(InstallSteps(db, <<n, v>>, state, skip), <<n, v>>)
  <1> DEFINE p == <<n, v>>
             R == StepEdges(n, J, {})
             s1 == Step("source.install", p, "", <<Step("source.uninstall", p, "", <<>>)>>)
             s2 == Step("create", p, state, <<Step("remove", p, FALSE, <<>>)>>)
             s3 == Step("order", p, _get_installed_packages_and(db, p),
                        <<Step("order", p, get_installed_packages(db), <<>>)>>)
             s4 == Step("plugins", p, "", <<Step("unplug", p, "", <<>>)>>)
  <1>1. /\ p \in Packages /\ p[1] = n /\ <<0, "none">> \in Statuses /\ <<v, "some">> \in Statuses
        /\ {"source.install", "order", "plugins", "unplug"} \subseteq CalmVerbs \ Removers
        /\ "source.uninstall" \in CalmVerbs
    BY DEF Packages, Statuses, CalmVerbs, Removers
  <1>2. /\ "" \in Options /\ _get_installed_packages_and(db, p) \in Options
        /\ get_installed_packages(db) \in Options
    BY Zenon, <1>1, OrdersAreOptions
  <1> HIDE DEF p
  <1>3. Walk(R, Steps, <<s1>>, <<0, "none">>, <<0, "none">>)
    BY Zenon, <1>1, <1>2, CalmPair
  <1>4. Walk(R, Steps, <<s2>>, <<0, "none">>, <<v, "some">>)
    BY Zenon, ServiceEdges DEF p
  <1>5. Walk(R, Steps, <<s3>>, <<v, "some">>, <<v, "some">>)
    BY Zenon, <1>1, <1>2, CalmPair
  <1>6. Walk(R, Steps, <<s4>>, <<v, "some">>, <<v, "some">>)
    BY Zenon, <1>1, <1>2, CalmPair
  <1> HIDE DEF R, s1, s2, s3, s4
  <1>7. Walk(R, Steps, <<s1, s2, s3>>, <<0, "none">>, <<v, "some">>)
    BY <1>3, <1>4, <1>5, WalkThree
  <1>8. Walk(R, Steps, IF skip THEN <<>> ELSE <<s4>>, <<v, "some">>, <<v, "some">>)
    BY <1>1, <1>6, WalkNowhere
  <1>9. Walk(R, Steps, <<s1, s2, s3>> \o (IF skip THEN <<>> ELSE <<s4>>), <<0, "none">>, <<v, "some">>)
    BY <1>7, <1>8, WalkOn
  <1>10. Pending(<<s1, s2, s3>>, p)
    <2>1. s1.do = "source.install" /\ s1.pkg = p
      BY DEF s1, Step
    <2>2. Len(<<s1, s2, s3>>) = 3 /\ (<<s1, s2, s3>>)[1] = s1 /\ 1 \in 1..3
      OBVIOUS
    <2> QED
      BY <2>1, <2>2 DEF Pending
  <1>11. Pending(<<s1, s2, s3>> \o (IF skip THEN <<>> ELSE <<s4>>), p)
    BY <1>7, <1>8, <1>10, PendingOn DEF Walk
  <1> QED
    BY Zenon, <1>9, <1>11 DEF InstallSteps, p, R, s1, s2, s3, s4

\* How an upgrade ends: the old image goes.
OldImageSteps(old, new) == IF ImageOf[old] = ImageOf[new] THEN <<>> ELSE <<Step("rmi", old, "", <<>>)>>

Joined(q, r, t) == q = r \o t

UpgradePath(q, n, v, w, update_only, J, K) ==
  /\ Walk(StepEdges(n, J, K), Steps, q, <<v, "some">>, <<w, "some">>)
  /\ ~update_only => Pending(q, <<n, w>>)

LEMMA UpgradeWalk ==
  ASSUME NEW s, NEW db, Database(db), NEW n \in Names, NEW v \in Versions, NEW w \in Versions,
         NEW update_only \in BOOLEAN, NEW skip \in BOOLEAN, NEW J, NEW K,
         ~update_only => ImageOf[<<n, w>>] \notin K
  PROVE  \E q : /\ UpgradePath(q, n, v, w, update_only, J, K)
                /\ Joined(UpgradeSteps(s, db, <<n, v>>, <<n, w>>, update_only, skip), q, OldImageSteps(<<n, v>>, <<n, w>>))
  <1> DEFINE old == <<n, v>>
             new == <<n, w>>
             R == StepEdges(n, J, K)
             enabled == s.features[old[1]] = "enabled"
             s1 == Step("unplug", old, "", <<Step("plugins", old, "", <<>>)>>)
             s2 == Step("source.install", new, "", <<Step("source.uninstall", new, "", <<>>)>>)
             s3 == Step("stop", old, "", <<Step("start", old, "", <<>>)>>)
             s4 == Step("unmake", old, "", <<Step("recreate", old, "", <<>>)>>)
             s5 == Step("rm", old, "", <<>>)
             s6 == Step("recreate", new, "", <<Step("unmake", new, "", <<>>)>>)
             s7 == Step("order", new, _get_installed_packages_and(db, new),
                        <<Step("order", old, _get_installed_packages_and(db, old), <<>>)>>)
             s8 == Step("update", new, "", <<Step("update", old, "", <<>>)>>)
             s9 == Step("start", new, "", <<Step("stop", new, "", <<>>)>>)
             s10 == Step("plugins", new, "", <<Step("missing", new, "", <<>>)>>)
             s11 == Step("rmi", old, "", <<>>)
  <1>1. /\ old \in Packages /\ old[1] = n /\ new \in Packages /\ new[1] = n /\ new[2] = w
        /\ <<v, "some">> \in Statuses /\ <<0, "some">> \in Statuses /\ <<w, "some">> \in Statuses
    BY DEF Packages, Statuses
  <1>2. /\ {"unplug", "plugins", "source.install", "stop", "start", "rm", "order", "missing"} \subseteq CalmVerbs \ Removers
        /\ "source.uninstall" \in CalmVerbs /\ "rmi" \in CalmVerbs
    BY DEF CalmVerbs, Removers
  <1>3. /\ "" \in Options /\ _get_installed_packages_and(db, new) \in Options
        /\ _get_installed_packages_and(db, old) \in Options
    BY Zenon, <1>1, OrdersAreOptions
  <1>4. /\ Walk(R, Steps, <<s4>>, <<v, "some">>, <<0, "some">>)
        /\ Walk(R, Steps, <<s6>>, <<0, "some">>, <<w, "some">>)
    BY Zenon, ServiceEdges
  <1>5. Walk(R, Steps, <<s8>>, <<w, "some">>, <<w, "some">>)
    <2> DEFINE u == Step("update", old, "", <<>>)
    <2>1. u \in Undos /\ u.pkg[1] = n /\ u.do = "update" /\ "update" \in Verbs /\ "update" \notin Removers
      BY Zenon, <1>1, <1>3, StepTypes DEF Step, Verbs, Removers
    <2>2. Moves(u, <<w, "some">>, <<w, "some">>) /\ Moves(s8, <<w, "some">>, <<w, "some">>)
      BY Zenon, <2>1 DEF Moves, Step
    <2> HIDE DEF u, new, R
    <2> QED
      BY Zenon, <1>1, <1>3, <2>1, <2>2, PairEdge DEF u, R
  <1> HIDE DEF old, new
  <1>6. Walk(R, Steps, <<s1>>, <<v, "some">>, <<v, "some">>)
    BY Zenon, <1>1, <1>2, <1>3, CalmPair
  <1>7. Walk(R, Steps, IF update_only THEN <<>> ELSE <<s2>>, <<v, "some">>, <<v, "some">>)
    <2>1. CASE update_only
      BY <1>1, <2>1, WalkNowhere
    <2>2. CASE ~update_only
      <3>1. ImageOf[new] \notin K
        BY <2>2 DEF new
      <3>2. Walk(R, Steps, <<s2>>, <<v, "some">>, <<v, "some">>)
        BY Zenon, <1>1, <1>2, <1>3, <3>1, CalmPair
      <3> QED
        BY Zenon, <2>2, <3>2
    <2> QED
      BY Zenon, <2>1, <2>2
  <1>8. Walk(R, Steps, <<s3>>, <<v, "some">>, <<v, "some">>)
    BY Zenon, <1>1, <1>2, <1>3, CalmPair
  <1>9. Walk(R, Steps, <<s5>>, <<0, "some">>, <<0, "some">>)
    BY Zenon, <1>1, <1>2, <1>3, CalmEdge
  <1>10. Walk(R, Steps, <<s7>>, <<w, "some">>, <<w, "some">>)
    BY Zenon, <1>1, <1>2, <1>3, CalmPair
  <1>11. Walk(R, Steps, <<s9>>, <<w, "some">>, <<w, "some">>)
    BY Zenon, <1>1, <1>2, <1>3, CalmPair
  <1>12. Walk(R, Steps, <<s10>>, <<w, "some">>, <<w, "some">>)
    BY Zenon, <1>1, <1>2, <1>3, CalmPair
  <1> HIDE DEF R, enabled, s1, s2, s3, s4, s5, s6, s7, s8, s9, s10, s11
  <1>14. Walk(R, Steps, IF enabled THEN <<s3>> ELSE <<>>, <<v, "some">>, <<v, "some">>)
    BY <1>1, <1>8, WalkNowhere
  <1>15. Walk(R, Steps, IF enabled THEN <<s9>> ELSE <<>>, <<w, "some">>, <<w, "some">>)
    BY <1>1, <1>11, WalkNowhere
  <1>16. Walk(R, Steps, IF skip THEN <<>> ELSE <<s10>>, <<w, "some">>, <<w, "some">>)
    BY <1>1, <1>12, WalkNowhere
  <1>17. Walk(R, Steps, <<s4, s5, s6, s7, s8>>, <<v, "some">>, <<w, "some">>)
    <2>1. Walk(R, Steps, <<s4, s5, s6>>, <<v, "some">>, <<w, "some">>)
      BY <1>4, <1>9, WalkThree
    <2>2. Walk(R, Steps, <<s7, s8>>, <<w, "some">>, <<w, "some">>)
      BY <1>5, <1>10, WalkTwo
    <2>3. Walk(R, Steps, <<s4, s5, s6>> \o <<s7, s8>>, <<v, "some">>, <<w, "some">>)
      BY <2>1, <2>2, WalkOn
    <2> QED
      BY <2>3, Fives
  <1>18. Walk(R, Steps, <<s1>> \o (IF update_only THEN <<>> ELSE <<s2>>), <<v, "some">>, <<v, "some">>)
    BY <1>6, <1>7, WalkOn
  <1>19. Walk(R, Steps, <<s1>> \o (IF update_only THEN <<>> ELSE <<s2>>) \o (IF enabled THEN <<s3>> ELSE <<>>),
              <<v, "some">>, <<v, "some">>)
    BY <1>14, <1>18, WalkOn
  <1>20. Walk(R, Steps, <<s1>> \o (IF update_only THEN <<>> ELSE <<s2>>) \o (IF enabled THEN <<s3>> ELSE <<>>)
                          \o <<s4, s5, s6, s7, s8>>, <<v, "some">>, <<w, "some">>)
    BY <1>17, <1>19, WalkOn
  <1>21. Walk(R, Steps, <<s1>> \o (IF update_only THEN <<>> ELSE <<s2>>) \o (IF enabled THEN <<s3>> ELSE <<>>)
                          \o <<s4, s5, s6, s7, s8>> \o (IF enabled THEN <<s9>> ELSE <<>>),
              <<v, "some">>, <<w, "some">>)
    BY <1>15, <1>20, WalkOn
  <1>22. Walk(R, Steps, <<s1>> \o (IF update_only THEN <<>> ELSE <<s2>>) \o (IF enabled THEN <<s3>> ELSE <<>>)
                          \o <<s4, s5, s6, s7, s8>> \o (IF enabled THEN <<s9>> ELSE <<>>)
                          \o (IF skip THEN <<>> ELSE <<s10>>), <<v, "some">>, <<w, "some">>)
    BY <1>16, <1>21, WalkOn
  <1>23. ~update_only => Pending(<<s1>> \o (IF update_only THEN <<>> ELSE <<s2>>) \o (IF enabled THEN <<s3>> ELSE <<>>)
                          \o <<s4, s5, s6, s7, s8>> \o (IF enabled THEN <<s9>> ELSE <<>>)
                          \o (IF skip THEN <<>> ELSE <<s10>>), new)
    <2> SUFFICES ASSUME ~update_only
                 PROVE  Pending(<<s1>> \o (IF update_only THEN <<>> ELSE <<s2>>) \o (IF enabled THEN <<s3>> ELSE <<>>)
                          \o <<s4, s5, s6, s7, s8>> \o (IF enabled THEN <<s9>> ELSE <<>>)
                          \o (IF skip THEN <<>> ELSE <<s10>>), new)
      OBVIOUS
    <2>1. Pending(IF update_only THEN <<>> ELSE <<s2>>, new)
      <3>1. s2.do = "source.install" /\ s2.pkg = new
        BY DEF s2, Step
      <3>2. Len(<<s2>>) = 1 /\ (<<s2>>)[1] = s2 /\ 1 \in 1..1
        OBVIOUS
      <3> QED
        BY <3>1, <3>2 DEF Pending
    <2>2. Pending(<<s1>> \o (IF update_only THEN <<>> ELSE <<s2>>), new)
      BY <1>6, <1>7, <2>1, PendingOn DEF Walk
    <2>3. Pending(<<s1>> \o (IF update_only THEN <<>> ELSE <<s2>>) \o (IF enabled THEN <<s3>> ELSE <<>>), new)
      BY <1>14, <1>18, <2>2, PendingOn DEF Walk
    <2>4. Pending(<<s1>> \o (IF update_only THEN <<>> ELSE <<s2>>) \o (IF enabled THEN <<s3>> ELSE <<>>)
                          \o <<s4, s5, s6, s7, s8>>, new)
      BY <1>17, <1>19, <2>3, PendingOn DEF Walk
    <2>5. Pending(<<s1>> \o (IF update_only THEN <<>> ELSE <<s2>>) \o (IF enabled THEN <<s3>> ELSE <<>>)
                          \o <<s4, s5, s6, s7, s8>> \o (IF enabled THEN <<s9>> ELSE <<>>), new)
      BY <1>15, <1>20, <2>4, PendingOn DEF Walk
    <2> QED
      BY <1>16, <1>21, <2>5, PendingOn DEF Walk
  <1> DEFINE q == <<s1>> \o (IF update_only THEN <<>> ELSE <<s2>>) \o (IF enabled THEN <<s3>> ELSE <<>>)
                  \o <<s4, s5, s6, s7, s8>> \o (IF enabled THEN <<s9>> ELSE <<>>)
                  \o (IF skip THEN <<>> ELSE <<s10>>)
  <1>24. UpgradeSteps(s, db, old, new, update_only, skip) =
           q \o (IF ImageOf[old] = ImageOf[new] THEN <<>> ELSE <<s11>>)
    BY DEF UpgradeSteps, old, new, enabled, s1, s2, s3, s4, s5, s6, s7, s8, s9, s10, s11
  <1>25. Walk(R, Steps, q, <<v, "some">>, <<w, "some">>) /\ (~update_only => Pending(q, new))
    BY <1>22, <1>23
  <1> HIDE DEF q
  <1>26. UpgradePath(q, n, v, w, update_only, J, K)
    BY <1>25 DEF UpgradePath, new, R
  <1> QED
    BY Zenon, <1>24, <1>26 DEF Joined, OldImageSteps, old, new, s11

LEMMA UninstallWalk ==
  ASSUME NEW db, Database(db), NEW n \in Names, NEW v \in Versions, NEW keep \in BOOLEAN
  PROVE  Walk(PlainEdges(n), Steps, UninstallSteps(db, <<n, v>>, keep), <<v, "some">>, <<0, "none">>)
  <1> DEFINE p == <<n, v>>
             R == PlainEdges(n)
             s1 == Step("disable", p, "", <<>>)
             s2 == Step("unplug", p, "", <<>>)
             s3 == Step("remove", p, keep, <<>>)
             s4 == Step("order", p, _get_installed_packages_except(db, p), <<>>)
             s5 == Step("rm", p, "", <<>>)
             s6 == Step("rmi", p, "", <<>>)
  <1>1. /\ p \in Packages /\ p[1] = n /\ p[2] = v /\ <<0, "none">> \in Statuses /\ <<v, "some">> \in Statuses
        /\ {"disable", "unplug", "order", "rm", "rmi"} \subseteq CalmVerbs
    BY DEF Packages, Statuses, CalmVerbs
  <1>2. "" \in Options /\ keep \in Options /\ _get_installed_packages_except(db, p) \in Options
    BY Zenon, <1>1, OrdersAreOptions DEF Options
  <1> HIDE DEF p
  <1>3. ASSUME NEW do \in CalmVerbs, NEW opt \in Options, NEW a \in Statuses
        PROVE  Walk(R, Steps, <<Step(do, p, opt, <<>>)>>, a, a)
    <2> DEFINE x == Step(do, p, opt, <<>>)
    <2>1. do \in Verbs
      BY DEF Verbs
    <2>2. x \in Steps /\ x.pkg = p /\ x.do = do /\ x.undo = <<>>
      BY <1>1, <2>1, StepTypes DEF Step
    <2> HIDE DEF x
    <2>3. <<x, a, a>> \in PlainEdges(n)
      BY <1>1, <2>2 DEF PlainEdges, Moves
    <2> QED
      BY <2>2, <2>3, WalkOne DEF x
  <1>4. Walk(R, Steps, <<s3>>, <<v, "some">>, <<0, "none">>)
    <2>1. "remove" \in Verbs
      BY DEF Verbs
    <2>2. s3 \in Steps /\ s3.pkg = p /\ s3.do = "remove" /\ s3.undo = <<>>
      BY Zenon, <1>1, <1>2, <2>1, StepTypes DEF Step
    <2> HIDE DEF s3
    <2>3. <<s3, <<v, "some">>, <<0, "none">>>> \in PlainEdges(n)
      BY <1>1, <2>2 DEF PlainEdges, Moves
    <2> QED
      BY <1>1, <2>2, <2>3, WalkOne
  <1>5. Walk(R, Steps, <<s1>>, <<v, "some">>, <<v, "some">>) /\ Walk(R, Steps, <<s2>>, <<v, "some">>, <<v, "some">>)
    BY Zenon, <1>1, <1>2, <1>3
  <1>6. /\ Walk(R, Steps, <<s4>>, <<0, "none">>, <<0, "none">>) /\ Walk(R, Steps, <<s5>>, <<0, "none">>, <<0, "none">>)
        /\ Walk(R, Steps, <<s6>>, <<0, "none">>, <<0, "none">>)
    BY Zenon, <1>1, <1>2, <1>3
  <1> HIDE DEF R, s1, s2, s3, s4, s5, s6
  <1>7. Walk(R, Steps, <<s1, s2, s3>>, <<v, "some">>, <<0, "none">>)
    BY <1>4, <1>5, WalkThree
  <1>8. Walk(R, Steps, <<s4, s5, s6>>, <<0, "none">>, <<0, "none">>)
    BY <1>6, WalkThree
  <1>9. Walk(R, Steps, <<s1, s2, s3>> \o <<s4, s5, s6>>, <<v, "some">>, <<0, "none">>)
    BY <1>7, <1>8, WalkOn
  <1>a. <<s1, s2, s3>> \o <<s4, s5, s6>> = <<s1, s2, s3, s4, s5, s6>>
    BY Sixes
  <1>10. Walk(R, Steps, <<s1, s2, s3, s4, s5, s6>>, <<v, "some">>, <<0, "none">>)
    BY <1>9, <1>a, Zenon
  <1> QED
    BY Zenon, <1>10 DEF UninstallSteps, p, R, s1, s2, s3, s4, s5, s6

---------------------------------------------------------------------------
\* Whatever the step, other packages are not touched.
LEMMA EffectApart ==
  ASSUME NEW s, SystemRecord(s), NEW x, x.pkg \in Packages, x.do \in Verbs, NEW d
  PROVE  Apart(s, Effect(s, x, d), x)
  <1> DEFINE n == x.pkg[1]
             t == Effect(s, x, d)
  <1>0. n \in Names
    BY DEF Packages
  <1>1. CASE x.do \in CalmVerbs \ {"disable"}
    <2>1. Aside(s, t, x)
      BY <1>1, EffectIsAside
    <2> HIDE DEF t
    <2> QED
      BY <2>1, AsideIsCalm DEF t
  <1>2. CASE x.do \in {"update", "disable"}
    <2> DEFINE X == IF x.do = "disable" \/ s.features[n] = "none" THEN "disabled" ELSE s.features[n]
    <2>1. FeatureTo(s, t, n, X)
      <3>1. CASE x.do = "update"
        <4>1. t = feature_update(s, x.pkg)
          BY <3>1 DEF Effect
        <4> QED
          BY <3>1, <4>1 DEF feature_update, FeatureTo
      <3>2. CASE x.do = "disable"
        <4>1. t = _disable_feature(s, x.pkg)
          BY <3>2 DEF Effect
        <4> QED
          BY Zenon, <3>2, <4>1 DEF _disable_feature, FeatureTo
      <3> QED
        BY <1>2, <3>1, <3>2
    <2> HIDE DEF t, n, X
    <2>2. /\ SystemRecord(t) /\ t.files = s.files /\ t.lists = s.lists /\ t.images = s.images
          /\ \A m \in Names \ {n} : t.features[m] = s.features[m]
      BY <1>0, <2>1, FeatureWritten
    <2>3. Apart(s, t, x)
      BY <2>2 DEF Apart, Rows, n
    <2> QED
      BY <2>3 DEF t
  <1>3. CASE x.do \in {"create", "recreate"}
    <2>1. t = create(s, x.pkg, TRUE, x.opt) \/ t = create(s, x.pkg, FALSE, "disabled")
      BY <1>3 DEF Effect
    <2> HIDE DEF t
    <2> QED
      BY <2>1, CreateService DEF t
  <1>4. CASE x.do \in {"remove", "unmake"}
    <2>1. t = remove(s, x.pkg, TRUE, x.opt) \/ t = remove(s, x.pkg, FALSE, FALSE)
      BY <1>4 DEF Effect
    <2> HIDE DEF t
    <2> QED
      BY <2>1, RemoveService DEF t
  <1> QED
    BY <1>1, <1>2, <1>3, <1>4 DEF Verbs

LEMMA FailureApart ==
  ASSUME NEW s, SystemRecord(s), NEW x, x.pkg \in Packages, NEW t \in FailedEffects(s, x)
  PROVE  Apart(s, t, x) /\ (x.do \in Removers => t = s)
  <1>1. CASE x.do = "create"
    <2>1. t = remove(s, x.pkg, TRUE, FALSE)
      BY <1>1 DEF FailedEffects
    <2> QED
      BY <1>1, <2>1, RemoveService DEF Removers
  <1>2. CASE x.do = "recreate"
    <2>1. t = remove(s, x.pkg, FALSE, FALSE)
      BY <1>2 DEF FailedEffects
    <2> QED
      BY <1>2, <2>1, RemoveService DEF Removers
  <1>3. CASE x.do \notin {"create", "recreate"}
    <2>0. x.do \in Removers => t = s
      BY DEF FailedEffects, Removers
    <2> SUFFICES Aside(s, t, x)
      BY <2>0, AsideIsCalm
    <2>1. CASE x.do = "order"
      <3>1. t = s \/ t = [s EXCEPT !.order["fast"] = x.opt]
        BY <2>1 DEF FailedEffects
      <3> DEFINE S == [s.order EXCEPT !["fast"] = x.opt]
      <3>2. DOMAIN S = {"fast", "warm"} /\ (t = s \/ t = [s EXCEPT !.order = S])
        BY <3>1 DEF SystemRecord
      <3> HIDE DEF S
      <3> QED
        BY <3>2 DEF Aside
    <2>2. CASE x.do = "plugins"
      <3>1. t = s \/ \E k : t = _install_cli_plugins(s, x.pkg, k)
        BY <2>2 DEF FailedEffects
      <3> QED
        BY <3>1 DEF Aside, _install_cli_plugins
    <2>3. CASE x.do = "unplug"
      <3>1. t = s \/ \E k : t = _uninstall_cli_plugins(s, x.pkg, k)
        BY <2>3 DEF FailedEffects
      <3> QED
        BY <3>1 DEF Aside, _uninstall_cli_plugins
    <2>4. CASE x.do \in {"start", "stop"}
      <3>1. t \in {s, _start_feature(s, x.pkg), _stop_feature(s, x.pkg)}
        BY <2>4 DEF FailedEffects
      <3> QED
        BY <3>1 DEF Aside, _start_feature, _stop_feature
    <2>5. CASE x.do \notin {"order", "plugins", "unplug", "start", "stop"}
      <3>1. t = s
        BY <1>3, <2>5 DEF FailedEffects
      <3> QED
        BY <3>1 DEF Aside
    <2> QED
      BY <2>1, <2>2, <2>3, <2>4, <2>5
  <1> QED
    BY <1>1, <1>2, <1>3

---------------------------------------------------------------------------
\* What is to be of a package, by the file d.
Status(d, n) == IF is_installed(d, n) THEN <<d[n].version, "some">> ELSE <<0, "none">>

Kept(s, p) == Shared(p) \/ ImageOf[p] \in s.images

Settled(s, d, n) ==
  Serves(s, n, Status(d, n)) /\ (is_installed(d, n) => Kept(s, <<n, d[n].version>>))

\* A commit of d loses what f, the file, says of these packages.
Missed(d, f) ==
  {m \in DOMAIN d \cup DOMAIN f :
     /\ is_installed(f, m) \/ is_installed(d, m)
     /\ ~(m \in DOMAIN d /\ m \in DOMAIN f /\ d[m] = f[m])}

\* The package a process is changing, before and after, and the image that
\* undoing the change must find.
Was(me) == me.db[me.name].installed
Old(me) == <<me.name, me.db[me.name].version>>
New(me) == <<me.name, me.entry.version>>
Aim(me) == IF me.entry.installed THEN <<me.entry.version, "some">> ELSE <<0, "none">>
Spare(me) ==
  IF Was(me) /\ (me.edit \/ me.entry.image # me.db[me.name].image) THEN {ImageOf[Old(me)]} ELSE {}
Plan(me) ==
  IF me.rollback THEN StepEdges(me.name, {ImageOf[New(me)]}, Spare(me)) ELSE PlainEdges(me.name)

\* Only the last step can remove the image of p.
GoesLast(q, p) == \A i \in 1..(Len(q) - 1) : q[i].do \in Removers => ImageOf[q[i].pkg] # ImageOf[p]

\* A process that has just passed its checks, and what it is to do.
Begun(me) ==
  /\ Process(me) /\ me.pc = "run" /\ me.undo = <<>>
  /\ ~me.ignored =>
       validate_package_tree(get_installed_packages([me.db EXCEPT ![me.name] = me.entry]))
  /\ me.rollback = me.entry.installed
  /\ Walk(Plan(me), Steps, me.todo, Status(me.db, me.name), Aim(me))
  /\ me.rollback => /\ Pending(me.todo, New(me)) \/ (Was(me) /\ New(me) = Old(me))
                    /\ Was(me) => GoesLast(me.todo, Old(me))

Becomes(c, me) == client' = [client EXCEPT ![c] = me]

LEMMA NotMissed ==
  ASSUME NEW d, NEW f, NEW n, n \notin Missed(d, f)
  PROVE  /\ is_installed(d, n) <=> is_installed(f, n)
         /\ is_installed(d, n) => d[n] = f[n]
         /\ Status(d, n) = Status(f, n)
         /\ \A s : Settled(s, d, n) <=> Settled(s, f, n)
<1>1. /\ is_installed(d, n) <=> is_installed(f, n)
      /\ is_installed(d, n) => d[n] = f[n]
  BY DEF Missed, is_installed, has_package
<1> QED
  BY <1>1 DEF Status, Settled

LEMMA InstallBegins ==
  ASSUME NEW c, NEW from, Process(from), from.pc \in {"ready", "migrate"}, NEW p \in Packages,
         NEW registry \in BOOLEAN, NEW state \in {"enabled", "disabled"}, NEW skip \in BOOLEAN,
         NEW force \in BOOLEAN, install_from_source(c, from, p, registry, state, skip, force)
  PROVE  /\ \E me : Begun(me) /\ Becomes(c, me)
         /\ UNCHANGED <<file, sys, suspect, unchecked>>
  <1> DEFINE db == from.db
             check == /\ validate_package_base_os_constraints(p)
                      /\ validate_package_tree(_get_installed_packages_and(db, p))
                      /\ validate_package_cli_can_be_skipped(p, skip)
             known == IF has_package(db, p[1]) THEN db ELSE add_package(db, p[1], 0)
             was == known[p[1]]
             default == install_image(was.default, p, registry)
             entry == [was EXCEPT !.installed = TRUE, !.version = p[2], !.image = ImageOf[p],
                                  !.default = install_image(@, p, registry)]
             steps == InstallSteps(db, p, state, skip)
             me == [[from EXCEPT !.db = known] EXCEPT
                      !.pc = "run", !.name = p[1], !.entry = entry, !.todo = steps, !.undo = <<>>,
                      !.ignored = ~check, !.edit = FALSE, !.rollback = TRUE]
  <1>1. client' = [client EXCEPT ![c] = me] /\ UNCHANGED <<file, sys, suspect, unchecked>> /\ ~is_installed(db, p[1])
    BY DEF install_from_source, Begin
  <1>2. Database(db) /\ p[1] \in Names /\ p[2] \in Versions /\ p = <<p[1], p[2]>>
    BY DEF Process, Packages
  <1>3. /\ Database(known) /\ p[1] \in DOMAIN known /\ ~was.installed /\ DOMAIN db \subseteq DOMAIN known
        /\ get_installed_packages(known) = get_installed_packages(db)
    <2>1. CASE has_package(db, p[1])
      <3>1. known = db
        BY <2>1
      <3> HIDE DEF known, db
      <3> QED
        BY <1>1, <1>2, <2>1, <3>1 DEF has_package, is_installed
    <2>2. CASE ~has_package(db, p[1])
      <3>1. known = add_package(db, p[1], 0) /\ p[1] \notin DOMAIN db
        BY <2>2 DEF has_package
      <3> DEFINE none == 0
      <3>2. none \in Versions \cup {0}
        OBVIOUS
      <3> HIDE DEF known, db, none
      <3>3. known = add_package(db, p[1], none)
        BY <3>1 DEF none
      <3> HIDE DEF was
      <3>4. /\ Database(add_package(db, p[1], none))
            /\ get_installed_packages(add_package(db, p[1], none)) = get_installed_packages(db)
            /\ DOMAIN add_package(db, p[1], none) = DOMAIN db \cup {p[1]}
            /\ ~add_package(db, p[1], none)[p[1]].installed
        BY <1>2, <3>1, <3>2, InstalledOfAdded
      <3>5. was = add_package(db, p[1], none)[p[1]]
        BY <3>3 DEF was
      <3> QED
        BY <3>3, <3>4, <3>5
    <2> HIDE DEF known, was, db
    <2> QED
      BY <2>1, <2>2
  <1>4. SoundEntry(p[1], was)
    BY <1>3 DEF Database
  <1>5. default \in Versions \cup {0}
    BY <1>2, <1>4 DEF SoundEntry, Entries, install_image
  <1> HIDE DEF check, known, was, default, steps
  <1>6. entry = [installed |-> TRUE, version |-> p[2], image |-> ImageOf[p], default |-> default]
    <2>1. was = [installed |-> was.installed, version |-> was.version, image |-> was.image, default |-> was.default]
      BY <1>4 DEF SoundEntry, Entries
    <2>2. entry = [was EXCEPT !.installed = TRUE, !.version = p[2], !.image = ImageOf[p], !.default = default]
      BY DEF default
    <2> HIDE DEF entry
    <2> QED
      BY <2>1, <2>2
  <1> HIDE DEF entry
  <1>7. SoundEntry(p[1], entry) /\ entry.installed /\ entry.version = p[2]
    BY <1>2, <1>5, <1>6 DEF SoundEntry, Entries
  <1>8. /\ Walk(StepEdges(p[1], {ImageOf[p]}, {}), Steps, steps, <<0, "none">>, <<p[2], "some">>)
        /\ Pending(steps, p)
    BY <1>2, InstallWalk DEF steps
  <1>9. steps \in Seq(Steps) /\ <<>> \in Seq(Undos)
    BY <1>8 DEF Walk
  <1>10. /\ me.pc = "run" /\ me.db = known /\ me.name = p[1] /\ me.entry = entry /\ me.todo = steps
         /\ me.undo = <<>> /\ me.ignored = ~check /\ me.edit = FALSE /\ me.rollback = TRUE
         /\ me.more = from.more
         /\ me = [pc |-> me.pc, db |-> me.db, name |-> me.name, entry |-> me.entry, todo |-> me.todo,
                  undo |-> me.undo, more |-> me.more, ignored |-> me.ignored, edit |-> me.edit,
                  rollback |-> me.rollback]
    <2>1. from = [pc |-> from.pc, db |-> from.db, name |-> from.name, entry |-> from.entry, todo |-> from.todo,
                  undo |-> from.undo, more |-> from.more, ignored |-> from.ignored, edit |-> from.edit,
                  rollback |-> from.rollback]
      BY DEF Process
    <2> DEFINE self == [from EXCEPT !.db = known]
               ignored == ~check
    <2>2. self = [pc |-> from.pc, db |-> known, name |-> from.name, entry |-> from.entry, todo |-> from.todo,
                  undo |-> from.undo, more |-> from.more, ignored |-> from.ignored, edit |-> from.edit,
                  rollback |-> from.rollback]
      BY <2>1
    <2>3. me = [self EXCEPT !.pc = "run", !.name = p[1], !.entry = entry, !.todo = steps, !.undo = <<>>,
                            !.ignored = ignored, !.edit = FALSE, !.rollback = TRUE]
      OBVIOUS
    <2> HIDE DEF db, me, self, ignored
    <2>4. me = [pc |-> "run", db |-> known, name |-> p[1], entry |-> entry, todo |-> steps, undo |-> <<>>,
                more |-> from.more, ignored |-> ignored, edit |-> FALSE, rollback |-> TRUE]
      BY <2>2, <2>3
    <2>5. ignored = ~check
      BY DEF ignored
    <2> QED
      BY <2>4, <2>5
  <1> HIDE DEF me
  <1>11. Process(me)
    <2>1. /\ me.more \subseteq DOMAIN OldPackages /\ me.more \subseteq DOMAIN known
          /\ me.pc \in ProcessStates /\ me.ignored \in BOOLEAN
      BY <1>3, <1>10 DEF Process, ProcessStates, check
    <2> QED
      BY <1>3, <1>7, <1>9, <1>10, <2>1 DEF Process
  <1>12. ~me.ignored => validate_package_tree(get_installed_packages([me.db EXCEPT ![me.name] = me.entry]))
    <2>1. get_installed_packages([known EXCEPT ![p[1]] = entry]) = _get_installed_packages_and(db, p)
      BY <1>2, <1>3, <1>7, InstalledOfUpdate DEF _get_installed_packages_and
    <2> QED
      BY <1>10, <2>1 DEF check
  <1>13. /\ Status(me.db, me.name) = <<0, "none">> /\ Aim(me) = <<p[2], "some">> /\ ~Was(me) /\ New(me) = p
         /\ Plan(me) = StepEdges(p[1], {ImageOf[p]}, {})
    BY <1>2, <1>3, <1>7, <1>10 DEF Status, is_installed, Aim, Was, New, Plan, Spare, was
  <1>14. Begun(me)
    BY <1>7, <1>8, <1>10, <1>11, <1>12, <1>13 DEF Begun
  <1> QED
    BY <1>1, <1>14 DEF me, Becomes

Started(me, from, n, e, q, ignored, edit, undone) ==
  /\ Process(me) /\ me.pc = "run" /\ me.db = from.db /\ me.name = n /\ me.entry = e
  /\ me.todo = q /\ me.undo = <<>> /\ me.ignored = ignored /\ me.edit = edit /\ me.rollback = undone

\* What beginning a command makes of a process.
LEMMA Starting ==
  ASSUME NEW c, NEW from, Process(from), from.pc # "idle", NEW n, NEW e, NEW q \in Seq(Steps),
         NEW ignored \in BOOLEAN, NEW edit \in BOOLEAN, NEW undone \in BOOLEAN, Database(from.db), n \in DOMAIN from.db,
         SoundEntry(n, e), Begin(c, from, n, e, q, ignored, edit, undone)
  PROVE  /\ UNCHANGED <<file, sys, suspect, unchecked>>
         /\ \E me : Becomes(c, me) /\ Started(me, from, n, e, q, ignored, edit, undone)
  <1> DEFINE me == [from EXCEPT !.pc = "run", !.name = n, !.entry = e, !.todo = q, !.undo = <<>>,
                                !.ignored = ignored, !.edit = edit, !.rollback = undone]
  <1>1. client' = [client EXCEPT ![c] = me] /\ UNCHANGED <<file, sys, suspect, unchecked>>
    BY DEF Begin
  <1>2. me = [pc |-> "run", db |-> from.db, name |-> n, entry |-> e, todo |-> q, undo |-> <<>>,
              more |-> from.more, ignored |-> ignored, edit |-> edit, rollback |-> undone]
    <2>1. from = [pc |-> from.pc, db |-> from.db, name |-> from.name, entry |-> from.entry, todo |-> from.todo,
                  undo |-> from.undo, more |-> from.more, ignored |-> from.ignored, edit |-> from.edit,
                  rollback |-> from.rollback]
      BY DEF Process
    <2>2. me = [from EXCEPT !.pc = "run", !.name = n, !.entry = e, !.todo = q, !.undo = <<>>,
                            !.ignored = ignored, !.edit = edit, !.rollback = undone]
      OBVIOUS
    <2> HIDE DEF me
    <2> QED
      BY <2>1, <2>2
  <1> HIDE DEF me
  <1>3. /\ me = [pc |-> me.pc, db |-> me.db, name |-> me.name, entry |-> me.entry, todo |-> me.todo,
                 undo |-> me.undo, more |-> me.more, ignored |-> me.ignored, edit |-> me.edit,
                 rollback |-> me.rollback]
        /\ me.pc = "run" /\ me.db = from.db /\ me.name = n /\ me.entry = e /\ me.todo = q
        /\ me.undo = <<>> /\ me.more = from.more /\ me.ignored = ignored /\ me.edit = edit
        /\ me.rollback = undone
    BY <1>2
  <1>4. Process(me)
    <2>1. /\ me.more \subseteq DOMAIN OldPackages /\ me.more \subseteq DOMAIN me.db
          /\ me.pc \in ProcessStates /\ <<>> \in Seq(Undos)
      BY <1>3 DEF Process, ProcessStates
    <2> QED
      BY <1>3, <2>1 DEF Process
  <1>5. Becomes(c, me) /\ Started(me, from, n, e, q, ignored, edit, undone)
    BY <1>1, <1>3, <1>4 DEF Started, Becomes
  <1> QED
    BY <1>1, <1>5

LEMMA UninstallBegins ==
  ASSUME NEW c, Process(client[c]), client[c].pc = "ready", NEW n \in Names, NEW keep \in BOOLEAN,
         NEW force \in BOOLEAN, uninstall(c, n, keep, force)
  PROVE  /\ \E me : Begun(me) /\ Becomes(c, me)
         /\ UNCHANGED <<file, sys, suspect, unchecked>>
  <1> DEFINE from == client[c]
             db == from.db
             v == db[n].version
             p == get_installed_package(db, n)
             check == /\ sys.features[n] # "enabled"
                      /\ validate_package_tree(_get_installed_packages_except(db, p))
             ignored == ~check
             no == FALSE
             entry == [db[n] EXCEPT !.installed = FALSE, !.version = 0, !.image = "None"]
             steps == UninstallSteps(db, p, keep)
  <1>1. Begin(c, from, n, entry, steps, ignored, no, no) /\ is_installed(db, n)
    BY DEF uninstall, CanRead
  <1>2. Database(db) /\ n \in DOMAIN db /\ db[n].installed /\ SoundEntry(n, db[n]) /\ v \in Versions
    BY <1>1 DEF Process, Database, is_installed, has_package, SoundEntry
  <1>3. p = <<n, v>>
    BY DEF get_installed_package
  <1>4. entry = [installed |-> FALSE, version |-> 0, image |-> "None", default |-> db[n].default]
    <2>1. db[n] = [installed |-> db[n].installed, version |-> db[n].version, image |-> db[n].image,
                   default |-> db[n].default]
      BY <1>2 DEF SoundEntry, Entries
    <2>2. entry = [db[n] EXCEPT !.installed = FALSE, !.version = 0, !.image = "None"]
      OBVIOUS
    <2> HIDE DEF entry, db
    <2> QED
      BY <2>1, <2>2
  <1> HIDE DEF entry, steps, ignored
  <1>5. SoundEntry(n, entry) /\ ~entry.installed
    BY <1>2, <1>4 DEF SoundEntry, Entries
  <1>6. Walk(PlainEdges(n), Steps, steps, <<v, "some">>, <<0, "none">>)
    BY <1>2, <1>3, UninstallWalk DEF steps
  <1>7. steps \in Seq(Steps) /\ ignored \in BOOLEAN /\ no \in BOOLEAN /\ Process(from) /\ from.pc # "idle"
    BY <1>6 DEF Walk, ignored
  <1> HIDE DEF no, from
  <1>a. PICK me : Becomes(c, me) /\ Started(me, from, n, entry, steps, ignored, no, no)
    BY <1>1, <1>2, <1>5, <1>7, Starting
  <1>8. /\ Process(me) /\ me.pc = "run" /\ me.db = db /\ me.name = n /\ me.entry = entry
        /\ me.todo = steps /\ me.undo = <<>> /\ me.ignored = ignored /\ me.edit = no /\ me.rollback = no
    BY <1>a DEF Started
  <1>9. UNCHANGED <<file, sys, suspect, unchecked>>
    BY <1>1, <1>2, <1>5, <1>7, Starting
  <1>10. ~me.ignored => validate_package_tree(get_installed_packages([me.db EXCEPT ![me.name] = me.entry]))
    <2>1. get_installed_packages([db EXCEPT ![n] = entry]) = _get_installed_packages_except(db, p)
      BY <1>2, <1>3, <1>5, InstalledOfUpdate DEF _get_installed_packages_except
    <2> QED
      BY <1>8, <2>1 DEF check, ignored
  <1>11. ~me.rollback
    BY <1>8 DEF no
  <1>12. Status(me.db, me.name) = <<v, "some">> /\ Aim(me) = <<0, "none">> /\ Plan(me) = PlainEdges(n)
    BY <1>2, <1>5, <1>8, <1>11 DEF Status, Aim, Plan, is_installed, has_package
  <1>13. Begun(me)
    <2>1. Walk(Plan(me), Steps, me.todo, Status(me.db, me.name), Aim(me))
      BY <1>6, <1>8, <1>12
    <2>2. me.rollback = me.entry.installed
      BY <1>5, <1>8, <1>11 DEF Process, SoundEntry, Entries
    <2> QED
      BY <1>8, <1>10, <1>11, <2>1, <2>2 DEF Begun
  <1> QED
    BY <1>a, <1>9, <1>13

LEMMA WalkIn ==
  ASSUME NEW R, NEW T, R \subseteq T, NEW S, NEW q, NEW a, NEW b, Walk(R, S, q, a, b)
  PROVE  Walk(T, S, q, a, b)
  BY DEF Walk

\* A walk that keeps two images keeps each, and nothing in it removes one.
LEMMA WalkKeeps ==
  ASSUME NEW n, NEW p, NEW r, NEW K, NEW q, NEW a, NEW b,
         Walk(StepEdges(n, {ImageOf[p], ImageOf[r]}, K), Steps, q, a, b)
  PROVE  /\ Walk(StepEdges(n, {ImageOf[p]}, K), Steps, q, a, b)
         /\ \A i \in 1..Len(q) : q[i].do \in Removers => ImageOf[q[i].pkg] # ImageOf[r]
<1>1. StepEdges(n, {ImageOf[p], ImageOf[r]}, K) \subseteq StepEdges(n, {ImageOf[p]}, K)
  BY DEF StepEdges
<1>2. \A e \in StepEdges(n, {ImageOf[p], ImageOf[r]}, K) : e[1].do \in Removers => ImageOf[e[1].pkg] # ImageOf[r]
  BY DEF StepEdges
<1>3. \A i \in 1..Len(q) : \E x, y : <<q[i], x, y>> \in StepEdges(n, {ImageOf[p], ImageOf[r]}, K)
  BY DEF Walk
<1>4. ASSUME NEW i \in 1..Len(q), q[i].do \in Removers PROVE ImageOf[q[i].pkg] # ImageOf[r]
  <2>1. PICK x, y : <<q[i], x, y>> \in StepEdges(n, {ImageOf[p], ImageOf[r]}, K)
    BY <1>3
  <2> HIDE <1>1, <1>3
  <2> DEFINE e == <<q[i], x, y>>
  <2>2. e \in StepEdges(n, {ImageOf[p], ImageOf[r]}, K) /\ e[1] = q[i]
    BY <2>1
  <2> HIDE DEF e
  <2> QED
    BY <1>2, <1>4, <2>2
<1> QED
  BY <1>1, <1>4, WalkIn

LEMMA UpgradeBegins ==
  ASSUME NEW c, NEW from, Process(from), from.pc \in {"ready", "migrate"}, NEW p \in Packages,
         NEW registry \in BOOLEAN, NEW update_only \in BOOLEAN, NEW skip \in BOOLEAN,
         NEW downgrade \in BOOLEAN, NEW force \in BOOLEAN,
         update_only => p = get_installed_package(from.db, p[1]),
         upgrade_from_source(c, from, p, registry, update_only, skip, downgrade, force)
  PROVE  /\ \E me : Begun(me) /\ Becomes(c, me)
         /\ UNCHANGED <<file, sys, suspect, unchecked>>
  <1> DEFINE db == from.db
             n == p[1]
             w == p[2]
             v == db[n].version
             old == get_installed_package(db, n)
             wanted == update_only \/ (p[2] # old[2] /\ (p[2] > old[2] \/ downgrade))
             check == /\ wanted
                      /\ validate_package_base_os_constraints(p)
                      /\ validate_package_tree(_get_installed_packages_and(db, p))
                      /\ validate_package_cli_can_be_skipped(p, skip)
             ignored == ~check
             yes == TRUE
             image == IF update_only THEN db[n].image ELSE ImageOf[p]
             default == install_image(db[n].default, p, registry)
             entry == [db[n] EXCEPT !.version = p[2], !.image = IF update_only THEN @ ELSE ImageOf[p],
                                    !.default = install_image(@, p, registry)]
             steps == UpgradeSteps(sys, db, old, p, update_only, skip)
  <1>1. Begin(c, from, n, entry, steps, ignored, update_only, yes) /\ is_installed(db, n)
    BY DEF upgrade_from_source, CanRead
  <1>2. /\ n \in Names /\ w \in Versions /\ p = <<n, w>> /\ Process(from)
        /\ Database(db) /\ n \in DOMAIN db /\ db[n].installed /\ SoundEntry(n, db[n]) /\ v \in Versions
        /\ db[n].image = ImageOf[<<n, v>>]
    BY <1>1 DEF Process, Database, is_installed, has_package, SoundEntry, Packages
  <1>3. old = <<n, v>>
    BY DEF get_installed_package
  <1>4. entry = [installed |-> db[n].installed, version |-> w, image |-> image, default |-> default]
    <2>1. db[n] = [installed |-> db[n].installed, version |-> v, image |-> db[n].image, default |-> db[n].default]
      BY <1>2 DEF SoundEntry, Entries
    <2>2. entry = [db[n] EXCEPT !.version = w, !.image = image, !.default = default]
      OBVIOUS
    <2> HIDE DEF entry, db, w, image, default, v
    <2> QED
      BY <2>1, <2>2
  <1>5. image = ImageOf[p] /\ default \in Versions \cup {0}
    BY <1>2, <1>3 DEF SoundEntry, Entries, install_image
  <1> HIDE DEF entry, steps, ignored, image, default
  <1>6. SoundEntry(n, entry) /\ entry.installed /\ entry.version = w /\ entry.image = ImageOf[p]
    BY <1>2, <1>4, <1>5 DEF SoundEntry, Entries
  <1> DEFINE K == IF update_only \/ ImageOf[p] # ImageOf[old] THEN {ImageOf[old]} ELSE {}
             tail == OldImageSteps(old, p)
             J == {ImageOf[p], ImageOf[old]}
  <1>7. PICK q : /\ Walk(StepEdges(n, J, K), Steps, q, <<v, "some">>, <<w, "some">>)
                 /\ ~update_only => Pending(q, p)
                 /\ steps = q \o tail
    <2>1. ~update_only => ImageOf[p] \notin K
      OBVIOUS
    <2> HIDE DEF K, J, n, v, w, db
    <2>2. ~update_only => ImageOf[<<n, w>>] \notin K
      BY <1>2, <2>1
    <2>3. PICK q : /\ UpgradePath(q, n, v, w, update_only, J, K)
                   /\ Joined(UpgradeSteps(sys, db, <<n, v>>, <<n, w>>, update_only, skip), q, OldImageSteps(<<n, v>>, <<n, w>>))
      <3>1. Database(db) /\ n \in Names /\ v \in Versions /\ w \in Versions
        BY <1>2
      <3> QED
        BY <2>2, <3>1, UpgradeWalk
    <2>4. /\ Walk(StepEdges(n, J, K), Steps, q, <<v, "some">>, <<w, "some">>)
          /\ ~update_only => Pending(q, p)
      BY <1>2, <2>3 DEF UpgradePath
    <2>5. steps = q \o tail
      BY <1>2, <1>3, <2>3 DEF Joined, steps, tail
    <2> QED
      BY <2>4, <2>5
  <1> HIDE DEF n, w, v, old, db
  <1>8. /\ Walk(StepEdges(n, {ImageOf[p]}, K), Steps, q, <<v, "some">>, <<w, "some">>)
        /\ \A i \in 1..Len(q) : q[i].do \in Removers => ImageOf[q[i].pkg] # ImageOf[old]
    <2> HIDE DEF K
    <2> QED
      BY <1>7, WalkKeeps DEF J
  <1>9. Walk(StepEdges(n, {ImageOf[p]}, K), Steps, tail, <<w, "some">>, <<w, "some">>) /\ Len(tail) \in {0, 1}
    <2>1. /\ <<w, "some">> \in Statuses /\ old \in Packages /\ old[1] = n /\ "rmi" \in CalmVerbs
          /\ "" \in Options
      BY <1>2, <1>3 DEF Statuses, Packages, CalmVerbs, Options
    <2>2. CASE ImageOf[old] = ImageOf[p]
      <3>1. tail = <<>> /\ Len(<<>>) = 0
        BY <2>2 DEF OldImageSteps
      <3> HIDE DEF tail, K
      <3> QED
        BY Zenon, <2>1, <3>1, WalkNowhere
    <2>3. CASE ImageOf[old] # ImageOf[p]
      <3> DEFINE x == Step("rmi", old, "", <<>>)
      <3>1. tail = <<x>> /\ Len(<<x>>) = 1
        BY Zenon, <2>3 DEF OldImageSteps
      <3>2. ImageOf[old] \notin {ImageOf[p]}
        BY <2>3
      <3> HIDE DEF tail, K
      <3> QED
        BY Zenon, <1>2, <2>1, <3>1, <3>2, CalmEdge
    <2> QED
      BY <2>2, <2>3
  <1> HIDE DEF tail, K, J
  <1>10. Walk(StepEdges(n, {ImageOf[p]}, K), Steps, steps, <<v, "some">>, <<w, "some">>)
    BY <1>7, <1>8, <1>9, WalkOn
  <1>11. q \in Seq(Steps) /\ tail \in Seq(Steps)
    BY <1>8, <1>9 DEF Walk
  <1>12. GoesLast(steps, old)
    <2>1. /\ Len(steps) = Len(q) + Len(tail) /\ Len(q) \in Nat
          /\ \A i \in 1..(Len(q) + Len(tail)) : steps[i] = IF i <= Len(q) THEN q[i] ELSE tail[i - Len(q)]
      BY <1>7, <1>11, ConcatProperties
    <2>2. ASSUME NEW i \in 1..(Len(steps) - 1) PROVE i \in 1..Len(q) /\ steps[i] = q[i]
      BY <1>9, <2>1
    <2> QED
      BY <1>8, <2>2 DEF GoesLast
  <1>13. ~update_only => Pending(steps, p)
    BY <1>7, <1>11, PendingOn
  <1>14. steps \in Seq(Steps) /\ ignored \in BOOLEAN /\ yes \in BOOLEAN
    BY <1>10 DEF Walk, ignored
  <1> HIDE DEF yes
  <1>15. PICK me : Becomes(c, me) /\ Started(me, from, n, entry, steps, ignored, update_only, yes)
    BY <1>1, <1>2, <1>6, <1>14, Starting DEF db
  <1>16. /\ Process(me) /\ me.pc = "run" /\ me.db = db /\ me.name = n /\ me.entry = entry
         /\ me.todo = steps /\ me.undo = <<>> /\ me.ignored = ignored /\ me.edit = update_only /\ me.rollback
    BY <1>15 DEF Started, db, yes
  <1>17. UNCHANGED <<file, sys, suspect, unchecked>>
    BY <1>1, <1>2, <1>6, <1>14, Starting DEF db
  <1>18. ~me.ignored => validate_package_tree(get_installed_packages([me.db EXCEPT ![me.name] = me.entry]))
    <2>1. get_installed_packages([db EXCEPT ![n] = entry]) = _get_installed_packages_and(db, p)
      BY <1>2, <1>6, InstalledOfUpdate DEF _get_installed_packages_and, n
    <2> QED
      BY <1>16, <2>1 DEF check, ignored
  <1>19. /\ Status(me.db, me.name) = <<v, "some">> /\ Aim(me) = <<w, "some">> /\ Was(me) /\ New(me) = p
         /\ Old(me) = old
    BY <1>2, <1>3, <1>6, <1>16 DEF Status, is_installed, has_package, Aim, Was, New, Old, v
  <1>20. Plan(me) = StepEdges(n, {ImageOf[p]}, K)
    <2>1. Spare(me) = K
      BY <1>2, <1>3, <1>6, <1>16, <1>19 DEF Spare, K
    <2> QED
      BY <1>16, <1>19, <2>1 DEF Plan
  <1>21. update_only => p = old
    BY DEF old, n, db
  <1>22. Begun(me)
    <2>1. Walk(Plan(me), Steps, me.todo, Status(me.db, me.name), Aim(me))
      BY <1>10, <1>16, <1>19, <1>20
    <2>2. me.rollback = me.entry.installed
      BY <1>6, <1>16 DEF Process, SoundEntry, Entries
    <2> QED
      BY <1>12, <1>13, <1>16, <1>18, <1>19, <1>21, <2>1, <2>2 DEF Begun
  <1> QED
    BY <1>15, <1>17, <1>22

---------------------------------------------------------------------------
\* A process at work, with the system s and the file f.  Unless its package
\* is among the torn ones S, or the file was newer than the copy it works on,
\* the service is in the status from which what is left to do leads to what
\* the command is for, and what is left to undo to what there was.
RunningAt(me, s, f, S, a) ==
  /\ Walk(Plan(me), Steps, me.todo, a, Aim(me))
  /\ me.rollback = me.entry.installed
  /\ me.rollback => /\ Walk(UndoEdges(me.name, Spare(me)), Undos, me.undo, a, Status(me.db, me.name))
                    /\ Was(me) => GoesLast(me.todo, Old(me))
  /\ me.name \notin S \cup Missed(me.db, f) =>
       /\ Serves(s, me.name, a)
       /\ me.rollback => Pending(me.todo, New(me)) \/ Kept(s, New(me))
       /\ me.rollback /\ Was(me) /\ me.todo # <<>> => Kept(s, Old(me))

Running(me, s, f, S) == \E a \in Statuses : RunningAt(me, s, f, S, a)

UndoingAt(me, s, f, S, a) ==
  /\ Walk(UndoEdges(me.name, Spare(me)), Undos, me.undo, a, Status(me.db, me.name))
  /\ me.name \notin S =>
       /\ me.name \notin Missed(me.db, f) /\ Serves(s, me.name, a)
       /\ Was(me) => Spare(me) = {ImageOf[Old(me)]} /\ Kept(s, Old(me))

Undoing(me, s, f, S) ==
  \/ me.undo = <<>> /\ me.name \in S
  \/ \E a \in Statuses : UndoingAt(me, s, f, S, a)

LEMMA StatusOfEntry ==
  ASSUME NEW d, Database(d), NEW n
  PROVE  Status(d, n) \in Statuses
  BY DEF Database, SoundEntry, Statuses, Status, is_installed, has_package

LEMMA BegunRuns ==
  ASSUME NEW me, Begun(me), NEW s, NEW f, NEW S,
         me.name \notin S \cup Missed(me.db, f) => Settled(s, f, me.name)
  PROVE  Running(me, s, f, S)
<1> DEFINE a == Status(me.db, me.name)
<1>1. Process(me) /\ Database(me.db) /\ me.name \in DOMAIN me.db /\ me.undo = <<>>
  BY DEF Begun, Process
<1>2. a \in Statuses
  BY <1>1, StatusOfEntry
<1> HIDE DEF a
<1>3. Walk(UndoEdges(me.name, Spare(me)), Undos, me.undo, a, a)
  BY <1>1, <1>2, WalkNowhere
<1>4. ASSUME me.name \notin S \cup Missed(me.db, f)
      PROVE  Serves(s, me.name, a) /\ (Was(me) => Kept(s, Old(me)))
  <2>1. Settled(s, me.db, me.name)
    BY <1>4, NotMissed
  <2> QED
    BY <1>1, <2>1 DEF Settled, a, Was, Old, is_installed, has_package
<1>5. RunningAt(me, s, f, S, a)
  BY <1>3, <1>4 DEF Begun, RunningAt, a
<1> QED
  BY <1>2, <1>5 DEF Running

\* No other package is disturbed by a step on one: a package that is to have
\* the image that was removed shares it with the package of the step.
LEMMA OthersSettled ==
  ASSUME NEW s, NEW t, NEW x, x.pkg \in Packages, Apart(s, t, x), NEW f, Database(f),
         NEW m \in Names \ {x.pkg[1]}, Settled(s, f, m)
  PROVE  Settled(t, f, m)
<1>1. Serves(t, m, Status(f, m))
  BY DEF Apart, Settled, Serves
<1>2. ASSUME is_installed(f, m) PROVE Kept(t, <<m, f[m].version>>)
  <2> DEFINE q == <<m, f[m].version>>
  <2> SUFFICES Kept(t, q)
    OBVIOUS
  <2>1. q \in Packages /\ q # x.pkg /\ Kept(s, q)
    BY <1>2 DEF Settled, Database, SoundEntry, is_installed, has_package, Packages
  <2> HIDE DEF q
  <2>2. CASE ImageOf[q] = ImageOf[x.pkg]
    BY <2>1, <2>2 DEF Kept, Shared
  <2>3. CASE ImageOf[q] # ImageOf[x.pkg]
    BY <2>1, <2>3 DEF Kept, Apart
  <2> QED
    BY <2>2, <2>3
<1> QED
  BY <1>1, <1>2 DEF Settled

\* The edges of a plan: on the process's package, with undos that go back.
LEMMA PlanEdge ==
  ASSUME NEW me, Process(me), me.pc = "run", NEW x, NEW a, NEW b, <<x, a, b>> \in Plan(me)
  PROVE  /\ x \in Steps /\ x.pkg \in Packages /\ x.do \in Verbs /\ x.pkg[1] = me.name
         /\ a \in Statuses /\ b \in Statuses /\ Moves(x, a, b) /\ x.undo \in Seq(Undos)
         /\ me.rollback => /\ x.do \in Removers => ImageOf[x.pkg] # ImageOf[New(me)]
                           /\ Walk(UndoEdges(me.name, Spare(me)), Undos, x.undo, b, a)
         /\ ~me.rollback => x.undo = <<>>
<1> DEFINE e == <<x, a, b>>
<1>1. e[1] = x /\ e[2] = a /\ e[3] = b
  OBVIOUS
<1>2. e \in Plan(me)
  OBVIOUS
<1> HIDE DEF e
<1>3. e[1] \in Steps /\ e[2] \in Statuses /\ e[3] \in Statuses /\ e[1].pkg[1] = me.name /\ Moves(e[1], e[2], e[3])
  BY <1>2 DEF Plan, StepEdges, PlainEdges
<1>4. me.rollback => /\ e[1].do \in Removers => ImageOf[e[1].pkg] \notin {ImageOf[New(me)]}
                     /\ Walk(UndoEdges(me.name, Spare(me)), Undos, e[1].undo, e[3], e[2])
  BY <1>2 DEF Plan, StepEdges
<1>5. ~me.rollback => e[1].undo = <<>>
  BY <1>2 DEF Plan, PlainEdges
<1> QED
  BY <1>1, <1>3, <1>4, <1>5 DEF Steps

\* A step that is done.
LEMMA StepRuns ==
  ASSUME NEW me, Process(me), me.pc = "run", NEW s, SystemRecord(s), NEW f, NEW S, Running(me, s, f, S),
         me.todo # <<>>, Possible(s, Head(me.todo))
  PROVE  LET x == Head(me.todo)
             t == Effect(s, x, me.db)
             you == [me EXCEPT !.todo = Tail(@), !.undo = x.undo \o @]
         IN Process(you) /\ Running(you, t, f, S) /\ Apart(s, t, x) /\ x.pkg \in Packages /\ x.pkg[1] = me.name
  <1> DEFINE x == Head(me.todo)
             t == Effect(s, x, me.db)
             you == [me EXCEPT !.todo = Tail(@), !.undo = x.undo \o @]
             rest == Tail(me.todo)
             undo == x.undo \o me.undo
  <1>1. PICK a \in Statuses : RunningAt(me, s, f, S, a)
    BY DEF Running
  <1>2. me.todo \in Seq(Steps) /\ \E m \in Statuses : <<x, a, m>> \in Plan(me) /\ Walk(Plan(me), Steps, rest, m, Aim(me))
    BY <1>1, WalkFirst DEF RunningAt
  <1>3. PICK b \in Statuses : <<x, a, b>> \in Plan(me) /\ Walk(Plan(me), Steps, rest, b, Aim(me))
    BY <1>2
  <1> HIDE DEF x
  <1>4. /\ x \in Steps /\ x.pkg \in Packages /\ x.do \in Verbs /\ x.pkg[1] = me.name
        /\ Moves(x, a, b) /\ x.undo \in Seq(Undos)
        /\ me.rollback => /\ x.do \in Removers => ImageOf[x.pkg] # ImageOf[New(me)]
                          /\ Walk(UndoEdges(me.name, Spare(me)), Undos, x.undo, b, a)
    BY <1>3, PlanEdge
  <1>5. Apart(s, t, x) /\ (Serves(s, me.name, a) => Serves(t, me.name, b))
    BY <1>4, StepEffect DEF x
  <1>6. /\ rest \in Seq(Steps) /\ undo \in Seq(Undos) /\ Len(me.todo) \in Nat /\ Len(rest) = Len(me.todo) - 1
        /\ me.todo[1] = x /\ \A i \in 1..Len(rest) : rest[i] = me.todo[i + 1]
    <2>1. me.undo \in Seq(Undos)
      BY DEF Process
    <2> QED
      BY <1>2, <1>4, <2>1, HeadTailProperties, ConcatProperties DEF x
  <1>7. /\ you.pc = me.pc /\ you.db = me.db /\ you.name = me.name /\ you.entry = me.entry /\ you.todo = rest
        /\ you.undo = undo /\ you.more = me.more /\ you.ignored = me.ignored /\ you.edit = me.edit
        /\ you.rollback = me.rollback
        /\ you = [pc |-> you.pc, db |-> you.db, name |-> you.name, entry |-> you.entry, todo |-> you.todo,
                  undo |-> you.undo, more |-> you.more, ignored |-> you.ignored, edit |-> you.edit,
                  rollback |-> you.rollback]
    <2>1. me = [pc |-> me.pc, db |-> me.db, name |-> me.name, entry |-> me.entry, todo |-> me.todo,
                undo |-> me.undo, more |-> me.more, ignored |-> me.ignored, edit |-> me.edit,
                rollback |-> me.rollback]
      BY DEF Process
    <2>2. you = [me EXCEPT !.todo = rest, !.undo = undo]
      OBVIOUS
    <2> HIDE DEF you, rest, undo
    <2> QED
      BY <2>1, <2>2
  <1> HIDE DEF you, rest, undo, t
  <1>8. Process(you)
    BY <1>6, <1>7 DEF Process
  <1>9. /\ Plan(you) = Plan(me) /\ Aim(you) = Aim(me) /\ Spare(you) = Spare(me) /\ Was(you) = Was(me)
        /\ Old(you) = Old(me) /\ New(you) = New(me)
    BY <1>7 DEF Plan, Aim, Spare, Was, Old, New
  <1>10. me.rollback => Walk(UndoEdges(me.name, Spare(me)), Undos, undo, b, Status(me.db, me.name))
    BY <1>1, <1>4, WalkOn DEF RunningAt, undo
  <1>11. GoesLast(me.todo, Old(me)) => GoesLast(rest, Old(me))
    <2> SUFFICES ASSUME GoesLast(me.todo, Old(me)), NEW i \in 1..(Len(rest) - 1), rest[i].do \in Removers
                 PROVE  ImageOf[rest[i].pkg] # ImageOf[Old(me)]
      BY DEF GoesLast
    <2>0. Len(me.todo) \in Nat /\ Len(rest) = Len(me.todo) - 1
      BY <1>6
    <2>1. i \in 1..Len(rest) /\ i + 1 \in 1..(Len(me.todo) - 1)
      BY <2>0
    <2>2. rest[i] = me.todo[i + 1]
      BY <1>6, <2>1
    <2> QED
      BY <2>1, <2>2 DEF GoesLast
  <1>12. ASSUME me.rollback, Pending(me.todo, New(me)) \/ Kept(s, New(me))
         PROVE  Pending(rest, New(me)) \/ Kept(t, New(me))
    <2>1. CASE Kept(s, New(me))
      BY <1>4, <1>5, <1>12, <2>1 DEF Kept, Apart, Removers
    <2>2. CASE x.do = "source.install" /\ x.pkg = New(me)
      <3>1. t = [s EXCEPT !.images = s.images \cup {ImageOf[x.pkg]}]
        BY <2>2 DEF t, Effect
      <3>2. t.images = s.images \cup {ImageOf[x.pkg]}
        BY <3>1, OtherPartWritten
      <3> QED
        BY <2>2, <3>2 DEF Kept
    <2>3. ASSUME NEW i \in 1..Len(me.todo), me.todo[i].do = "source.install" /\ me.todo[i].pkg = New(me), i # 1
          PROVE  Pending(rest, New(me))
      <3>1. i - 1 \in 1..Len(rest) /\ rest[i - 1] = me.todo[i]
        BY <1>6, <2>3
      <3> QED
        BY <2>3, <3>1 DEF Pending
    <2> QED
      BY <1>6, <1>12, <2>1, <2>2, <2>3 DEF Pending
  <1>13. ASSUME me.rollback, Was(me), rest # <<>>, Kept(s, Old(me))
         PROVE  Kept(t, Old(me))
    <2>1. 1 \in 1..(Len(me.todo) - 1)
      BY <1>6, <1>13, EmptySeq
    <2>2. x.do \in Removers => ImageOf[x.pkg] # ImageOf[Old(me)]
      BY <1>1, <1>6, <1>13, <2>1 DEF RunningAt, GoesLast
    <2> QED
      BY <1>5, <1>13, <2>2 DEF Kept, Apart, Removers
  <1>14. RunningAt(you, t, f, S, b)
    <2>1. /\ Walk(Plan(you), Steps, you.todo, b, Aim(you))
          /\ you.rollback = you.entry.installed
          /\ you.rollback => Walk(UndoEdges(you.name, Spare(you)), Undos, you.undo, b, Status(you.db, you.name))
      BY <1>1, <1>3, <1>7, <1>9, <1>10 DEF RunningAt, rest
    <2>2. you.rollback /\ Was(you) => GoesLast(you.todo, Old(you))
      BY <1>1, <1>7, <1>9, <1>11 DEF RunningAt
    <2>3. ASSUME you.name \notin S \cup Missed(you.db, f)
          PROVE  /\ Serves(t, you.name, b)
                 /\ you.rollback => Pending(you.todo, New(you)) \/ Kept(t, New(you))
                 /\ you.rollback /\ Was(you) /\ you.todo # <<>> => Kept(t, Old(you))
      BY <1>1, <1>5, <1>7, <1>9, <1>12, <1>13, <2>3 DEF RunningAt
    <2> QED
      BY <2>1, <2>2, <2>3 DEF RunningAt
  <1>15. Running(you, t, f, S)
    BY <1>14 DEF Running
  <1> QED
    BY <1>4, <1>5, <1>8, <1>15 DEF x, t, you

\* A step that raises: what was done is to be undone, or the package is torn.
LEMMA StepRaises ==
  ASSUME NEW me, Process(me), me.pc = "run", NEW s, SystemRecord(s), NEW f, NEW S, Running(me, s, f, S),
         me.todo # <<>>, NEW t \in FailedEffects(s, Head(me.todo)), NEW T, S \subseteq T,
         \/ me.name \in T
         \/ /\ me.rollback /\ me.name \notin Missed(me.db, f)
            /\ me.edit \/ me.entry.image # me.db[me.name].image
  PROVE  LET x == Head(me.todo)
             you == [me EXCEPT !.pc = "undo", !.undo = IF me.rollback THEN @ ELSE <<>>]
         IN Process(you) /\ Undoing(you, t, f, T) /\ Apart(s, t, x) /\ x.pkg \in Packages /\ x.pkg[1] = me.name
  <1> DEFINE x == Head(me.todo)
             undo == IF me.rollback THEN me.undo ELSE <<>>
             you == [me EXCEPT !.pc = "undo", !.undo = IF me.rollback THEN @ ELSE <<>>]
  <1>1. PICK a \in Statuses : RunningAt(me, s, f, S, a)
    BY DEF Running
  <1>2. \E b \in Statuses : <<x, a, b>> \in Plan(me)
    BY <1>1, WalkFirst DEF RunningAt
  <1>3. PICK b \in Statuses : <<x, a, b>> \in Plan(me)
    BY <1>2
  <1> HIDE DEF x
  <1>4. x.pkg \in Packages /\ x.pkg[1] = me.name /\ Moves(x, a, b)
    BY <1>3, PlanEdge
  <1>5. Apart(s, t, x) /\ (x.do \in Removers => t = s) /\ (Serves(s, me.name, a) => Serves(t, me.name, a))
    BY <1>4, StepFailure, FailureApart DEF x
  <1>6. /\ you.pc = "undo" /\ you.db = me.db /\ you.name = me.name /\ you.entry = me.entry /\ you.todo = me.todo
        /\ you.undo = undo /\ you.more = me.more /\ you.ignored = me.ignored /\ you.edit = me.edit
        /\ you.rollback = me.rollback
        /\ you = [pc |-> you.pc, db |-> you.db, name |-> you.name, entry |-> you.entry, todo |-> you.todo,
                  undo |-> you.undo, more |-> you.more, ignored |-> you.ignored, edit |-> you.edit,
                  rollback |-> you.rollback]
    <2>1. me = [pc |-> me.pc, db |-> me.db, name |-> me.name, entry |-> me.entry, todo |-> me.todo,
                undo |-> me.undo, more |-> me.more, ignored |-> me.ignored, edit |-> me.edit,
                rollback |-> me.rollback]
      BY DEF Process
    <2>2. you = [me EXCEPT !.pc = "undo", !.undo = undo]
      OBVIOUS
    <2> HIDE DEF you, undo
    <2> QED
      BY <2>1, <2>2
  <1>7. undo \in Seq(Undos)
    BY DEF Process
  <1>8. (~me.rollback => undo = <<>>) /\ (me.rollback => undo = me.undo)
    OBVIOUS
  <1> HIDE DEF you, undo
  <1>9. Process(you)
    BY <1>6, <1>7 DEF Process, ProcessStates
  <1>10. /\ Spare(you) = Spare(me) /\ Was(you) = Was(me) /\ Old(you) = Old(me)
    BY <1>6 DEF Spare, Was, Old
  <1>11. ASSUME ~me.rollback PROVE Undoing(you, t, f, T)
    <2>1. you.undo = <<>> /\ you.name \in T
      BY <1>6, <1>8, <1>11
    <2> QED
      BY <2>1 DEF Undoing
  <1>12. ASSUME me.rollback PROVE Undoing(you, t, f, T)
    <2>1. Walk(UndoEdges(you.name, Spare(you)), Undos, you.undo, a, Status(you.db, you.name))
      BY <1>1, <1>6, <1>8, <1>10, <1>12 DEF RunningAt
    <2>2. ASSUME you.name \notin T
          PROVE  /\ you.name \notin Missed(you.db, f) /\ Serves(t, you.name, a)
                 /\ Was(you) => Spare(you) = {ImageOf[Old(you)]} /\ Kept(t, Old(you))
      <3>1. you.name \notin S \cup Missed(you.db, f) /\ (me.edit \/ me.entry.image # me.db[me.name].image)
        BY <1>6, <2>2
      <3>2. Serves(s, me.name, a) /\ (Was(me) => Kept(s, Old(me)))
        BY <1>1, <1>6, <1>12, <3>1 DEF RunningAt
      <3>3. Kept(s, Old(me)) => Kept(t, Old(me))
        BY <1>5 DEF Kept, Apart, Removers
      <3> QED
        BY <1>5, <1>6, <1>10, <3>1, <3>2, <3>3 DEF Spare
    <2>3. UndoingAt(you, t, f, T, a)
      BY <2>1, <2>2 DEF UndoingAt
    <2> QED
      BY <2>3 DEF Undoing
  <1>13. Undoing(you, t, f, T)
    BY <1>11, <1>12
  <1> QED
    BY <1>4, <1>5, <1>9, <1>13 DEF x, you

LEMMA UndoEdge ==
  ASSUME NEW n, NEW K, NEW x, NEW a, NEW b, <<x, a, b>> \in UndoEdges(n, K)
  PROVE  /\ x.pkg \in Packages /\ x.do \in Verbs /\ x.pkg[1] = n /\ Moves(x, a, b)
         /\ a \in Statuses /\ b \in Statuses
         /\ x.do \in Removers => ImageOf[x.pkg] \notin K
<1> DEFINE e == <<x, a, b>>
<1>1. e[1] = x /\ e[2] = a /\ e[3] = b /\ e \in UndoEdges(n, K)
  OBVIOUS
<1> HIDE DEF e
<1>2. /\ e[1] \in Undos /\ e[2] \in Statuses /\ e[3] \in Statuses /\ e[1].pkg[1] = n /\ Moves(e[1], e[2], e[3])
      /\ e[1].do \in Removers => ImageOf[e[1].pkg] \notin K
  BY <1>1 DEF UndoEdges
<1> QED
  BY <1>1, <1>2 DEF Undos

\* A step of the way back, done, failed or missing.
LEMMA UndoRuns ==
  ASSUME NEW me, Process(me), me.pc = "undo", NEW s, SystemRecord(s), NEW f, NEW S, Undoing(me, s, f, S),
         me.undo # <<>>, NEW t, NEW T,
         \/ Possible(s, Head(me.undo)) /\ t = Effect(s, Head(me.undo), me.db) /\ T = S
         \/ t \in FailedEffects(s, Head(me.undo)) /\ T = S \cup {me.name}
         \/ Head(me.undo).do = "missing" /\ t = s /\ T = S
  PROVE  LET x == Head(me.undo)
             you == [me EXCEPT !.undo = Tail(@)]
         IN Process(you) /\ Undoing(you, t, f, T) /\ Apart(s, t, x) /\ x.pkg \in Packages /\ x.pkg[1] = me.name
  <1> DEFINE x == Head(me.undo)
             rest == Tail(me.undo)
             you == [me EXCEPT !.undo = Tail(@)]
             R == UndoEdges(me.name, Spare(me))
             end == Status(me.db, me.name)
  <1>1. PICK a \in Statuses : UndoingAt(me, s, f, S, a)
    BY DEF Undoing
  <1>2. me.undo \in Seq(Undos) /\ \E m \in Statuses : <<x, a, m>> \in R /\ Walk(R, Undos, rest, m, end)
    BY <1>1, WalkFirst DEF UndoingAt
  <1>3. PICK b \in Statuses : <<x, a, b>> \in R /\ Walk(R, Undos, rest, b, end)
    BY <1>2
  <1> HIDE DEF x, rest
  <1>4. /\ x.pkg \in Packages /\ x.do \in Verbs /\ x.pkg[1] = me.name /\ Moves(x, a, b)
        /\ x.do \in Removers => ImageOf[x.pkg] \notin Spare(me)
    BY <1>3, UndoEdge
  <1>5. Apart(s, t, x)
    <2>1. Apart(s, s, x)
      BY DEF Apart
    <2>2. t \in FailedEffects(s, x) => Apart(s, t, x)
      BY <1>4, FailureApart
    <2>3. t = Effect(s, x, me.db) => Apart(s, t, x)
      BY <1>4, EffectApart
    <2> QED
      BY <2>1, <2>2, <2>3 DEF x
  <1>6. ASSUME me.name \notin T PROVE T = S /\ (Serves(s, me.name, a) => Serves(t, me.name, b))
    <2>1. CASE Possible(s, x) /\ t = Effect(s, x, me.db) /\ T = S
      BY <1>4, <2>1, StepEffect
    <2>2. CASE x.do = "missing" /\ t = s /\ T = S
      <3>1. a = b
        BY <1>4, <2>2 DEF Moves
      <3> QED
        BY <2>2, <3>1
    <2> QED
      BY <1>6, <2>1, <2>2 DEF x
  <1>7. /\ you.pc = "undo" /\ you.db = me.db /\ you.name = me.name /\ you.entry = me.entry /\ you.todo = me.todo
        /\ you.undo = rest /\ you.more = me.more /\ you.ignored = me.ignored /\ you.edit = me.edit
        /\ you.rollback = me.rollback
        /\ you = [pc |-> you.pc, db |-> you.db, name |-> you.name, entry |-> you.entry, todo |-> you.todo,
                  undo |-> you.undo, more |-> you.more, ignored |-> you.ignored, edit |-> you.edit,
                  rollback |-> you.rollback]
    <2>1. me = [pc |-> me.pc, db |-> me.db, name |-> me.name, entry |-> me.entry, todo |-> me.todo,
                undo |-> me.undo, more |-> me.more, ignored |-> me.ignored, edit |-> me.edit,
                rollback |-> me.rollback]
      BY DEF Process
    <2>2. you = [me EXCEPT !.undo = rest]
      BY DEF rest
    <2> HIDE DEF you
    <2> QED
      BY <2>1, <2>2
  <1> HIDE DEF you
  <1>8. Process(you)
    BY <1>3, <1>7 DEF Process, Walk
  <1>9. /\ Spare(you) = Spare(me) /\ Was(you) = Was(me) /\ Old(you) = Old(me)
    BY <1>7 DEF Spare, Was, Old
  <1>10. UndoingAt(you, t, f, T, b)
    <2>1. ASSUME you.name \notin T
          PROVE  /\ you.name \notin Missed(you.db, f) /\ Serves(t, you.name, b)
                 /\ Was(you) => Spare(you) = {ImageOf[Old(you)]} /\ Kept(t, Old(you))
      <3>1. me.name \notin S
        BY <1>6, <1>7, <2>1
      <3>2. /\ me.name \notin Missed(me.db, f) /\ Serves(s, me.name, a)
            /\ Was(me) => Spare(me) = {ImageOf[Old(me)]} /\ Kept(s, Old(me))
        BY <1>1, <3>1 DEF UndoingAt
      <3>3. Was(me) => Kept(t, Old(me))
        BY <1>4, <1>5, <3>2 DEF Kept, Apart, Removers
      <3> QED
        BY <1>6, <1>7, <1>9, <2>1, <3>2, <3>3
    <2> QED
      BY <1>3, <1>7, <1>9, <2>1 DEF UndoingAt
  <1>11. Undoing(you, t, f, T)
    BY <1>10 DEF Undoing
  <1> QED
    BY <1>4, <1>5, <1>8, <1>11 DEF x, you

\* How a command ends, for its package.
LEMMA RunEnds ==
  ASSUME NEW me, Process(me), me.pc = "run", NEW s, NEW f, NEW S, Running(me, s, f, S), me.todo = <<>>,
         me.name \notin S \cup Missed(me.db, f)
  PROVE  Settled(s, [me.db EXCEPT ![me.name] = me.entry], me.name)
<1> DEFINE d == [me.db EXCEPT ![me.name] = me.entry]
           n == me.name
<1>1. PICK a \in Statuses : RunningAt(me, s, f, S, a)
  BY DEF Running
<1>2. a = Aim(me)
  BY <1>1, WalkEnds DEF RunningAt
<1>3. /\ Serves(s, n, a) /\ me.rollback = me.entry.installed
      /\ me.rollback => Pending(<<>>, New(me)) \/ Kept(s, New(me))
  BY <1>1 DEF RunningAt
<1>4. ~Pending(<<>>, New(me))
  BY DEF Pending
<1>5. n \in DOMAIN me.db /\ n \in DOMAIN d /\ d[n] = me.entry
  BY DEF Process
<1> HIDE DEF d, n
<1>6. /\ is_installed(d, n) <=> me.entry.installed
      /\ Status(d, n) = Aim(me) /\ New(me) = <<n, d[n].version>>
  BY <1>5 DEF is_installed, has_package, Status, Aim, New, n
<1>7. is_installed(d, n) => me.rollback
  BY <1>3, <1>6
<1>8. Settled(s, d, n)
  BY <1>2, <1>3, <1>4, <1>6, <1>7 DEF Settled
<1> QED
  BY <1>8 DEF d, n

LEMMA UndoEnds ==
  ASSUME NEW me, Process(me), me.pc = "undo", NEW s, NEW f, NEW S, Undoing(me, s, f, S), me.undo = <<>>,
         me.name \notin S
  PROVE  Settled(s, f, me.name)
<1>1. PICK a \in Statuses : UndoingAt(me, s, f, S, a)
  BY DEF Undoing
<1>2. a = Status(me.db, me.name)
  BY <1>1, WalkEnds DEF UndoingAt
<1>3. /\ me.name \notin Missed(me.db, f) /\ Serves(s, me.name, a) /\ (Was(me) => Kept(s, Old(me)))
  BY <1>1 DEF UndoingAt
<1>4. Settled(s, me.db, me.name)
  BY <1>2, <1>3 DEF Settled, Was, Old, is_installed
<1> QED
  BY <1>3, <1>4, NotMissed

LEMMA OthersCommitted ==
  ASSUME NEW d, NEW f, NEW e, NEW s, NEW m, m \notin Missed(d, f), Settled(s, f, m),
         is_installed(e, m) <=> is_installed(d, m), is_installed(d, m) => e[m] = d[m]
  PROVE  Settled(s, e, m)
<1>1. Settled(s, d, m)
  BY NotMissed
<1>2. Status(e, m) = Status(d, m)
  BY DEF Status
<1> QED
  BY <1>1, <1>2 DEF Settled

---------------------------------------------------------------------------
\* The invariant of the package manager.
Healthy ==
  \A c \in Clients :
    /\ client[c].pc = "run" => Running(client[c], sys, file, suspect)
    /\ client[c].pc = "undo" => Undoing(client[c], sys, file, suspect)

AllSettled == \A n \in Names \ suspect : Busy(n) \/ Settled(sys, file, n)

PackageInv == PackageTypeOK /\ LockHeld /\ Healthy /\ AllSettled /\ FitAtEnd /\ DependenciesHold

FitsAtEnd(me) ==
  ~me.ignored => validate_package_tree(get_installed_packages([me.db EXCEPT ![me.name] = me.entry]))

\* The process c does a step on its own: no other one is at work.
Works(c, you) ==
  /\ Becomes(c, you) /\ Process(you)
  /\ lock \in {NoClient, c} /\ lock' = IF you.pc \in {"run", "undo", "migrate"} THEN c ELSE NoClient
  /\ you.pc = "run" => Running(you, sys', file', suspect') /\ FitsAtEnd(you)
  /\ you.pc = "undo" => Undoing(you, sys', file', suspect')
  /\ \A n \in Names \ suspect' : (you.pc \in {"run", "undo"} /\ you.name = n) \/ Settled(sys', file', n)
  /\ Database(file') /\ SystemRecord(sys') /\ suspect' \subseteq Names /\ unchecked' \in BOOLEAN
  /\ unchecked' \/ validate_package_tree(get_installed_packages(file'))

LEMMA Work ==
  ASSUME PackageInv, NEW c \in Clients, NEW you, Works(c, you)
  PROVE  PackageInv'
<1>1. /\ client = [b \in Clients |-> client[b]] /\ LockHeld /\ NoClient \notin Clients
      /\ \A b \in Clients : Process(client[b])
  BY PackageAssumption DEF PackageInv, PackageTypeOK
<1>2. /\ client' = [b \in Clients |-> client'[b]] /\ client'[c] = you
      /\ \A b \in Clients \ {c} : client'[b] = client[b]
  BY <1>1 DEF Works, Becomes
<1>3. \A b \in Clients \ {c} : client[b].pc \notin {"run", "undo", "migrate"} /\ lock # b
  BY <1>1 DEF LockHeld, Works
<1>4. PackageTypeOK'
  BY <1>1, <1>2 DEF PackageTypeOK, Works
<1>5. LockHeld'
  BY <1>1, <1>2, <1>3 DEF LockHeld, Works
<1>6. Healthy'
  BY <1>2, <1>3 DEF Healthy, Works
<1>7. AllSettled'
  <2>1. ASSUME NEW n \in Names \ suspect' PROVE Busy(n)' \/ Settled(sys', file', n)
    BY <1>2 DEF Works, Busy
  <2> QED
    BY <2>1 DEF AllSettled
<1>8. FitAtEnd'
  BY <1>2, <1>3 DEF FitAtEnd, FitsAtEnd, Works
<1>9. DependenciesHold'
  BY DEF DependenciesHold, Works
<1> QED
  BY <1>4, <1>5, <1>6, <1>7, <1>8, <1>9 DEF PackageInv

\* A process that is not at work, before and after: nothing of the rest moves.
LEMMA Idles ==
  ASSUME PackageInv, NEW c \in Clients, NEW you, Becomes(c, you), Process(you),
         client[c].pc \in {"idle", "ready"}, you.pc \in {"idle", "ready"},
         UNCHANGED <<file, sys, lock, suspect, unchecked>>
  PROVE  PackageInv'
<1>1. /\ client = [b \in Clients |-> client[b]] /\ LockHeld /\ \A b \in Clients : Process(client[b])
  BY DEF PackageInv, PackageTypeOK
<1>2. /\ client' = [b \in Clients |-> client'[b]] /\ client'[c] = you
      /\ \A b \in Clients \ {c} : client'[b] = client[b]
  BY <1>1 DEF Becomes
<1>4. PackageTypeOK'
  BY <1>1, <1>2 DEF PackageInv, PackageTypeOK
<1>5. LockHeld'
  BY <1>1, <1>2 DEF LockHeld
<1>6. Healthy'
  BY <1>2 DEF PackageInv, Healthy
<1>7. AllSettled'
  <2>1. \A n : Busy(n) => Busy(n)'
    BY <1>2 DEF Busy
  <2> QED
    BY <2>1 DEF PackageInv, AllSettled
<1>8. FitAtEnd'
  BY <1>2 DEF PackageInv, FitAtEnd
<1>9. DependenciesHold'
  BY DEF PackageInv, DependenciesHold
<1> QED
  BY <1>4, <1>5, <1>6, <1>7, <1>8, <1>9 DEF PackageInv

\* What the invariant gives a process that can go to work or is at work.
LEMMA BeforeWork ==
  ASSUME PackageInv, NEW c \in Clients, lock \in {NoClient, c}
  PROVE  /\ Process(client[c]) /\ Database(file) /\ SystemRecord(sys) /\ suspect \subseteq Names
         /\ unchecked \in BOOLEAN /\ (unchecked \/ validate_package_tree(get_installed_packages(file)))
         /\ client[c].pc = "run" => Running(client[c], sys, file, suspect) /\ FitsAtEnd(client[c])
         /\ client[c].pc = "undo" => Undoing(client[c], sys, file, suspect)
         /\ client[c].pc \in {"run", "undo", "migrate"} <=> lock = c
         /\ \A n \in Names \ suspect :
              (client[c].pc \in {"run", "undo"} /\ client[c].name = n) \/ Settled(sys, file, n)
<1>1. \A b \in Clients \ {c} : client[b].pc \notin {"run", "undo", "migrate"}
  BY PackageAssumption DEF PackageInv, LockHeld
<1>2. \A n \in Names \ suspect :
        (client[c].pc \in {"run", "undo"} /\ client[c].name = n) \/ Settled(sys, file, n)
  BY <1>1 DEF PackageInv, AllSettled, Busy
<1>3. /\ Process(client[c]) /\ Database(file) /\ SystemRecord(sys) /\ suspect \subseteq Names
      /\ unchecked \in BOOLEAN
  BY DEF PackageInv, PackageTypeOK
<1>4. unchecked \/ validate_package_tree(get_installed_packages(file))
  BY DEF PackageInv, DependenciesHold
<1>5. /\ client[c].pc = "run" => Running(client[c], sys, file, suspect)
      /\ client[c].pc = "undo" => Undoing(client[c], sys, file, suspect)
  BY DEF PackageInv, Healthy
<1>6. client[c].pc = "run" => FitsAtEnd(client[c])
  BY DEF PackageInv, FitAtEnd, FitsAtEnd
<1>7. client[c].pc \in {"run", "undo", "migrate"} <=> lock = c
  BY DEF PackageInv, LockHeld
<1> QED
  BY <1>2, <1>3, <1>4, <1>5, <1>6, <1>7

---------------------------------------------------------------------------
\* The actions.  First those of processes that are not at work.
LEMMA IdleProcess ==
  /\ Process(Idle) /\ Idle.pc = "idle"
  /\ \A d : Database(d) => /\ Process([Idle EXCEPT !.pc = "ready", !.db = d])
                           /\ [Idle EXCEPT !.pc = "ready", !.db = d].pc = "ready"
  /\ \A d, M : Database(d) /\ M \subseteq DOMAIN d \cap DOMAIN OldPackages =>
       LET me == [Idle EXCEPT !.pc = "migrate", !.db = d, !.more = M] IN Process(me) /\ me.pc = "migrate"
<1>1. <<>> \in Seq(Steps) /\ <<>> \in Seq(Undos) /\ {"idle", "ready", "migrate"} \subseteq ProcessStates
  BY DEF ProcessStates
<1>2. Process(Idle) /\ Idle.pc = "idle"
  BY <1>1 DEF Process, Idle
<1>3. ASSUME NEW d, Database(d), NEW me, me = [Idle EXCEPT !.pc = "ready", !.db = d]
      PROVE  Process(me) /\ me.pc = "ready"
  <2>1. me = [pc |-> "ready", db |-> d, name |-> NoClient, entry |-> <<>>, todo |-> <<>>, undo |-> <<>>,
              more |-> {}, ignored |-> FALSE, edit |-> FALSE, rollback |-> FALSE]
    BY <1>3 DEF Idle
  <2>2. /\ me.pc = "ready" /\ me.db = d /\ me.todo = <<>> /\ me.undo = <<>> /\ me.more = {}
        /\ me.ignored = FALSE /\ me.edit = FALSE /\ me.rollback = FALSE
        /\ me = [pc |-> me.pc, db |-> me.db, name |-> me.name, entry |-> me.entry, todo |-> me.todo,
                 undo |-> me.undo, more |-> me.more, ignored |-> me.ignored, edit |-> me.edit,
                 rollback |-> me.rollback]
    BY <2>1
  <2> QED
    BY <1>1, <1>3, <2>2 DEF Process
<1>4. ASSUME NEW d, NEW M, Database(d), M \subseteq DOMAIN d \cap DOMAIN OldPackages,
             NEW me, me = [Idle EXCEPT !.pc = "migrate", !.db = d, !.more = M]
      PROVE  Process(me) /\ me.pc = "migrate"
  <2>1. me = [pc |-> "migrate", db |-> d, name |-> NoClient, entry |-> <<>>, todo |-> <<>>, undo |-> <<>>,
              more |-> M, ignored |-> FALSE, edit |-> FALSE, rollback |-> FALSE]
    BY <1>4 DEF Idle
  <2>2. /\ me.pc = "migrate" /\ me.db = d /\ me.todo = <<>> /\ me.undo = <<>> /\ me.more = M
        /\ me.ignored = FALSE /\ me.edit = FALSE /\ me.rollback = FALSE
        /\ me = [pc |-> me.pc, db |-> me.db, name |-> me.name, entry |-> me.entry, todo |-> me.todo,
                 undo |-> me.undo, more |-> me.more, ignored |-> me.ignored, edit |-> me.edit,
                 rollback |-> me.rollback]
    BY <2>1
  <2> QED
    BY <1>1, <1>4, <2>2 DEF Process
<1> QED
  BY Zenon, <1>2, <1>3, <1>4

LEMMA ManagerKeeps ==
  ASSUME PackageInv, NEW c \in Clients, get_manager(c)
  PROVE  PackageInv'
<1> DEFINE you == [Idle EXCEPT !.pc = "ready", !.db = file]
<1>1. Becomes(c, you) /\ client[c].pc = "idle" /\ UNCHANGED <<file, sys, lock, suspect, unchecked>>
  BY DEF get_manager, Becomes
<1>2. Database(file)
  BY DEF PackageInv, PackageTypeOK
<1>3. Process(you) /\ you.pc = "ready"
  BY Zenon, <1>2, IdleProcess
<1> HIDE DEF you
<1> QED
  BY <1>1, <1>3, Idles

LEMMA RefusedKeeps ==
  ASSUME PackageInv, NEW c \in Clients, Refused(c)
  PROVE  PackageInv'
<1>1. Becomes(c, Idle) /\ client[c].pc = "ready" /\ UNCHANGED <<file, sys, lock, suspect, unchecked>>
  BY DEF Refused, Becomes
<1> QED
  BY Zenon, <1>1, IdleProcess, Idles

LEMMA ManifestKeeps ==
  ASSUME PackageInv, NEW c \in Clients, NEW n,
         create_package_manifest(c, n) \/ update_package_manifest(c, n) \/ delete_package_manifest(c, n)
  PROVE  PackageInv'
<1>1. Becomes(c, Idle) /\ client[c].pc = "ready" /\ UNCHANGED <<file, sys, lock, suspect, unchecked>>
  BY DEF create_package_manifest, update_package_manifest, delete_package_manifest, ManifestCommand, Becomes
<1> QED
  BY Zenon, <1>1, IdleProcess, Idles

\* A process leaves, or waits between two packages of a migration, and the
\* packages it leaves are settled or torn.
LEMMA Leaves ==
  ASSUME PackageInv, NEW c \in Clients, lock \in {NoClient, c}, NEW you, Becomes(c, you), Process(you),
         you.pc \in {"idle", "migrate"}, lock' = IF you.pc = "idle" THEN NoClient ELSE c,
         UNCHANGED <<file, sys, unchecked>>, suspect \subseteq suspect', suspect' \subseteq Names,
         client[c].pc \in {"run", "undo"} =>
           client[c].name \in suspect' \/ Settled(sys, file, client[c].name)
  PROVE  PackageInv'
<1>1. /\ Database(file) /\ SystemRecord(sys) /\ unchecked \in BOOLEAN
      /\ unchecked \/ validate_package_tree(get_installed_packages(file))
  BY BeforeWork
<1>2. \A n \in Names \ suspect :
        (client[c].pc \in {"run", "undo"} /\ client[c].name = n) \/ Settled(sys, file, n)
  BY BeforeWork
<1>3. \A n \in Names \ suspect' : Settled(sys, file, n)
  BY <1>2
<1>4. Works(c, you)
  BY <1>1, <1>3 DEF Works
<1> QED
  BY <1>4, Work

LEMMA FailedKeeps ==
  ASSUME PackageInv, NEW c \in Clients, Failed(c)
  PROVE  PackageInv'
<1>1. /\ Becomes(c, Idle) /\ client[c].pc = "undo" /\ client[c].undo = <<>> /\ lock' = NoClient
      /\ UNCHANGED <<file, sys, suspect, unchecked>>
  BY DEF Failed, Becomes
<1>2. lock = c /\ suspect \subseteq Names
  BY <1>1 DEF PackageInv, LockHeld, PackageTypeOK
<1>3. Process(client[c]) /\ Undoing(client[c], sys, file, suspect)
  BY <1>1, <1>2, BeforeWork
<1>4. client[c].name \in suspect \/ Settled(sys, file, client[c].name)
  BY <1>1, <1>3, UndoEnds
<1> QED
  BY Zenon, <1>1, <1>2, <1>4, IdleProcess, Leaves

LEMMA KilledKeeps ==
  ASSUME PackageInv, NEW c \in Clients, Killed(c)
  PROVE  PackageInv'
<1>1. /\ Becomes(c, Idle) /\ client[c].pc \in {"run", "undo"} /\ lock' = NoClient
      /\ UNCHANGED <<file, sys, unchecked>> /\ suspect' = suspect \cup {client[c].name}
  BY DEF Killed, Becomes
<1>2. lock = c /\ suspect \subseteq Names
  BY <1>1 DEF PackageInv, LockHeld, PackageTypeOK
<1>3. client[c].name \in Names
  BY <1>1, <1>2, BeforeWork DEF Process, Database
<1> QED
  BY Zenon, <1>1, <1>2, <1>3, IdleProcess, Leaves

LEMMA MigrationRefusedKeeps ==
  ASSUME PackageInv, NEW c \in Clients, MigrationRefused(c)
  PROVE  PackageInv'
<1>1. /\ Becomes(c, Idle) /\ client[c].pc = "migrate" /\ lock' = NoClient
      /\ UNCHANGED <<file, sys, suspect, unchecked>>
  BY DEF MigrationRefused, Becomes
<1>2. lock = c /\ suspect \subseteq Names
  BY <1>1 DEF PackageInv, LockHeld, PackageTypeOK
<1> QED
  BY Zenon, <1>1, <1>2, IdleProcess, Leaves

LEMMA MigratePackagesKeeps ==
  ASSUME PackageInv, NEW c \in Clients, migrate_packages(c)
  PROVE  PackageInv'
<1> DEFINE db == _migrate_package_database(client[c].db)
           more == DOMAIN OldPackages \ BuiltIn
           you == [client[c] EXCEPT !.pc = "migrate", !.db = db, !.more = more]
<1>1. /\ client[c].pc = "ready" /\ lock = NoClient /\ lock' = c /\ UNCHANGED <<file, sys, suspect, unchecked>>
  BY DEF migrate_packages, under_lock
<1>2. Becomes(c, you)
  BY DEF migrate_packages, Becomes, PackageInv, PackageTypeOK
<1>3. Process(client[c]) /\ suspect \subseteq Names
  BY <1>1, BeforeWork
<1>4. Database(db)
  <2>1. Database(client[c].db)
    BY <1>1, <1>3 DEF Process
  <2>2. \A n \in Names : SoundEntry(n, PackageEntry(DefaultVersion[n]))
    BY PackageAssumption DEF SoundEntry, Entries, PackageEntry
  <2> QED
    BY <2>1, <2>2, PackageAssumption DEF Database, _migrate_package_database
<1>5. more \subseteq DOMAIN OldPackages /\ more \subseteq DOMAIN db
  BY DEF _migrate_package_database
<1> HIDE DEF db, more
<1>6. /\ you.pc = "migrate" /\ you.db = db /\ you.name = client[c].name /\ you.entry = client[c].entry
      /\ you.todo = client[c].todo /\ you.undo = client[c].undo /\ you.more = more
      /\ you.ignored = client[c].ignored /\ you.edit = client[c].edit /\ you.rollback = client[c].rollback
      /\ you = [pc |-> you.pc, db |-> you.db, name |-> you.name, entry |-> you.entry, todo |-> you.todo,
                undo |-> you.undo, more |-> you.more, ignored |-> you.ignored, edit |-> you.edit,
                rollback |-> you.rollback]
  <2>1. client[c] = [pc |-> client[c].pc, db |-> client[c].db, name |-> client[c].name, entry |-> client[c].entry,
              todo |-> client[c].todo, undo |-> client[c].undo, more |-> client[c].more,
              ignored |-> client[c].ignored, edit |-> client[c].edit, rollback |-> client[c].rollback]
    BY <1>3 DEF Process
  <2>2. you = [client[c] EXCEPT !.pc = "migrate", !.db = db, !.more = more]
    OBVIOUS
  <2> HIDE DEF you
  <2> QED
    BY <2>1, <2>2
<1> HIDE DEF you
<1>7. Process(you)
  BY <1>3, <1>4, <1>5, <1>6 DEF Process, ProcessStates
<1> QED
  BY <1>1, <1>2, <1>3, <1>6, <1>7, Leaves

\* Commands that begin.
LEMMA BeginKeeps ==
  ASSUME PackageInv, NEW c \in Clients, lock \in {NoClient, c}, lock' = c,
         client[c].pc \in {"ready", "migrate"}, NEW you, Begun(you), Becomes(c, you),
         UNCHANGED <<file, sys, suspect, unchecked>>
  PROVE  PackageInv'
<1>1. /\ Database(file) /\ SystemRecord(sys) /\ unchecked \in BOOLEAN /\ suspect \subseteq Names
      /\ unchecked \/ validate_package_tree(get_installed_packages(file))
      /\ \A n \in Names \ suspect : Settled(sys, file, n)
  BY BeforeWork
<1>2. Process(you) /\ you.pc = "run" /\ FitsAtEnd(you) /\ you.name \in Names
  BY DEF Begun, FitsAtEnd, Process, Database
<1>3. Running(you, sys, file, suspect)
  BY <1>1, <1>2, BegunRuns
<1>4. Works(c, you)
  BY <1>1, <1>2, <1>3 DEF Works
<1> QED
  BY <1>4, Work

LEMMA InstallKeeps ==
  ASSUME PackageInv, NEW c \in Clients, NEW p \in Packages, NEW registry \in BOOLEAN, NEW enable \in BOOLEAN,
         NEW skip \in BOOLEAN, NEW downgrade \in BOOLEAN, NEW force \in BOOLEAN,
         install(c, p, registry, enable, skip, downgrade, force)
  PROVE  PackageInv'
<1>1. client[c].pc = "ready" /\ lock = NoClient /\ lock' = c
  BY DEF install, under_lock
<1>2. Process(client[c])
  BY <1>1, BeforeWork
<1>3. CASE is_installed(client[c].db, p[1])
  <2> DEFINE no == FALSE
  <2>1. upgrade_from_source(c, client[c], p, registry, no, skip, downgrade, force)
    BY <1>3 DEF install
  <2>2. no \in BOOLEAN /\ ~no
    OBVIOUS
  <2> HIDE DEF no
  <2>3. (\E me : Begun(me) /\ Becomes(c, me)) /\ UNCHANGED <<file, sys, suspect, unchecked>>
    BY <1>1, <1>2, <2>1, <2>2, UpgradeBegins
  <2> QED
    BY <1>1, <2>3, BeginKeeps
<1>4. CASE ~is_installed(client[c].db, p[1])
  <2> DEFINE state == IF enable THEN "enabled" ELSE "disabled"
  <2>1. install_from_source(c, client[c], p, registry, state, skip, force)
    BY <1>4 DEF install
  <2>2. state \in {"enabled", "disabled"}
    OBVIOUS
  <2> HIDE DEF state
  <2>3. (\E me : Begun(me) /\ Becomes(c, me)) /\ UNCHANGED <<file, sys, suspect, unchecked>>
    BY <1>1, <1>2, <2>1, <2>2, InstallBegins
  <2> QED
    BY <1>1, <2>3, BeginKeeps
<1> QED
  BY <1>3, <1>4

LEMMA UpdateKeeps ==
  ASSUME PackageInv, NEW c \in Clients, NEW n \in Names, NEW skip \in BOOLEAN, NEW force \in BOOLEAN,
         update(c, n, skip, force)
  PROVE  PackageInv'
<1> DEFINE p == get_installed_package(client[c].db, n)
           no == FALSE
           yes == TRUE
<1>1. /\ client[c].pc = "ready" /\ lock = NoClient /\ lock' = c /\ is_installed(client[c].db, n)
      /\ upgrade_from_source(c, client[c], p, no, yes, skip, no, force)
  BY DEF update, under_lock
<1>2. Process(client[c])
  BY <1>1, BeforeWork
<1>3. p \in Packages /\ p = get_installed_package(client[c].db, p[1])
  BY <1>1, <1>2 DEF Process, Database, SoundEntry, is_installed, has_package, get_installed_package, Packages
<1>4. no \in BOOLEAN /\ yes \in BOOLEAN
  OBVIOUS
<1> HIDE DEF p, no, yes
<1>5. (\E me : Begun(me) /\ Becomes(c, me)) /\ UNCHANGED <<file, sys, suspect, unchecked>>
  BY <1>1, <1>2, <1>3, <1>4, UpgradeBegins
<1> QED
  BY <1>1, <1>5, BeginKeeps

LEMMA ResetKeeps ==
  ASSUME PackageInv, NEW c \in Clients, NEW n \in Names, NEW skip \in BOOLEAN, NEW force \in BOOLEAN,
         reset(c, n, skip, force)
  PROVE  PackageInv'
<1> DEFINE p == <<n, client[c].db[n].default>>
           no == FALSE
           yes == TRUE
<1>1. /\ client[c].pc = "ready" /\ lock = NoClient /\ lock' = c /\ is_installed(client[c].db, n)
      /\ client[c].db[n].default # 0
      /\ upgrade_from_source(c, client[c], p, yes, no, skip, yes, force)
  BY DEF reset, under_lock, CanRead
<1>2. Process(client[c])
  BY <1>1, BeforeWork
<1>3. p \in Packages
  BY <1>1, <1>2 DEF Process, Database, SoundEntry, Entries, is_installed, has_package, Packages
<1>4. no \in BOOLEAN /\ yes \in BOOLEAN /\ ~no
  OBVIOUS
<1> HIDE DEF p, no, yes
<1>5. (\E me : Begun(me) /\ Becomes(c, me)) /\ UNCHANGED <<file, sys, suspect, unchecked>>
  BY <1>1, <1>2, <1>3, <1>4, UpgradeBegins
<1> QED
  BY <1>1, <1>5, BeginKeeps

LEMMA UninstallKeeps ==
  ASSUME PackageInv, NEW c \in Clients, NEW n \in Names, NEW keep \in BOOLEAN, NEW force \in BOOLEAN,
         uninstall(c, n, keep, force)
  PROVE  PackageInv'
<1>1. client[c].pc = "ready" /\ lock = NoClient /\ lock' = c
  BY DEF uninstall, under_lock
<1>2. Process(client[c])
  BY <1>1, BeforeWork
<1>3. (\E me : Begun(me) /\ Becomes(c, me)) /\ UNCHANGED <<file, sys, suspect, unchecked>>
  BY <1>1, <1>2, UninstallBegins
<1> QED
  BY <1>1, <1>3, BeginKeeps

\* Commands that run.
LEMMA Steadies ==
  ASSUME PackageInv, NEW c \in Clients, lock = c, NEW you, Becomes(c, you), Process(you), lock' = c,
         UNCHANGED <<file, unchecked>>, suspect \subseteq suspect', suspect' \subseteq Names,
         NEW x, x.pkg \in Packages, Apart(sys, sys', x), x.pkg[1] = client[c].name,
         client[c].pc \in {"run", "undo"}, you.pc \in {"run", "undo"}, you.name = client[c].name,
         you.pc = "run" => Running(you, sys', file', suspect') /\ FitsAtEnd(you),
         you.pc = "undo" => Undoing(you, sys', file', suspect')
  PROVE  PackageInv'
<1>1. /\ Database(file) /\ unchecked \in BOOLEAN
      /\ unchecked \/ validate_package_tree(get_installed_packages(file))
      /\ \A n \in Names \ suspect :
           (client[c].pc \in {"run", "undo"} /\ client[c].name = n) \/ Settled(sys, file, n)
  BY BeforeWork
<1>2. ASSUME NEW n \in Names \ suspect', n # you.name PROVE Settled(sys', file', n)
  <2>1. Settled(sys, file, n) /\ n \in Names \ {x.pkg[1]}
    BY <1>1, <1>2
  <2> QED
    BY <1>1, <2>1, OthersSettled
<1>3. SystemRecord(sys')
  BY DEF Apart
<1>4. \A n \in Names \ suspect' : (you.pc \in {"run", "undo"} /\ you.name = n) \/ Settled(sys', file', n)
  BY <1>2
<1>5. Works(c, you)
  BY <1>1, <1>3, <1>4 DEF Works
<1> QED
  BY <1>5, Work

LEMMA CommandStepKeeps ==
  ASSUME PackageInv, NEW c \in Clients, CommandStep(c)
  PROVE  PackageInv'
<1> DEFINE me == client[c]
           x == Head(me.todo)
           you == [me EXCEPT !.todo = Tail(@), !.undo = x.undo \o @]
<1>1. /\ me.pc = "run" /\ me.todo # <<>> /\ Possible(sys, x) /\ sys' = Effect(sys, x, me.db)
      /\ UNCHANGED <<file, lock, suspect, unchecked>>
  BY DEF CommandStep
<1>2. Becomes(c, you)
  BY DEF CommandStep, Becomes, PackageInv, PackageTypeOK
<1>3. lock = c /\ suspect \subseteq Names
  BY <1>1 DEF PackageInv, LockHeld, PackageTypeOK
<1>4. Process(me) /\ SystemRecord(sys) /\ Running(me, sys, file, suspect) /\ FitsAtEnd(me)
  BY <1>1, <1>3, BeforeWork
<1>5. /\ Process(you) /\ Running(you, sys', file, suspect) /\ Apart(sys, sys', x)
      /\ x.pkg \in Packages /\ x.pkg[1] = me.name
  <2> HIDE DEF me
  <2> QED
    BY Zenon, <1>1, <1>4, StepRuns
<1>6. you.pc = "run" /\ you.name = me.name /\ FitsAtEnd(you)
  <2>1. me = [pc |-> me.pc, db |-> me.db, name |-> me.name, entry |-> me.entry, todo |-> me.todo,
              undo |-> me.undo, more |-> me.more, ignored |-> me.ignored, edit |-> me.edit,
              rollback |-> me.rollback]
    BY <1>4 DEF Process
  <2> HIDE DEF me
  <2>2. /\ you.pc = "run" /\ you.name = me.name /\ you.ignored = me.ignored /\ you.db = me.db
        /\ you.entry = me.entry
    BY <1>1, <2>1
  <2> QED
    BY <1>4, <2>2 DEF FitsAtEnd
<1> HIDE DEF you, x
<1> QED
  BY <1>1, <1>2, <1>3, <1>5, <1>6, Steadies

LEMMA StepFailsKeeps ==
  ASSUME PackageInv, NEW c \in Clients, StepFails(c)
  PROVE  PackageInv'
<1> DEFINE me == client[c]
           x == Head(me.todo)
           you == [me EXCEPT !.pc = "undo", !.undo = IF me.rollback THEN @ ELSE <<>>]
<1>1. /\ me.pc = "run" /\ me.todo # <<>> /\ sys' \in FailedEffects(sys, x)
      /\ suspect' = IF CanUndo(me) THEN suspect ELSE suspect \cup {me.name}
      /\ UNCHANGED <<file, lock, unchecked>>
  BY DEF StepFails
<1>2. Becomes(c, you)
  BY DEF StepFails, Becomes, PackageInv, PackageTypeOK
<1>3. lock = c /\ suspect \subseteq Names
  BY <1>1 DEF PackageInv, LockHeld, PackageTypeOK
<1>4. Process(me) /\ SystemRecord(sys) /\ Running(me, sys, file, suspect) /\ me.name \in Names
  BY <1>1, <1>3, BeforeWork DEF Process, Database
<1>5. /\ suspect \subseteq suspect' /\ suspect' \subseteq Names
      /\ \/ me.name \in suspect'
         \/ /\ me.rollback /\ me.name \notin Missed(me.db, file)
            /\ me.edit \/ me.entry.image # me.db[me.name].image
  <2>1. CASE CanUndo(me)
    BY <1>1, <1>3, <2>1 DEF CanUndo, Lost, Missed
  <2>2. CASE ~CanUndo(me)
    BY <1>1, <1>3, <1>4, <2>2
  <2> QED
    BY <2>1, <2>2
<1>6. /\ Process(you) /\ Undoing(you, sys', file, suspect') /\ Apart(sys, sys', x)
      /\ x.pkg \in Packages /\ x.pkg[1] = me.name
  <2> HIDE DEF me
  <2> QED
    BY Zenon, <1>1, <1>4, <1>5, StepRaises
<1>7. you.pc = "undo" /\ you.name = me.name
  <2>1. me = [pc |-> me.pc, db |-> me.db, name |-> me.name, entry |-> me.entry, todo |-> me.todo,
              undo |-> me.undo, more |-> me.more, ignored |-> me.ignored, edit |-> me.edit,
              rollback |-> me.rollback]
    BY <1>4 DEF Process
  <2> HIDE DEF me
  <2> QED
    BY <2>1
<1> HIDE DEF you, x
<1> QED
  BY <1>1, <1>2, <1>3, <1>5, <1>6, <1>7, Steadies

LEMMA RollbackKeeps ==
  ASSUME PackageInv, NEW c \in Clients, rollback(c)
  PROVE  PackageInv'
<1> DEFINE me == client[c]
           x == Head(me.undo)
           you == [me EXCEPT !.undo = Tail(@)]
<1>1. /\ me.pc = "undo" /\ me.undo # <<>>
      /\ \/ Possible(sys, x) /\ sys' = Effect(sys, x, me.db) /\ suspect' = suspect
         \/ sys' \in FailedEffects(sys, x) /\ suspect' = suspect \cup {me.name}
         \/ x.do = "missing" /\ sys' = sys /\ suspect' = suspect
      /\ UNCHANGED <<file, lock, unchecked>>
  BY DEF rollback
<1>2. Becomes(c, you)
  BY DEF rollback, Becomes, PackageInv, PackageTypeOK
<1>3. lock = c /\ suspect \subseteq Names
  BY <1>1 DEF PackageInv, LockHeld, PackageTypeOK
<1>4. Process(me) /\ SystemRecord(sys) /\ Undoing(me, sys, file, suspect) /\ me.name \in Names
  BY <1>1, <1>3, BeforeWork DEF Process, Database
<1>5. suspect \subseteq suspect' /\ suspect' \subseteq Names
  BY <1>1, <1>3, <1>4
<1>6. /\ Process(you) /\ Undoing(you, sys', file, suspect') /\ Apart(sys, sys', x)
      /\ x.pkg \in Packages /\ x.pkg[1] = me.name
  <2> HIDE DEF me
  <2> QED
    BY <1>1, <1>4, UndoRuns
<1>7. you.pc = "undo" /\ you.name = me.name
  <2>1. me = [pc |-> me.pc, db |-> me.db, name |-> me.name, entry |-> me.entry, todo |-> me.todo,
              undo |-> me.undo, more |-> me.more, ignored |-> me.ignored, edit |-> me.edit,
              rollback |-> me.rollback]
    BY <1>4 DEF Process
  <2> HIDE DEF me
  <2> QED
    BY <1>1, <2>1
<1> HIDE DEF you, x
<1> QED
  BY <1>1, <1>2, <1>3, <1>5, <1>6, <1>7, Steadies

\* Commits.
LEMMA LostIsMissed ==
  ASSUME NEW d
  PROVE  Lost(d) = Missed(d, file)
  BY DEF Lost, Missed

LEMMA CommitKeeps ==
  ASSUME PackageInv, NEW c \in Clients, lock \in {NoClient, c}, client[c].pc # "idle",
         NEW you, Becomes(c, you), Process(you), you.pc \in {"idle", "migrate"},
         lock' = IF you.pc = "idle" THEN NoClient ELSE c, sys' = sys,
         NEW d, Database(d), Commit(c, d), unchecked' \/ validate_package_tree(get_installed_packages(d)),
         \A m \in Names :
           (client[c].pc \in {"run", "undo"} /\ m = client[c].name)
             \/ ((is_installed(d, m) <=> is_installed(client[c].db, m))
                   /\ (is_installed(client[c].db, m) => d[m] = client[c].db[m])),
         client[c].pc \in {"run", "undo"} =>
           client[c].name \in suspect' \/ Settled(sys, d, client[c].name)
  PROVE  PackageInv'
<1>1. /\ Database(file) /\ SystemRecord(sys) /\ suspect \subseteq Names
      /\ Process(client[c])
      /\ \A n \in Names \ suspect :
           (client[c].pc \in {"run", "undo"} /\ client[c].name = n) \/ Settled(sys, file, n)
  BY BeforeWork
<1>2. file' = d /\ suspect' = suspect \cup Missed(client[c].db, file) /\ unchecked' \in BOOLEAN
  BY LostIsMissed DEF Commit
<1>3. Missed(client[c].db, file) \subseteq Names
  BY <1>1 DEF Missed, Database, Process
<1>4. \A n \in Names \ suspect' : Settled(sys, d, n)
  <2> TAKE n \in Names \ suspect'
  <2>1. CASE client[c].pc \in {"run", "undo"} /\ n = client[c].name
    BY <2>1
  <2>2. CASE ~(client[c].pc \in {"run", "undo"} /\ n = client[c].name)
    <3>1. n \notin Missed(client[c].db, file) /\ Settled(sys, file, n)
      BY <1>1, <1>2, <2>2
    <3>2. /\ is_installed(d, n) <=> is_installed(client[c].db, n)
          /\ is_installed(client[c].db, n) => d[n] = client[c].db[n]
      BY <2>2
    <3> QED
      BY <3>1, <3>2, OthersCommitted
  <2> QED
    BY <2>1, <2>2
<1>5. Works(c, you)
  <2>1. suspect' \subseteq Names
    BY <1>1, <1>2, <1>3
  <2>2. \A n \in Names \ suspect' : Settled(sys', file', n)
    BY <1>2, <1>4
  <2>3. unchecked' \/ validate_package_tree(get_installed_packages(file'))
    BY <1>2
  <2> QED
    BY <1>1, <1>2, <2>1, <2>2, <2>3 DEF Works
<1> QED
  BY <1>5, Work

LEMMA RestProcess ==
  ASSUME NEW me, me.more \subseteq DOMAIN OldPackages, NEW d, Database(d), me.more \subseteq DOMAIN d
  PROVE  /\ Process(Rest(me, d)) /\ Rest(me, d).pc \in {"idle", "migrate"}
         /\ Rest(me, d).pc = "idle" <=> me.more = {}
<1> DEFINE going == [Idle EXCEPT !.pc = "migrate", !.db = d, !.more = me.more]
<1>1. Process(going) /\ going.pc = "migrate"
  BY Zenon, IdleProcess
<1> HIDE DEF going
<1>2. Rest(me, d) = IF me.more = {} THEN Idle ELSE going
  BY DEF Rest, going
<1> QED
  BY Zenon, <1>1, <1>2, IdleProcess

LEMMA FinishKeeps ==
  ASSUME PackageInv, NEW c \in Clients, Finish(c)
  PROVE  PackageInv'
<1> DEFINE me == client[c]
           n == me.name
           d == [me.db EXCEPT ![n] = me.entry]
           you == Rest(me, d)
<1>1. /\ me.pc = "run" /\ me.todo = <<>> /\ Commit(c, d) /\ Becomes(c, you) /\ sys' = sys
      /\ lock' = IF you.pc = "idle" THEN NoClient ELSE c
  BY DEF Finish, Becomes, Free
<1>2. lock = c
  BY <1>1 DEF PackageInv, LockHeld
<1>3. Process(me) /\ Running(me, sys, file, suspect) /\ FitsAtEnd(me)
  BY <1>1, <1>2, BeforeWork
<1>4. /\ Database(me.db) /\ n \in DOMAIN me.db /\ SoundEntry(n, me.entry)
      /\ me.more \subseteq DOMAIN OldPackages /\ me.more \subseteq DOMAIN me.db
  BY <1>1, <1>3 DEF Process
<1>5. /\ DOMAIN d = DOMAIN me.db /\ Database(d)
      /\ \A m \in DOMAIN d : m # n => d[m] = me.db[m]
  BY <1>4 DEF Database
<1>6. unchecked' \/ validate_package_tree(get_installed_packages(d))
  BY <1>1, <1>3 DEF Commit, FitsAtEnd
<1> HIDE DEF d
<1>7. Process(you) /\ you.pc \in {"idle", "migrate"}
  <2> HIDE DEF me
  <2> QED
    BY <1>4, <1>5, RestProcess
<1>8. n \in suspect' \/ Settled(sys, d, n)
  <2>1. suspect' = suspect \cup Missed(me.db, file)
    BY <1>1, LostIsMissed DEF Commit
  <2> HIDE DEF me
  <2> QED
    BY <1>1, <1>3, <2>1, RunEnds DEF d
<1>9. \A m \in Names :
        (m = n) \/ ((is_installed(d, m) <=> is_installed(me.db, m))
                     /\ (is_installed(me.db, m) => d[m] = me.db[m]))
  BY <1>5 DEF is_installed, has_package
<1> HIDE DEF you
<1> QED
  BY <1>1, <1>2, <1>5, <1>6, <1>7, <1>8, <1>9, CommitKeeps

LEMMA AddRepositoryKeeps ==
  ASSUME PackageInv, NEW c \in Clients, NEW n \in Names, add_repository(c, n, DefaultVersion[n])
  PROVE  PackageInv'
<1> DEFINE db == client[c].db
           v == DefaultVersion[n]
           d == add_package(db, n, v)
<1>1. /\ client[c].pc = "ready" /\ lock = NoClient /\ n \notin DOMAIN db /\ Commit(c, d) /\ Becomes(c, Idle)
      /\ UNCHANGED <<sys, lock>>
  BY DEF add_repository, Becomes, has_package
<1>2. Process(client[c]) /\ (unchecked \/ validate_package_tree(get_installed_packages(file)))
  BY <1>1, BeforeWork
<1>3. Database(db) /\ v \in Versions \cup {0}
  BY <1>1, <1>2, PackageAssumption DEF Process
<1> HIDE DEF v, db
<1>4. /\ Database(d) /\ get_installed_packages(d) = get_installed_packages(db)
      /\ DOMAIN d = DOMAIN db \cup {n} /\ ~d[n].installed
  BY <1>1, <1>3, InstalledOfAdded
<1>5. \A m \in DOMAIN db : d[m] = db[m]
  BY <1>1 DEF add_package
<1>6. unchecked' \/ validate_package_tree(get_installed_packages(d))
  <2>1. CASE Lost(db) = {}
    BY <1>1, <1>2, <1>4, <2>1, SameInstalled DEF Commit
  <2>2. CASE Lost(db) # {}
    BY <1>1, <2>2 DEF Commit, db
  <2> QED
    BY <2>1, <2>2
<1>7. \A m \in Names : /\ is_installed(d, m) <=> is_installed(db, m)
                       /\ is_installed(db, m) => d[m] = db[m]
  BY <1>4, <1>5 DEF is_installed, has_package
<1> HIDE DEF d
<1> QED
  BY Zenon, <1>1, <1>4, <1>6, <1>7, IdleProcess, CommitKeeps DEF db

LEMMA RemoveRepositoryKeeps ==
  ASSUME PackageInv, NEW c \in Clients, NEW n \in Names, remove_repository(c, n)
  PROVE  PackageInv'
<1> DEFINE db == client[c].db
           d == [m \in DOMAIN db \ {n} |-> db[m]]
<1>1. /\ client[c].pc = "ready" /\ lock = NoClient /\ n \in DOMAIN db /\ ~db[n].installed
      /\ Commit(c, d) /\ Becomes(c, Idle) /\ UNCHANGED <<sys, lock>>
  BY DEF remove_repository, Becomes, has_package
<1>2. Process(client[c]) /\ (unchecked \/ validate_package_tree(get_installed_packages(file)))
  BY <1>1, BeforeWork
<1>3. Database(db)
  BY <1>1, <1>2 DEF Process
<1> HIDE DEF db
<1>4. Database(d) /\ get_installed_packages(d) = get_installed_packages(db)
  BY <1>1, <1>3, InstalledOfRemoved
<1>5. DOMAIN d = DOMAIN db \ {n} /\ \A m \in DOMAIN d : d[m] = db[m]
  OBVIOUS
<1> HIDE DEF d
<1>6. unchecked' \/ validate_package_tree(get_installed_packages(d))
  <2>1. CASE Lost(db) = {}
    BY <1>1, <1>2, <1>4, <2>1, SameInstalled DEF Commit
  <2>2. CASE Lost(db) # {}
    BY <1>1, <2>2 DEF Commit, db
  <2> QED
    BY <2>1, <2>2
<1>7. \A m \in Names : /\ is_installed(d, m) <=> is_installed(db, m)
                       /\ is_installed(db, m) => d[m] = db[m]
  BY <1>1, <1>5 DEF is_installed, has_package
<1> QED
  BY Zenon, <1>1, <1>4, <1>6, <1>7, IdleProcess, CommitKeeps DEF db

\* Migration of a package: what it is to install or upgrade to.
LEMMA MigratedIsVersion ==
  ASSUME NEW d, Database(d), NEW n \in DOMAIN d, n \in DOMAIN OldPackages
  PROVE  MigratedVersion(d, n) \in Versions \cup {0}
  BY PackageAssumption DEF Database, SoundEntry, Entries, MigratedVersion

\* What is left to migrate once n is taken.
LEMMA Remaining ==
  ASSUME NEW me, Process(me), NEW n, NEW rest, rest = [me EXCEPT !.more = @ \ {n}]
  PROVE  /\ Process(rest) /\ rest.pc = me.pc /\ rest.db = me.db /\ rest.more \subseteq me.more
<1> DEFINE more == me.more \ {n}
<1>1. me = [pc |-> me.pc, db |-> me.db, name |-> me.name, entry |-> me.entry, todo |-> me.todo,
            undo |-> me.undo, more |-> me.more, ignored |-> me.ignored, edit |-> me.edit,
            rollback |-> me.rollback]
  BY DEF Process
<1>2. rest = [me EXCEPT !.more = more]
  OBVIOUS
<1>3. more \subseteq me.more
  OBVIOUS
<1> HIDE DEF more
<1>4. /\ rest.pc = me.pc /\ rest.db = me.db /\ rest.name = me.name /\ rest.entry = me.entry
      /\ rest.todo = me.todo /\ rest.undo = me.undo /\ rest.more = more /\ rest.ignored = me.ignored
      /\ rest.edit = me.edit /\ rest.rollback = me.rollback
      /\ rest = [pc |-> rest.pc, db |-> rest.db, name |-> rest.name, entry |-> rest.entry, todo |-> rest.todo,
                 undo |-> rest.undo, more |-> rest.more, ignored |-> rest.ignored, edit |-> rest.edit,
                 rollback |-> rest.rollback]
  BY <1>1, <1>2
<1> QED
  BY <1>3, <1>4 DEF Process

LEMMA MigratePackageKeeps ==
  ASSUME PackageInv, NEW c \in Clients, NEW n \in Names, migrate_package(c, n)
  PROVE  PackageInv'
<1> DEFINE me == client[c]
           rest == [me EXCEPT !.more = @ \ {n}]
           v == MigratedVersion(me.db, n)
           p == <<n, v>>
           no == FALSE
           off == "disabled"
           you == Rest(rest, me.db)
<1>1. me.pc = "migrate" /\ n \in me.more
  BY DEF migrate_package
<1>2. \/ /\ v # 0 /\ UNCHANGED lock
         /\ IF is_installed(me.db, n)
            THEN upgrade_from_source(c, rest, p, no, no, no, no, no)
            ELSE install_from_source(c, rest, p, no, off, no, no)
      \/ /\ Commit(c, me.db) /\ Becomes(c, you) /\ UNCHANGED sys
         /\ lock' = IF you.pc = "idle" THEN NoClient ELSE c
  BY DEF migrate_package, Becomes, Free
<1>3. lock = c
  BY <1>1 DEF PackageInv, LockHeld
<1>4. Process(me) /\ (unchecked \/ validate_package_tree(get_installed_packages(file)))
  BY <1>3, BeforeWork
<1>5. /\ Database(me.db) /\ n \in DOMAIN me.db /\ n \in DOMAIN OldPackages
      /\ me.more \subseteq DOMAIN OldPackages /\ me.more \subseteq DOMAIN me.db
  BY <1>1, <1>4 DEF Process
<1>6. /\ Process(rest) /\ rest.pc = "migrate" /\ rest.db = me.db /\ rest.more \subseteq me.more
  <2> HIDE DEF me
  <2> QED
    BY <1>1, <1>4, Remaining
<1>7. v \in Versions \cup {0}
  BY <1>5, MigratedIsVersion
<1>8. no \in BOOLEAN /\ ~no /\ off \in {"enabled", "disabled"}
  OBVIOUS
<1> HIDE DEF rest, v, no, off
<1>9. ASSUME v # 0, UNCHANGED lock, is_installed(me.db, n), upgrade_from_source(c, rest, p, no, no, no, no, no)
      PROVE  PackageInv'
  <2>1. p \in Packages
    BY <1>7, <1>9 DEF Packages
  <2> HIDE DEF p
  <2>2. (\E x : Begun(x) /\ Becomes(c, x)) /\ UNCHANGED <<file, sys, suspect, unchecked>>
    BY <1>6, <1>8, <1>9, <2>1, UpgradeBegins
  <2> QED
    BY <1>1, <1>3, <1>9, <2>2, BeginKeeps
<1>10. ASSUME v # 0, UNCHANGED lock, install_from_source(c, rest, p, no, off, no, no)
       PROVE  PackageInv'
  <2>1. p \in Packages
    BY <1>7, <1>10 DEF Packages
  <2> HIDE DEF p
  <2>2. (\E x : Begun(x) /\ Becomes(c, x)) /\ UNCHANGED <<file, sys, suspect, unchecked>>
    BY <1>6, <1>8, <1>10, <2>1, InstallBegins
  <2> QED
    BY <1>1, <1>3, <1>10, <2>2, BeginKeeps
<1>11. ASSUME Commit(c, me.db), Becomes(c, you), UNCHANGED sys, lock' = IF you.pc = "idle" THEN NoClient ELSE c
       PROVE  PackageInv'
  <2> DEFINE d == me.db
  <2>1. Process(you) /\ you.pc \in {"idle", "migrate"}
    <3>1. rest.more \subseteq DOMAIN OldPackages /\ rest.more \subseteq DOMAIN d /\ Database(d)
      BY <1>5, <1>6
    <3> HIDE DEF d
    <3>2. Process(Rest(rest, d)) /\ Rest(rest, d).pc \in {"idle", "migrate"}
      BY <3>1, RestProcess
    <3> QED
      BY <3>2 DEF d
  <2>2. unchecked' \/ validate_package_tree(get_installed_packages(d))
    <3>1. CASE Lost(d) = {}
      BY <1>4, <1>11, <3>1, SameInstalled DEF Commit
    <3>2. CASE Lost(d) # {}
      BY <1>11, <3>2 DEF Commit
    <3> QED
      BY <3>1, <3>2
  <2>3. Commit(c, d) /\ Database(d)
    BY <1>5, <1>11
  <2>4. d = client[c].db
    OBVIOUS
  <2> HIDE DEF you, d
  <2>5. \A m \in Names :
          (is_installed(d, m) <=> is_installed(client[c].db, m))
            /\ (is_installed(client[c].db, m) => d[m] = client[c].db[m])
    BY <2>4
  <2> QED
    BY <1>1, <1>3, <1>11, <2>1, <2>2, <2>3, <2>5, CommitKeeps
<1> QED
  BY <1>2, <1>9, <1>10, <1>11

---------------------------------------------------------------------------
\* The start, and every step.
LEMMA PackageStep ==
  ASSUME PackageInv, [PackagesNext]_packageVars
  PROVE  PackageInv'
<1>1. ASSUME NEW c \in Clients, get_manager(c) PROVE PackageInv'
  BY <1>1, ManagerKeeps
<1>2. ASSUME NEW c \in Clients, Command(c) PROVE PackageInv'
  <2>1. ASSUME NEW p \in Packages, NEW registry \in BOOLEAN, NEW enable \in BOOLEAN, NEW skip \in BOOLEAN,
               NEW down \in BOOLEAN, NEW force \in Forcing, install(c, p, registry, enable, skip, down, force)
        PROVE  PackageInv'
    <3>1. force \in BOOLEAN
      BY PackageAssumption
    <3> QED
      BY <2>1, <3>1, InstallKeeps
  <2>2. ASSUME NEW n \in Names, NEW skip \in BOOLEAN, NEW force \in Forcing,
               update(c, n, skip, force) \/ reset(c, n, skip, force)
        PROVE  PackageInv'
    <3>1. force \in BOOLEAN
      BY PackageAssumption
    <3> QED
      BY <2>2, <3>1, UpdateKeeps, ResetKeeps
  <2>3. ASSUME NEW n \in Names, NEW keep \in BOOLEAN, NEW force \in Forcing, uninstall(c, n, keep, force)
        PROVE  PackageInv'
    <3>1. force \in BOOLEAN
      BY PackageAssumption
    <3> QED
      BY <2>3, <3>1, UninstallKeeps
  <2>4. ASSUME NEW n \in Names, add_repository(c, n, DefaultVersion[n]) \/ remove_repository(c, n)
        PROVE  PackageInv'
    BY <2>4, AddRepositoryKeeps, RemoveRepositoryKeeps
  <2>5. ASSUME NEW n \in Names, migrate_package(c, n) PROVE PackageInv'
    BY <2>5, MigratePackageKeeps
  <2>6. ASSUME NEW n \in Names,
               \/ create_package_manifest(c, n) \/ update_package_manifest(c, n)
               \/ delete_package_manifest(c, n)
        PROVE  PackageInv'
    BY <2>6, ManifestKeeps
  <2>7. CASE Refused(c)
    BY <2>7, RefusedKeeps
  <2>8. CASE migrate_packages(c) \/ MigrationRefused(c)
    BY <2>8, MigratePackagesKeeps, MigrationRefusedKeeps
  <2>9. CASE CommandStep(c) \/ StepFails(c) \/ rollback(c)
    BY <2>9, CommandStepKeeps, StepFailsKeeps, RollbackKeeps
  <2>10. CASE Finish(c) \/ Failed(c) \/ Killed(c)
    BY <2>10, FinishKeeps, FailedKeeps, KilledKeeps
  <2> QED
    BY <1>2, <2>1, <2>2, <2>3, <2>4, <2>5, <2>6, <2>7, <2>8, <2>9, <2>10 DEF Command
<1>3. CASE UNCHANGED packageVars
  BY <1>3 DEF packageVars, PackageInv, PackageTypeOK, LockHeld, Healthy, AllSettled, Busy, FitAtEnd,
    DependenciesHold
<1> QED
  BY <1>1, <1>2, <1>3 DEF PackagesNext

LEMMA ListedRows ==
  ASSUME NEW S, NEW s, s.lists = UNION {Listed(<<n, 1>>) : n \in S}, NEW m
  PROVE  Rows(s, m) = IF m \in S THEN Listed(<<m, 1>>) ELSE {}
<1> DEFINE L(n) == Listed(<<n, 1>>)
<1>1. \A n : \A l \in L(n) : l[2] = n
  BY DEF Listed
<1>2. \A l : l \in s.lists <=> \E n \in S : l \in L(n)
  OBVIOUS
<1> HIDE DEF L
<1>3. \A l : l \in Rows(s, m) <=> l \in s.lists /\ l[2] = m
  BY DEF Rows
<1>4. ASSUME NEW l PROVE l \in Rows(s, m) <=> (m \in S /\ l \in L(m))
  <2>1. ASSUME l \in Rows(s, m) PROVE m \in S /\ l \in L(m)
    <3>1. PICK n \in S : l \in L(n)
      BY <1>2, <1>3, <2>1
    <3>2. l[2] = n /\ l[2] = m
      BY <1>1, <1>3, <2>1, <3>1
    <3> QED
      BY <3>1, <3>2
  <2>2. ASSUME m \in S, l \in L(m) PROVE l \in Rows(s, m)
    BY <1>1, <1>2, <1>3, <2>2
  <2> QED
    BY <2>1, <2>2
<1>5. Rows(s, m) = IF m \in S THEN L(m) ELSE {}
  BY <1>4
<1> QED
  BY <1>5 DEF L

LEMMA PackageStart ==
  ASSUME PackagesInit
  PROVE  PackageInv
<1> DEFINE there == BuiltIn \cup Earlier
           P(n) == <<n, 1>>
<1>1. /\ file = [n \in Known |-> IF n \in there THEN InstalledEntry(n) ELSE PackageEntry(DefaultVersion[n])]
      /\ sys.images = {ImageOf[P(n)] : n \in there}
      /\ sys.files = [n \in Names |-> IF n \in there THEN Made(P(n)) ELSE {}]
      /\ sys.lists = UNION {Listed(P(n)) : n \in there}
      /\ sys.features = [n \in Names |-> IF n \in BuiltIn THEN "enabled"
                                         ELSE IF n \in Earlier THEN "disabled" ELSE "none"]
      /\ DOMAIN sys.order = {"fast", "warm"} /\ Whole(sys)
      /\ lock = NoClient /\ client = [c \in Clients |-> Idle] /\ suspect = {} /\ unchecked = FALSE
  BY DEF PackagesInit, Whole
<1>2. there \subseteq Known /\ Known \subseteq Names /\ 1 \in Versions
  BY PackageAssumption
<1>3. \A n \in Known : SoundEntry(n, file[n]) /\ (n \in there => file[n].installed /\ file[n].version = 1)
                       /\ (n \notin there => ~file[n].installed)
  <2> TAKE n \in Known
  <2>1. P(n) \in Packages /\ DefaultVersion[n] \in Versions \cup {0}
    BY <1>2, PackageAssumption DEF Packages
  <2>2. CASE n \in there
    BY <1>1, <1>2, <2>1, <2>2 DEF InstalledEntry, SoundEntry, Entries
  <2>3. CASE n \notin there
    BY <1>1, <2>1, <2>3 DEF PackageEntry, SoundEntry, Entries
  <2> QED
    BY <2>2, <2>3
<1>4. Database(file)
  BY <1>1, <1>2, <1>3 DEF Database
<1>5. SystemRecord(sys)
  BY <1>1 DEF SystemRecord
<1>6. \A n \in Names : (is_installed(file, n) <=> n \in there) /\ (n \in there => file[n].version = 1)
  BY <1>1, <1>2, <1>3 DEF is_installed, has_package
<1>7. PackageTypeOK
  BY Zenon, <1>1, <1>4, <1>5, IdleProcess DEF PackageTypeOK
<1>8. \A c \in Clients : client[c].pc = "idle"
  BY Zenon, <1>1, IdleProcess
<1>9. LockHeld /\ Healthy /\ FitAtEnd
  BY <1>1, <1>8, PackageAssumption DEF LockHeld, Healthy, FitAtEnd
<1>10. \A n \in Names : Settled(sys, file, n)
  <2> TAKE n \in Names
  <2>1. Rows(sys, n) = IF n \in there THEN Listed(P(n)) ELSE {}
    BY <1>1, ListedRows
  <2>2. sys.features[n] = "none" <=> n \notin there
    BY <1>1
  <2>3. sys.files[n] = IF n \in there THEN Made(P(n)) ELSE {}
    BY <1>1
  <2>4. CASE n \in there
    <3>1. Status(file, n) = <<1, "some">>
      BY <1>6, <2>4 DEF Status
    <3>2. Serves(sys, n, <<1, "some">>)
      BY <2>1, <2>2, <2>3, <2>4 DEF Serves
    <3>3. Kept(sys, <<n, 1>>)
      BY <1>1, <2>4 DEF Kept
    <3> QED
      BY <1>6, <2>4, <3>1, <3>2, <3>3 DEF Settled
  <2>5. CASE n \notin there
    <3>1. Status(file, n) = <<0, "none">>
      BY <1>6, <2>5 DEF Status
    <3>2. Serves(sys, n, <<0, "none">>)
      BY <2>1, <2>2, <2>3, <2>5 DEF Serves
    <3> QED
      BY <1>6, <2>5, <3>1, <3>2 DEF Settled
  <2> QED
    BY <2>4, <2>5
<1>11. DependenciesHold
  <2>1. Installed(file) = there
    BY <1>1, <1>2, <1>3 DEF Installed
  <2>2. get_installed_packages(file) = {P(n) : n \in there}
    BY <1>2, <1>3, <2>1 DEF get_installed_packages, get_installed_package
  <2> QED
    BY <2>2, StartAssumption DEF DependenciesHold
<1> QED
  BY <1>7, <1>9, <1>10, <1>11 DEF PackageInv, AllSettled

---------------------------------------------------------------------------
\* The invariant holds in every state.
LEMMA PackagesInvariant == PackagesSpec => []PackageInv
<1>1. PackagesInit => PackageInv
  BY PackageStart
<1>2. PackageInv /\ [PackagesNext]_packageVars => PackageInv'
  BY PackageStep
<1> QED
  BY <1>1, <1>2, PTL DEF PackagesSpec

(* The packages packages.json says are installed satisfy each other's      *)
(* dependencies and conflicts in every state, whatever any number of       *)
(* processes of sonic-package-manager install, upgrade, reset, migrate and *)
(* remove, whichever step fails or process dies, unless a failed check was *)
(* ignored (--force) or a commit came from a copy of the file that had     *)
(* become old: validate_package_tree, over the versions a command is to    *)
(* leave, is checked before the first step and still holds at the commit.  *)
THEOREM PackagesFit == PackagesSpec => []DependenciesHold
<1>1. PackageInv => DependenciesHold
  BY DEF PackageInv
<1> QED
  BY <1>1, PackagesInvariant, PTL

(* What packages.json says of a package is what there is on the system:    *)
(* the files its service has in that version, its lines in the lists of    *)
(* the services it depends on, its row of FEATURE and its image, or none   *)
(* of the first three; also once the steps of an install or upgrade that   *)
(* failed are undone (install_from_source, upgrade_from_source).           *)
THEOREM PackagesComplete == PackagesSpec => []InstalledIsComplete
<1>1. ASSUME PackageInv, NEW n \in Names \ suspect
      PROVE  Busy(n) \/
             IF is_installed(file, n)
             THEN LET p == get_installed_package(file, n) IN
                  /\ sys.files[n] = Made(p) /\ sys.features[n] # "none"
                  /\ {l \in sys.lists : l[2] = n} = Listed(p)
                  /\ Shared(p) \/ ImageOf[p] \in sys.images
             ELSE /\ sys.files[n] = {} /\ sys.features[n] = "none"
                  /\ \A l \in sys.lists : l[2] # n
  <2>1. CASE Busy(n)
    BY <2>1
  <2>2. CASE Settled(sys, file, n) /\ is_installed(file, n)
    <3>1. Database(file) /\ 0 \notin Versions
      BY <1>1, PackageAssumption DEF PackageInv, PackageTypeOK
    <3>2. file[n].version \in Versions
      BY <2>2, <3>1 DEF Database, SoundEntry, is_installed, has_package
    <3>3. Serves(sys, n, <<file[n].version, "some">>) /\ Kept(sys, <<n, file[n].version>>)
      BY <2>2 DEF Settled, Status
    <3>4. /\ sys.files[n] = Made(<<n, file[n].version>>) /\ sys.features[n] # "none"
          /\ {l \in sys.lists : l[2] = n} = Listed(<<n, file[n].version>>)
      BY <3>1, <3>2, <3>3 DEF Serves, Rows
    <3> QED
      BY <2>2, <3>3, <3>4 DEF Kept, get_installed_package
  <2>3. CASE Settled(sys, file, n) /\ ~is_installed(file, n)
    <3>1. Serves(sys, n, <<0, "none">>)
      BY <2>3 DEF Settled, Status
    <3> QED
      BY <2>3, <3>1 DEF Serves, Rows
  <2> QED
    BY <1>1, <2>1, <2>2, <2>3 DEF PackageInv, AllSettled
<1>2. PackageInv => InstalledIsComplete
  BY <1>1 DEF InstalledIsComplete
<1> QED
  BY <1>2, PackagesInvariant, PTL

(***************************************************************************)
(* The images.                                                             *)
(***************************************************************************)
\* Sequences of steps, what they do, and an order of two verbs in them.
Listing(q) == \E S : q \in Seq(S)
Does(q) == {x[1] : x \in Range(q)}
Precedes(v, w, q) == \A j, k \in DOMAIN q : q[j][1] = v /\ q[k][1] = w => j < k

LEMMA ListingOne ==
  ASSUME NEW x
  PROVE  Listing(<<x>>) /\ Range(<<x>>) = {x} /\ <<x>> # <<>>
<1>1. <<x>> \in Seq({x}) /\ Len(<<x>>) = 1 /\ (<<x>>)[1] = x
  OBVIOUS
<1>2. Range(<<x>>) = {x}
  BY <1>1 DEF Range
<1> QED
  BY <1>1, <1>2 DEF Listing

LEMMA ListingTwo ==
  ASSUME NEW x, NEW y
  PROVE  Listing(<<x, y>>) /\ Range(<<x, y>>) = {x, y} /\ <<x, y>> # <<>>
<1>1. <<x, y>> \in Seq({x, y}) /\ Len(<<x, y>>) = 2 /\ (<<x, y>>)[1] = x /\ (<<x, y>>)[2] = y
  OBVIOUS
<1>2. Range(<<x, y>>) = {x, y}
  <2>1. DOMAIN <<x, y>> = {1, 2}
    OBVIOUS
  <2> QED
    BY <1>1, <2>1 DEF Range
<1> QED
  BY <1>1, <1>2 DEF Listing

LEMMA ListingNone == Listing(<<>>) /\ Range(<<>>) = {}
<1>1. <<>> \in Seq({})
  OBVIOUS
<1>2. Range(<<>>) = {}
  BY DEF Range
<1> QED
  BY <1>1, <1>2 DEF Listing

LEMMA ListingOn ==
  ASSUME NEW q, NEW r, Listing(q), Listing(r)
  PROVE  Listing(q \o r) /\ Range(q \o r) = Range(q) \cup Range(r)
<1>1. PICK S : q \in Seq(S)
  BY DEF Listing
<1>2. PICK T : r \in Seq(T)
  BY DEF Listing
<1>3. q \in Seq(S \cup T) /\ r \in Seq(S \cup T)
  BY <1>1, <1>2, SeqMonotonic
<1>4. q \o r \in Seq(S \cup T)
  BY <1>3, ConcatProperties
<1>5. Range(q \o r) = Range(q) \cup Range(r)
  BY <1>3, RangeConcatenation
<1> QED
  BY <1>4, <1>5 DEF Listing

LEMMA ListingFirst ==
  ASSUME NEW q, Listing(q), q # <<>>
  PROVE  /\ Listing(Tail(q)) /\ Range(q) = {Head(q)} \cup Range(Tail(q))
         /\ 1 \in DOMAIN q /\ q[1] = Head(q) /\ \A i \in DOMAIN Tail(q) : i \in Nat /\ i + 1 \in DOMAIN q /\ Tail(q)[i] = q[i + 1]
<1>1. PICK S : q \in Seq(S)
  BY DEF Listing
<1>2. /\ Tail(q) \in Seq(S) /\ Len(Tail(q)) = Len(q) - 1 /\ Len(q) \in Nat \ {0}
      /\ \A i \in 1..Len(Tail(q)) : Tail(q)[i] = q[i + 1]
  BY <1>1, HeadTailProperties, EmptySeq
<1>3. /\ DOMAIN q = 1..Len(q) /\ DOMAIN Tail(q) = 1..(Len(q) - 1) /\ Head(q) = q[1]
  BY <1>1, <1>2, LenProperties
<1> DEFINE r == Tail(q)
<1>4. \A i \in DOMAIN r : i \in Nat /\ i + 1 \in DOMAIN q /\ r[i] = q[i + 1]
  BY <1>2, <1>3
<1>5. \A i \in DOMAIN q : i = 1 \/ (i - 1 \in DOMAIN r /\ q[i] = r[i - 1])
  BY <1>2, <1>3
<1>6. 1 \in DOMAIN q
  BY <1>2, <1>3
<1>7. Range(q) = {q[1]} \cup Range(r)
  <2> HIDE DEF r
  <2> QED
    BY <1>4, <1>5, <1>6 DEF Range
<1> QED
  BY <1>1, <1>2, <1>3, <1>4, <1>6, <1>7 DEF Listing

LEMMA PrecedesTail ==
  ASSUME NEW q, Listing(q), q # <<>>, NEW v, NEW w, Precedes(v, w, q)
  PROVE  Precedes(v, w, Tail(q)) /\ (Head(q)[1] = w /\ v # w => v \notin Does(Tail(q)))
<1>1. /\ 1 \in DOMAIN q /\ q[1] = Head(q)
      /\ \A i \in DOMAIN Tail(q) : i \in Nat /\ i + 1 \in DOMAIN q /\ Tail(q)[i] = q[i + 1]
  BY ListingFirst
<1> DEFINE r == Tail(q)
<1>2. \A i \in DOMAIN r : i \in Nat /\ i + 1 \in DOMAIN q /\ r[i] = q[i + 1]
  BY <1>1
<1> HIDE DEF r
<1>3. Precedes(v, w, r)
  BY <1>2 DEF Precedes
<1>4. q[1][1] = w => v \notin Does(r)
  BY <1>1, <1>2 DEF Precedes, Does, Range
<1> QED
  BY <1>1, <1>3, <1>4 DEF r

LEMMA PrecedesFree ==
  ASSUME NEW q, NEW v, NEW w, v \notin Does(q) \/ w \notin Does(q)
  PROVE  Precedes(v, w, q)
  BY DEF Precedes, Does, Range

LEMMA PrecedesOn ==
  ASSUME NEW q, NEW r, Listing(q), Listing(r), NEW v, NEW w,
         Precedes(v, w, q), Precedes(v, w, r), w \notin Does(q) \/ v \notin Does(r)
  PROVE  Precedes(v, w, q \o r)
<1>1. PICK S : q \in Seq(S)
  BY DEF Listing
<1>2. PICK T : r \in Seq(T)
  BY DEF Listing
<1>3. /\ Len(q) \in Nat /\ Len(r) \in Nat /\ DOMAIN q = 1..Len(q) /\ DOMAIN r = 1..Len(r)
  BY <1>1, <1>2, LenProperties
<1>4. q \in Seq(S \cup T) /\ r \in Seq(S \cup T)
  BY <1>1, <1>2, SeqMonotonic
<1> DEFINE p == q \o r
<1>5. /\ DOMAIN p = 1..(Len(q) + Len(r))
      /\ \A i \in 1..(Len(q) + Len(r)) : p[i] = IF i <= Len(q) THEN q[i] ELSE r[i - Len(q)]
  BY <1>4, ConcatProperties, LenProperties
<1> HIDE DEF p
<1>6. ASSUME NEW j \in DOMAIN p, NEW k \in DOMAIN p, p[j][1] = v, p[k][1] = w
      PROVE  j < k
  <2>1. j \in 1..(Len(q) + Len(r)) /\ k \in 1..(Len(q) + Len(r))
    BY <1>5
  <2>2. CASE j <= Len(q) /\ k <= Len(q)
    <3>1. j \in DOMAIN q /\ k \in DOMAIN q /\ q[j][1] = v /\ q[k][1] = w
      BY <1>3, <1>5, <1>6, <2>1, <2>2
    <3> QED
      BY <3>1 DEF Precedes
  <2>3. CASE j <= Len(q) /\ ~(k <= Len(q))
    BY <1>3, <2>1, <2>3
  <2>4. CASE ~(j <= Len(q)) /\ k <= Len(q)
    <3>1. j - Len(q) \in DOMAIN r /\ k \in DOMAIN q /\ r[j - Len(q)][1] = v /\ q[k][1] = w
      BY <1>3, <1>5, <1>6, <2>1, <2>4
    <3> QED
      BY <3>1 DEF Does, Range
  <2>5. CASE ~(j <= Len(q)) /\ ~(k <= Len(q))
    <3>1. /\ j - Len(q) \in DOMAIN r /\ k - Len(q) \in DOMAIN r
          /\ r[j - Len(q)][1] = v /\ r[k - Len(q)][1] = w
      BY <1>3, <1>5, <1>6, <2>1, <2>5
    <3>2. j - Len(q) < k - Len(q)
      BY <3>1 DEF Precedes
    <3> QED
      BY <1>3, <2>1, <3>2
  <2> QED
    BY <2>2, <2>3, <2>4, <2>5
<1> QED
  BY <1>6 DEF Precedes, p

---------------------------------------------------------------------------
\* The state of the flash, of the db and of a command.
FlashRecord(f) ==
  f = [kind |-> f.kind, current |-> f.current, dirs |-> f.dirs, menu |-> f.menu, default |-> f.default,
       once |-> f.once, fips |-> f.fips, environment |-> f.environment, packages |-> f.packages,
       swap |-> f.swap, torn |-> f.torn]

DbRecord(e) == e = [db |-> e.db, secure |-> e.secure, updateFailed |-> e.updateFailed]

\* What is to come of the db once the steps q are done: they empty it, or
\* they do not, and they put certificates into it.
Coming(q) == UNION {AuthFiles[x[2]] : x \in {y \in Range(q) : y[1] = "append"}}
Base(e, q) == IF "remove_all" \in Does(q) THEN {} ELSE e.db
Signed(b, e, q) == \E c \in Signers[b] : c \in Base(e, q) \/ c \in Coming(q)

\* What holds of a menu of grub, the db and the steps of a command: a prune
\* is alone, and ends with a signer for every image; an image that is not
\* verified yet will be before it is installed.
PruneVerbs == {"remove_all", "append"}
PruneAlone(q) ==
  /\ Does(q) \cap PruneVerbs # {} => Does(q) \subseteq PruneVerbs /\ "append" \in Does(q)
  /\ Precedes("remove_all", "append", q)
InstallsAlone(q) ==
  /\ Precedes("verify", "installer", q)
  /\ "remove_image" \in Does(q) => "installer" \notin Does(q) /\ "verify" \notin Does(q)
Verified(q, i) == \E y \in Range(q) : y[1] = "verify" /\ y[2] = i
Guarded(e) == e.secure /\ ~e.updateFailed
Trusts(f, e, q) ==
  /\ Listing(f.menu) /\ Range(f.menu) \subseteq OsImages
  /\ PruneAlone(q) /\ InstallsAlone(q)
  /\ \A x \in Range(q) : x[1] = "installer" =>
       x[2] \in OsImages /\ (Guarded(e) => Verified(q, x[2]) \/ Signed(x[2], e, q))
  /\ Guarded(e) => \A b \in Range(f.menu) \cup {Shim} : Signed(b, e, q)

LEMMA PruneTail ==
  ASSUME NEW q, Listing(q), q # <<>>, PruneAlone(q)
  PROVE  PruneAlone(Tail(q))
<1>1. Range(q) = {Head(q)} \cup Range(Tail(q))
  BY ListingFirst
<1>2. Precedes("remove_all", "append", Tail(q)) /\ (Head(q)[1] = "append" => "remove_all" \notin Does(Tail(q)))
  BY PrecedesTail DEF PruneAlone
<1>3. Does(q) = {Head(q)[1]} \cup Does(Tail(q))
  BY <1>1 DEF Does
<1> QED
  BY <1>2, <1>3 DEF PruneAlone, PruneVerbs

LEMMA InstallsTail ==
  ASSUME NEW q, Listing(q), q # <<>>, InstallsAlone(q)
  PROVE  InstallsAlone(Tail(q)) /\ (Head(q)[1] = "installer" => "verify" \notin Does(q))
<1>1. Range(q) = {Head(q)} \cup Range(Tail(q))
  BY ListingFirst
<1>2. Precedes("verify", "installer", Tail(q)) /\ (Head(q)[1] = "installer" => "verify" \notin Does(Tail(q)))
  BY PrecedesTail DEF InstallsAlone
<1>3. Does(q) = {Head(q)[1]} \cup Does(Tail(q))
  BY <1>1 DEF Does
<1> QED
  BY <1>2, <1>3 DEF InstallsAlone

\* Outside a prune the signers that count are those in the db.
LEMMA SignedByDb ==
  ASSUME NEW q, Does(q) \cap PruneVerbs = {}, NEW e, NEW b
  PROVE  Signed(b, e, q) <=> \E c \in Signers[b] : c \in e.db
<1>1. Coming(q) = {} /\ Base(e, q) = e.db
  BY DEF Coming, Base, Does, PruneVerbs
<1> QED
  BY <1>1 DEF Signed

\* A step that is not of a prune, when the menu loses images or gains the one
\* that the step installs.
LEMMA TrustsOn ==
  ASSUME NEW f, NEW e, NEW q, Listing(q), q # <<>>, Trusts(f, e, q),
         Head(q)[1] \notin {"verify", "append", "remove_all"},
         NEW g, Listing(g.menu), NEW d, Guarded(d) => Guarded(e), e.db \subseteq d.db,
         \A i \in Range(g.menu) : i \in Range(f.menu) \/ (Head(q)[1] = "installer" /\ i = Head(q)[2])
  PROVE  Trusts(g, d, Tail(q))
<1> DEFINE r == Tail(q)
           x == Head(q)
<1>1. Range(q) = {x} \cup Range(r) /\ Listing(r)
  BY ListingFirst
<1>2. PruneAlone(r) /\ InstallsAlone(r) /\ (x[1] = "installer" => "verify" \notin Does(q))
  BY PruneTail, InstallsTail DEF Trusts
<1> HIDE DEF r, x
<1>3. x[1] \in Does(q) /\ x[1] \notin {"verify", "append", "remove_all"} /\ Does(r) \subseteq Does(q)
  BY <1>1 DEF Does, x
<1>4. Does(q) \cap PruneVerbs = {} /\ Does(r) \cap PruneVerbs = {}
  BY <1>3 DEF Trusts, PruneAlone, PruneVerbs
<1>5. \A b : Signed(b, e, q) => Signed(b, d, r)
  BY <1>4, SignedByDb
<1>6. \A i : Verified(q, i) => Verified(r, i)
  BY <1>1, <1>3 DEF Verified
<1>7. x[1] = "installer" => x[2] \in OsImages /\ (Guarded(e) => Signed(x[2], d, r))
  BY <1>1, <1>2, <1>5 DEF Trusts, Verified, Does
<1>8. \A y \in Range(r) : y[1] = "installer" =>
        y[2] \in OsImages /\ (Guarded(d) => Verified(r, y[2]) \/ Signed(y[2], d, r))
  BY <1>1, <1>5, <1>6 DEF Trusts
<1>9. Range(g.menu) \subseteq OsImages
  BY <1>7 DEF Trusts, x
<1>10. Guarded(d) => \A b \in Range(g.menu) \cup {Shim} : Signed(b, d, r)
  BY <1>5, <1>7 DEF Trusts, x
<1>11. Trusts(g, d, r)
  BY <1>2, <1>8, <1>9, <1>10 DEF Trusts
<1> QED
  BY <1>11 DEF r

\* A command that ends.
LEMMA TrustsEnd ==
  ASSUME NEW f, NEW e, NEW q, Trusts(f, e, q), NEW g, g.menu = f.menu, NEW d,
         Guarded(d) => Guarded(e) /\ e.db \subseteq d.db /\ Does(q) \cap PruneVerbs = {}
  PROVE  Trusts(g, d, <<>>)
<1>1. Listing(<<>>) /\ Range(<<>>) = {} /\ Does(<<>>) = {}
  BY ListingNone DEF Does
<1>2. PruneAlone(<<>>) /\ InstallsAlone(<<>>)
  BY <1>1, PrecedesFree DEF PruneAlone, InstallsAlone
<1>3. ASSUME Guarded(d), NEW b \in Range(g.menu) \cup {Shim} PROVE Signed(b, d, <<>>)
  <2>1. Signed(b, e, q)
    BY <1>3 DEF Trusts
  <2> QED
    BY <1>1, <1>3, <2>1, SignedByDb
<1> QED
  BY <1>1, <1>2, <1>3 DEF Trusts

\* Emptying the db, and filling it.
LEMMA TrustsRemoveAll ==
  ASSUME NEW f, NEW e, NEW q, Listing(q), q # <<>>, Trusts(f, e, q), Head(q)[1] = "remove_all",
         NEW d, d.db = {}, Guarded(d) => Guarded(e)
  PROVE  Trusts(f, d, Tail(q))
<1> DEFINE r == Tail(q)
           x == Head(q)
<1>1. Range(q) = {x} \cup Range(r) /\ PruneAlone(r) /\ InstallsAlone(r) /\ x[1] = "remove_all"
  BY ListingFirst, PruneTail, InstallsTail DEF Trusts
<1> HIDE DEF r, x
<1>2. /\ "remove_all" \in Does(q) /\ Does(q) = {x[1]} \cup Does(r)
  BY <1>1 DEF Does
<1>3. "installer" \notin Does(r)
  BY <1>2 DEF Trusts, PruneAlone, PruneVerbs
<1>4. Coming(q) = Coming(r) /\ Base(e, q) = {} /\ Base(d, r) = {}
  BY <1>1, <1>2 DEF Coming, Base
<1>5. \A b : Signed(b, e, q) => Signed(b, d, r)
  BY <1>4 DEF Signed
<1>6. Trusts(f, d, r)
  BY <1>1, <1>3, <1>5 DEF Trusts, Does
<1> QED
  BY <1>6 DEF r

LEMMA TrustsAppend ==
  ASSUME NEW f, NEW e, NEW q, Listing(q), q # <<>>, Trusts(f, e, q), Head(q)[1] = "append",
         NEW d, Guarded(d) => Guarded(e) /\ d.db = e.db \cup AuthFiles[Head(q)[2]]
  PROVE  Trusts(f, d, Tail(q))
<1> DEFINE r == Tail(q)
           x == Head(q)
<1>1. Range(q) = {x} \cup Range(r) /\ PruneAlone(r) /\ InstallsAlone(r) /\ x[1] = "append"
  BY ListingFirst, PruneTail, InstallsTail DEF Trusts
<1>2. "remove_all" \notin Does(r)
  BY PrecedesTail DEF Trusts, PruneAlone
<1>3. Guarded(d) => d.db = e.db \cup AuthFiles[x[2]]
  OBVIOUS
<1> HIDE DEF r, x
<1>4. Does(q) = {x[1]} \cup Does(r) /\ "remove_all" \notin Does(q)
  BY <1>1, <1>2 DEF Does
<1>5. "installer" \notin Does(r)
  BY <1>1, <1>4 DEF Trusts, PruneAlone, PruneVerbs
<1>6. Base(e, q) = e.db /\ Base(d, r) = d.db
  BY <1>2, <1>4 DEF Base
<1>7. \A c : c \in Coming(q) => c \in AuthFiles[x[2]] \/ c \in Coming(r)
  BY <1>1 DEF Coming
<1>8. Guarded(d) => Guarded(e) /\ \A b : Signed(b, e, q) => Signed(b, d, r)
  BY <1>3, <1>6, <1>7 DEF Signed
<1>9. Trusts(f, d, r)
  BY <1>1, <1>5, <1>8 DEF Trusts, Does
<1> QED
  BY <1>9 DEF r

\* The signature of an image is verified.
LEMMA TrustsVerify ==
  ASSUME NEW f, NEW e, NEW q, Listing(q), q # <<>>, Trusts(f, e, q), Head(q)[1] = "verify",
         \E c \in Signers[Head(q)[2]] : c \in e.db
  PROVE  Trusts(f, e, Tail(q))
<1> DEFINE r == Tail(q)
           x == Head(q)
<1>1. Range(q) = {x} \cup Range(r) /\ PruneAlone(r) /\ InstallsAlone(r) /\ x[1] = "verify"
  BY ListingFirst, PruneTail, InstallsTail DEF Trusts
<1>2. \E c \in Signers[x[2]] : c \in e.db
  OBVIOUS
<1> HIDE DEF r, x
<1>3. Does(q) = {x[1]} \cup Does(r)
  BY <1>1 DEF Does
<1>4. Does(q) \cap PruneVerbs = {} /\ Does(r) \cap PruneVerbs = {}
  BY <1>1, <1>3 DEF Trusts, PruneAlone, PruneVerbs
<1>5. Signed(x[2], e, r) /\ \A b : Signed(b, e, q) => Signed(b, e, r)
  BY <1>2, <1>4, SignedByDb
<1>6. \A i : Verified(q, i) => Verified(r, i) \/ i = x[2]
  BY <1>1 DEF Verified
<1>7. Trusts(f, e, r)
  BY <1>1, <1>5, <1>6 DEF Trusts
<1> QED
  BY <1>7 DEF r

---------------------------------------------------------------------------
\* Finite sets as sequences.
LEMMA SetToSeqsListing ==
  ASSUME NEW S, IsFiniteSet(S), NEW m \in SetToSeqs(S)
  PROVE  m \in Seq(S) /\ Range(m) \subseteq S /\ (S # {} => m # <<>>)
<1>1. Cardinality(S) \in Nat /\ (Cardinality(S) = 0 <=> S = {})
  BY FS_CardinalityType, FS_EmptySet
<1>2. m \in [1..Cardinality(S) -> S]
  BY DEF SetToSeqs
<1> DEFINE n == Cardinality(S)
<1> HIDE DEF n
<1>3. n \in Nat /\ m \in [1..n -> S] /\ (n = 0 <=> S = {})
  BY <1>1, <1>2 DEF n
<1>4. m \in Seq(S) /\ Len(m) = n
  BY <1>3, SeqDef, LenProperties
<1>5. Range(m) \subseteq S
  BY <1>3 DEF Range
<1> QED
  BY <1>3, <1>4, <1>5, EmptySeq

LEMMA SetToSeqListing ==
  ASSUME NEW S, IsFiniteSet(S)
  PROVE  SetToSeq(S) \in [1..Cardinality(S) -> S] /\ Range(SetToSeq(S)) = S
<1> DEFINE n == Cardinality(S)
           g == SetToSeq(S)
<1>1. n \in Nat /\ ExistsBijection(1..n, S)
  BY FS_CardinalityType
<1>2. \E h \in [1..n -> S] : IsInjective(h)
  BY <1>1 DEF ExistsBijection, Bijection, Injection
<1>3. g \in [1..n -> S] /\ IsInjective(g)
  BY <1>2 DEF SetToSeq
<1>4. IsFiniteSet(1..n) /\ Cardinality(1..n) = n
  BY <1>1, FS_Interval
<1>5. g \in Injection(1..n, S)
  BY <1>3 DEF Injection
<1>6. g \in Surjection(1..n, S)
  BY <1>4, <1>5, FS_Injection
<1>7. \A t \in S : \E s \in 1..n : g[s] = t
  BY <1>6 DEF Surjection
<1> HIDE DEF g, n
<1>8. Range(g) = S
  BY <1>3, <1>7 DEF Range
<1> QED
  BY <1>3, <1>8 DEF g, n

LEMMA FirstOf ==
  ASSUME NEW T, T \subseteq Nat, T # {}
  PROVE  \E n \in T : \A k \in T : n <= k
<1>1. IsWellFoundedOn(OpToRel(<, Nat), Nat)
  BY Zenon, NatLessThanWellFounded
<1>2. PICK n \in T : \A k \in T : ~(<<k, n>> \in OpToRel(<, Nat))
  BY Zenon, <1>1, WFMin
<1>3. \A k \in T : ~(k < n) /\ k \in Nat /\ n \in Nat
  BY <1>2 DEF OpToRel
<1> QED
  BY <1>3

\* The plan of a prune names .auth files, finitely many.
LEMMA AuthFilesFinite ==
  IsFiniteSet(DOMAIN AuthFiles) /\ DOMAIN AuthFiles \subseteq Nat
<1>1. Len(AuthFiles) \in Nat /\ DOMAIN AuthFiles = 1..Len(AuthFiles)
  BY InstallerAssumption, LenProperties
<1> QED
  BY <1>1, FS_Interval

LEMMA AuthFileOf ==
  ASSUME NEW c
  PROVE  build_auth_map(c) \subseteq DOMAIN AuthFiles
<1> DEFINE having == {a \in DOMAIN AuthFiles : c \in AuthFiles[a]}
           least == CHOOSE a \in having : \A b \in having : a <= b
<1>1. having \subseteq Nat
  BY AuthFilesFinite
<1>2. having # {} => \E a \in having : \A b \in having : a <= b
  <2> HIDE DEF having
  <2> QED
    BY <1>1, FirstOf
<1>3. having # {} => least \in having
  <2> HIDE DEF having
  <2> QED
    BY <1>2
<1>4. build_auth_map(c) = IF having = {} THEN {} ELSE {least}
  BY DEF build_auth_map
<1>5. having \subseteq DOMAIN AuthFiles
  OBVIOUS
<1> HIDE DEF having, least
<1> QED
  BY <1>3, <1>4, <1>5

\* The steps of a plan: what they do to the db.
LEMMA PlanSteps ==
  ASSUME NEW plan, IsFiniteSet(plan.selected), NEW q, q = apply_plan(plan)
  PROVE  /\ Listing(q) /\ q # <<>>
         /\ Does(q) = {"remove_all"} \cup (IF plan.selected = {} THEN {} ELSE {"append"})
         /\ Precedes("remove_all", "append", q)
         /\ Coming(q) = UNION {AuthFiles[a] : a \in plan.selected}
<1> DEFINE S == plan.selected
           n == Cardinality(S)
           g == SetToSeq(S)
           p == << <<"remove_all", NoImage>> >>
           r == [k \in 1..n |-> <<"append", g[k]>>]
           Y == {<<"append", a>> : a \in S}
<1>1. n \in Nat /\ g \in [1..n -> S] /\ Range(g) = S
  BY FS_CardinalityType, SetToSeqListing
<1>2. q = p \o r
  BY DEF apply_plan
<1>3. Listing(p) /\ Range(p) = { <<"remove_all", NoImage>> } /\ p # <<>>
  BY ListingOne
<1>4. r \in Seq(Y) /\ Range(r) = Y
  <2> HIDE DEF n, g, S
  <2>1. r \in [1..n -> Y]
    BY <1>1
  <2>2. \A y \in Y : \E k \in 1..n : y = r[k]
    BY <1>1 DEF Range
  <2> HIDE DEF r, Y
  <2>3. r \in Seq(Y)
    BY <1>1, <2>1, SeqDef
  <2> QED
    BY <2>1, <2>2, <2>3 DEF Range
<1>5. Listing(r)
  BY <1>4 DEF Listing
<1>6. Does(p) = {"remove_all"}
  BY <1>3 DEF Does
<1>0. (\A y \in Y : y[1] = "append" /\ y[2] \in S) /\ (S # {} => Y # {}) /\ (S = {} => Y = {})
      /\ \A a \in S : \E y \in Y : y[2] = a
  <2> HIDE DEF S
  <2>1. \A y \in Y : y[1] = "append" /\ y[2] \in S
    OBVIOUS
  <2>2. \A a \in S : <<"append", a>> \in Y /\ (<<"append", a>>)[2] = a
    OBVIOUS
  <2> HIDE DEF Y
  <2>3. \A a \in S : \E y \in Y : y[2] = a
    BY <2>2
  <2> QED
    BY <2>1, <2>3
<1>7. Does(r) = IF S = {} THEN {} ELSE {"append"}
  <2> HIDE DEF r, S, Y
  <2>1. CASE S = {}
    BY <1>4, <1>0, <2>1 DEF Does
  <2>2. CASE S # {}
    BY <1>4, <1>0, <2>2 DEF Does
  <2> QED
    BY <2>1, <2>2
<1> HIDE DEF p, r, S, n, g
<1>8. Listing(q) /\ Range(q) = Range(p) \cup Range(r)
  BY <1>2, <1>3, <1>5, ListingOn
<1>9. Precedes("remove_all", "append", q)
  <2>1. Precedes("remove_all", "append", p) /\ Precedes("remove_all", "append", r)
    BY <1>6, <1>7, PrecedesFree
  <2> QED
    BY <1>2, <1>3, <1>5, <1>6, <2>1, PrecedesOn
<1>10. Does(q) = {"remove_all"} \cup (IF S = {} THEN {} ELSE {"append"})
  BY <1>6, <1>7, <1>8 DEF Does
<1>11. {y \in Range(q) : y[1] = "append"} = Y
  BY <1>3, <1>4, <1>8
<1>12. Coming(q) = UNION {AuthFiles[a] : a \in S}
  <2> HIDE DEF Y
  <2>1. Coming(q) = UNION {AuthFiles[x[2]] : x \in Y}
    BY <1>11 DEF Coming
  <2> QED
    BY <1>0, <2>1
<1>13. q # <<>>
  BY <1>3, <1>8, ListingNone
<1> QED
  BY <1>8, <1>9, <1>10, <1>12, <1>13 DEF S

\* A prune of a menu whose images are all signed.
LEMMA PruneSteps ==
  ASSUME flash.kind = "grub", NEW q, Does(q) \cap PruneVerbs = {}, Trusts(flash, efi, q),
         NEW auto, NEW r, r = prune_db_certificates(auto)
  PROVE  Listing(r) /\ Trusts(flash, efi, r)
<1> DEFINE images == get_installed_images(flash)
           plan == analyze(efi.db, images)
<1>1. r = <<>> \/ (r = apply_plan(plan) /\ plan.at_risk = {})
  BY DEF prune_db_certificates
<1>2. CASE r = <<>>
  BY <1>2, ListingNone, TrustsEnd
<1>3. CASE r = apply_plan(plan) /\ plan.at_risk = {}
  <2> DEFINE records == [b \in images \cup {Shim} |-> Signers[b] \cap efi.db]
             used == UNION {records[b] : b \in DOMAIN records}
             reinstall == UNION {AuthFiles[a] : a \in plan.selected}
  <2>1. /\ plan.selected = UNION {build_auth_map(c) : c \in used}
        /\ plan.at_risk = check_boot_chain(records, reinstall)
    BY DEF analyze
  <2>2. images = Range(flash.menu)
    BY InstallerAssumption DEF get_installed_images, Trusts
  <2>3. plan.selected \subseteq DOMAIN AuthFiles
    <3> HIDE DEF plan, used
    <3> QED
      BY <2>1, AuthFileOf
  <2>4. IsFiniteSet(plan.selected)
    <3> HIDE DEF plan
    <3> QED
      BY <2>3, AuthFilesFinite, FS_Subset
  <2>5. \A b \in images \cup {Shim} : \E c \in Signers[b] : c \in reinstall
    <3>1. DOMAIN records = images \cup {Shim} /\ \A b \in images \cup {Shim} : records[b] \subseteq Signers[b]
      OBVIOUS
    <3> HIDE DEF records, reinstall, plan, images
    <3> QED
      BY <1>3, <2>1, <3>1 DEF check_boot_chain
  <2> HIDE DEF plan, images, records, used
  <2>6. plan.selected # {}
    BY <2>5
  <2>7. /\ Listing(r) /\ Does(r) = {"remove_all", "append"} /\ Precedes("remove_all", "append", r)
        /\ Coming(r) = reinstall
    BY <1>3, <2>4, <2>6, PlanSteps
  <2> HIDE DEF reinstall
  <2>8. PruneAlone(r) /\ InstallsAlone(r)
    BY <2>7, PrecedesFree DEF PruneAlone, InstallsAlone, PruneVerbs
  <2>9. \A b \in Range(flash.menu) \cup {Shim} : Signed(b, efi, r)
    BY <2>2, <2>5, <2>7 DEF Signed
  <2>10. \A x \in Range(r) : x[1] # "installer"
    BY <2>7 DEF Does
  <2> QED
    BY <2>7, <2>8, <2>9, <2>10 DEF Trusts
<1> QED
  BY <1>1, <1>2, <1>3

\* The members of a sequence are finitely many.
LEMMA ListingFinite ==
  ASSUME NEW q, Listing(q)
  PROVE  IsFiniteSet(Range(q))
<1>1. PICK S : q \in Seq(S)
  BY DEF Listing
<1> DEFINE n == Len(q)
<1>2. n \in Nat /\ q \in [1..n -> S]
  BY <1>1, LenProperties
<1>3. IsFiniteSet(1..n)
  BY <1>2, FS_Interval
<1> HIDE DEF n
<1>4. q \in Surjection(1..n, Range(q))
  BY <1>2 DEF Surjection, Range
<1> QED
  BY <1>3, <1>4, FS_Surjection

\* What is left of a menu.
LEMMA MenuOfListing ==
  ASSUME NEW f, Listing(f.menu), NEW K, NEW m \in MenuOf(f, K)
  PROVE  Listing(m) /\ Range(m) \subseteq Range(f.menu) \cap K
<1> DEFINE T == Range(f.menu) \cap K
<1>1. IsFiniteSet(T)
  BY ListingFinite, FS_Subset
<1>2. m \in SetToSeqs(T)
  BY DEF MenuOf
<1> HIDE DEF T
<1>3. m \in Seq(T) /\ Range(m) \subseteq T
  BY <1>1, <1>2, SetToSeqsListing
<1> QED
  BY <1>3 DEF Listing, T

\* A step that writes the flash keeps the loader and the running image; only
\* two of them write the menu.
FlashKept(f, v, x, g) ==
  /\ FlashRecord(g) /\ g.kind = f.kind /\ g.current = f.current
  /\ v \notin {"unlist", "installer"} => g.menu = f.menu
  /\ f.kind = "grub" /\ v = "unlist" => g.menu \in MenuOf(f, Range(f.menu) \ {x})
  /\ f.kind = "grub" /\ v = "installer" => \E keep : \E m \in MenuOf(f, keep) : g.menu = <<x>> \o m

LEMMA FlashKeeps ==
  ASSUME NEW f, FlashRecord(f), f.kind \in {"grub", "uboot", "bmc", "aboot"}, NEW v, NEW x, NEW g \in FlashEffects(f, v, x)
  PROVE  FlashKept(f, v, x, g)
<1> USE DEF FlashKept
<1>1. PICK k, c, ds, m, df, o, fi, en, pk, sw, to :
        f = [kind |-> k, current |-> c, dirs |-> ds, menu |-> m, default |-> df, once |-> o, fips |-> fi,
             environment |-> en, packages |-> pk, swap |-> sw, torn |-> to]
  BY DEF FlashRecord
<1>2. CASE v = "default"
  <2>1. g = [f EXCEPT !.default = x]
    BY <1>2 DEF FlashEffects
  <2> QED
    BY <1>1, <1>2, <2>1 DEF FlashRecord
<1>3. CASE v = "once"
  <2>1. g = [f EXCEPT !.once = x]
    BY <1>3 DEF FlashEffects
  <2> QED
    BY <1>1, <1>3, <2>1 DEF FlashRecord
<1>4. CASE v = "boot_config"
  <2>1. g = [f EXCEPT !.default = x, !.once = x]
    BY <1>4 DEF FlashEffects
  <2> QED
    BY <1>1, <1>4, <2>1 DEF FlashRecord
<1>5. CASE v = "unlist"
  <2>1. PICK w \in Unlisted(f, x) : g = [f EXCEPT !.menu = w]
    BY <1>5 DEF FlashEffects
  <2>2. f.kind = "grub" => w \in MenuOf(f, Range(f.menu) \ {x})
    BY <2>1 DEF Unlisted
  <2>3. g.menu = w /\ FlashRecord(g) /\ g.kind = f.kind /\ g.current = f.current
    BY <1>1, <2>1 DEF FlashRecord
  <2> QED
    BY <1>5, <2>2, <2>3
<1>6. CASE v = "rmdir"
  <2>1. g = [f EXCEPT !.dirs = @ \ {x}, !.environment = @ \ {x}, !.packages = @ \ {x}]
    BY <1>6 DEF FlashEffects
  <2> QED
    BY <1>1, <1>6, <2>1 DEF FlashRecord
<1>7. CASE v = "swapon"
  <2>1. g = f \/ g = [f EXCEPT !.swap = TRUE]
    BY <1>7 DEF FlashEffects, SWAPAllocator
  <2> QED
    BY <1>1, <1>7, <2>1 DEF FlashRecord
<1>8. CASE v = "swapoff"
  <2>1. g = [f EXCEPT !.swap = FALSE]
    BY <1>8 DEF FlashEffects, remove_swapmem
  <2> QED
    BY <1>1, <1>8, <2>1 DEF FlashRecord
<1>9. CASE v = "backup"
  <2>1. g = f
    BY <1>9 DEF FlashEffects
  <2> QED
    BY <1>1, <1>9, <2>1 DEF FlashRecord
<1>10. CASE v = "environment"
  <2>1. g = [f EXCEPT !.environment = @ \ {x}] \/ g = [f EXCEPT !.environment = @ \cup {x}]
    BY <1>10 DEF FlashEffects, update_sonic_environment
  <2> QED
    BY <1>1, <1>10, <2>1 DEF FlashRecord
<1>11. CASE v = "packages"
  <2>1. g = f \/ g = [f EXCEPT !.packages = @ \cup {x}]
    BY <1>11 DEF FlashEffects, migrate_sonic_packages
  <2> QED
    BY <1>1, <1>11, <2>1 DEF FlashRecord
<1>12. CASE v \in {"fips", "nofips"}
  <2>1. PICK S : g = [f EXCEPT !.fips = S]
    BY <1>12 DEF FlashEffects, loader_set_fips
  <2> QED
    BY <1>1, <1>12, <2>1 DEF FlashRecord
<1>13. CASE v = "installer"
  <2>1. g \in InstallerEffects(f, x)
    BY <1>13 DEF FlashEffects
  <2>2. CASE f.kind = "grub"
    <3>1. PICK keep : g \in {[f EXCEPT !.menu = <<x>> \o l, !.dirs = keep \cup {x}] : l \in MenuOf(f, keep)}
      BY Zenon, <2>1, <2>2 DEF InstallerEffects
    <3>2. PICK l \in MenuOf(f, keep) : g = [f EXCEPT !.menu = <<x>> \o l, !.dirs = keep \cup {x}]
      BY Zenon, <3>1
    <3> DEFINE w == <<x>> \o l
    <3>3. g = [f EXCEPT !.menu = w, !.dirs = keep \cup {x}]
      BY <3>2
    <3> HIDE DEF w
    <3>4. g.menu = w /\ FlashRecord(g) /\ g.kind = f.kind /\ g.current = f.current
      BY <1>1, <3>3 DEF FlashRecord
    <3> QED
      BY <1>13, <3>2, <3>4 DEF w
  <2>3. CASE f.kind \in {"uboot", "bmc"}
    <3>1. g = [f EXCEPT !.menu = <<x, f.current>>, !.default = 1, !.dirs = {x, f.current}]
      BY <2>1, <2>3 DEF InstallerEffects
    <3> QED
      BY <1>1, <1>13, <2>3, <3>1 DEF FlashRecord
  <2>4. CASE f.kind = "aboot"
    <3>1. g = [f EXCEPT !.dirs = @ \cup {x}, !.default = x, !.once = x]
      BY <2>1, <2>4 DEF InstallerEffects
    <3> QED
      BY <1>1, <1>13, <2>4, <3>1 DEF FlashRecord
  <2> QED
    BY <2>2, <2>3, <2>4
<1> QED
  BY <1>2, <1>3, <1>4, <1>5, <1>6, <1>7, <1>8, <1>9, <1>10, <1>11, <1>12, <1>13 DEF FlashEffects

\* Steps that install nothing, verify nothing and are not of a prune, or that
\* verify before they install.
CalmJob(e, q) ==
  /\ Does(q) \cap PruneVerbs = {} /\ InstallsAlone(q)
  /\ \A x \in Range(q) : x[1] = "installer" => x[2] \in OsImages /\ (Guarded(e) => Verified(q, x[2]))

LEMMA CalmOf ==
  ASSUME NEW e, NEW q, Does(q) \cap {"remove_all", "append", "installer", "verify"} = {}
  PROVE  CalmJob(e, q)
<1>1. InstallsAlone(q) /\ Does(q) \cap PruneVerbs = {}
  BY PrecedesFree DEF InstallsAlone, PruneVerbs
<1>2. \A x \in Range(q) : x[1] # "installer"
  BY DEF Does
<1> QED
  BY <1>1, <1>2 DEF CalmJob

LEMMA TrustsCalm ==
  ASSUME NEW f, NEW e, NEW p, Trusts(f, e, p), Does(p) \cap PruneVerbs = {}, NEW q, CalmJob(e, q)
  PROVE  Trusts(f, e, q)
<1>1. PruneAlone(q)
  BY PrecedesFree DEF CalmJob, PruneAlone, PruneVerbs
<1>2. \A b : Signed(b, e, p) => Signed(b, e, q)
  BY SignedByDb DEF CalmJob
<1> QED
  BY <1>1, <1>2 DEF Trusts, CalmJob

\* A verb that occurs once.
Sole(v, q) == \A j, k \in DOMAIN q : q[j][1] = v /\ q[k][1] = v => j = k

LEMMA SoleTail ==
  ASSUME NEW q, Listing(q), q # <<>>, NEW v, Sole(v, q)
  PROVE  Sole(v, Tail(q)) /\ (Head(q)[1] = v => v \notin Does(Tail(q)))
<1>1. /\ 1 \in DOMAIN q /\ q[1] = Head(q)
      /\ \A i \in DOMAIN Tail(q) : i \in Nat /\ i + 1 \in DOMAIN q /\ Tail(q)[i] = q[i + 1]
  BY ListingFirst
<1>0. \A i \in DOMAIN Tail(q) : i >= 1
  BY ListingFirst, LenProperties DEF Listing
<1> DEFINE r == Tail(q)
<1>2. \A i \in DOMAIN r : i \in Nat /\ i >= 1 /\ i + 1 \in DOMAIN q /\ r[i] = q[i + 1]
  BY <1>0, <1>1
<1> HIDE DEF r
<1>3. Sole(v, r)
  <2> SUFFICES ASSUME NEW j \in DOMAIN r, NEW k \in DOMAIN r, r[j][1] = v, r[k][1] = v
               PROVE  j = k
    BY DEF Sole
  <2>1. j + 1 = k + 1
    BY <1>2 DEF Sole
  <2> QED
    BY <1>2, <2>1
<1>4. ASSUME q[1][1] = v, v \in Does(r)
      PROVE  FALSE
  <2>1. PICK k \in DOMAIN r : r[k][1] = v
    BY <1>4 DEF Does, Range
  <2>2. k + 1 = 1
    BY <1>1, <1>2, <1>4, <2>1 DEF Sole
  <2> QED
    BY <1>2, <2>2
<1> QED
  BY <1>1, <1>3, <1>4 DEF r

LEMMA SoleFree ==
  ASSUME NEW q, NEW v, v \notin Does(q)
  PROVE  Sole(v, q)
  BY DEF Sole, Does, Range

LEMMA SoleOn ==
  ASSUME NEW q, NEW r, Listing(q), Listing(r), NEW v, Sole(v, q), Sole(v, r), v \notin Does(q) \/ v \notin Does(r)
  PROVE  Sole(v, q \o r)
<1>1. PICK S : q \in Seq(S)
  BY DEF Listing
<1>2. PICK T : r \in Seq(T)
  BY DEF Listing
<1>3. /\ Len(q) \in Nat /\ Len(r) \in Nat /\ DOMAIN q = 1..Len(q) /\ DOMAIN r = 1..Len(r)
  BY <1>1, <1>2, LenProperties
<1>4. q \in Seq(S \cup T) /\ r \in Seq(S \cup T)
  BY <1>1, <1>2, SeqMonotonic
<1> DEFINE p == q \o r
<1>5. /\ DOMAIN p = 1..(Len(q) + Len(r))
      /\ \A i \in 1..(Len(q) + Len(r)) : p[i] = IF i <= Len(q) THEN q[i] ELSE r[i - Len(q)]
  BY <1>4, ConcatProperties, LenProperties
<1> HIDE DEF p
<1>6. ASSUME NEW j \in DOMAIN p, NEW k \in DOMAIN p, p[j][1] = v, p[k][1] = v
      PROVE  j = k
  <2>1. j \in 1..(Len(q) + Len(r)) /\ k \in 1..(Len(q) + Len(r))
    BY <1>5
  <2>2. CASE j <= Len(q) /\ k <= Len(q)
    <3>1. j \in DOMAIN q /\ k \in DOMAIN q /\ q[j][1] = v /\ q[k][1] = v
      BY <1>3, <1>5, <1>6, <2>1, <2>2
    <3> QED
      BY <3>1 DEF Sole
  <2>3. CASE j <= Len(q) /\ ~(k <= Len(q))
    <3>1. j \in DOMAIN q /\ k - Len(q) \in DOMAIN r /\ q[j][1] = v /\ r[k - Len(q)][1] = v
      BY <1>3, <1>5, <1>6, <2>1, <2>3
    <3> QED
      BY <3>1 DEF Does, Range
  <2>4. CASE ~(j <= Len(q)) /\ k <= Len(q)
    <3>1. j - Len(q) \in DOMAIN r /\ k \in DOMAIN q /\ r[j - Len(q)][1] = v /\ q[k][1] = v
      BY <1>3, <1>5, <1>6, <2>1, <2>4
    <3> QED
      BY <3>1 DEF Does, Range
  <2>5. CASE ~(j <= Len(q)) /\ ~(k <= Len(q))
    <3>1. /\ j - Len(q) \in DOMAIN r /\ k - Len(q) \in DOMAIN r
          /\ r[j - Len(q)][1] = v /\ r[k - Len(q)][1] = v
      BY <1>3, <1>5, <1>6, <2>1, <2>5
    <3>2. j - Len(q) = k - Len(q)
      BY <3>1 DEF Sole
    <3> QED
      BY <1>3, <2>1, <3>2
  <2> QED
    BY <2>2, <2>3, <2>4, <2>5
<1> QED
  BY <1>6 DEF Sole, p

\* A step at the end of a job.
LEMMA OneMore ==
  ASSUME NEW s, Listing(s), NEW p, Listing(p), Precedes("verify", "installer", s), "verify" \notin Does(p),
         Sole("installer", s), Sole("installer", p), "installer" \notin Does(s) \/ "installer" \notin Does(p)
  PROVE  /\ Listing(s \o p) /\ Precedes("verify", "installer", s \o p)
         /\ Range(s \o p) = Range(s) \cup Range(p) /\ Sole("installer", s \o p)
<1>1. Precedes("verify", "installer", p)
  BY PrecedesFree
<1> QED
  BY <1>1, ListingOn, PrecedesOn, SoleOn

LEMMA MaybeStep ==
  ASSUME NEW v, NEW x, NEW p, p = << <<v, x>> >> \/ p = <<>>
  PROVE  Listing(p) /\ Range(p) \subseteq { <<v, x>> } /\ Does(p) \subseteq {v}
<1>1. Listing(p) /\ Range(p) \subseteq { <<v, x>> }
  BY ListingOne, ListingNone
<1> QED
  BY <1>1 DEF Does

\* What an installation does.
SignSteps(i) == { <<"enroll", i>>, <<"verify", i>> }
InstallWrites(i) == { <<"swapon", i>>, <<"installer", i>>, <<"default", 1>>, <<"once", NoImage>>, <<"swapoff", i>>,
                     <<"backup", i>>, <<"environment", i>>, <<"packages", i>> }

LEMMA LoaderInstalls ==
  ASSUME NEW f, f.kind \in {"grub", "bmc"}, NEW i, NEW p, p = loader_install_image(f, i)
  PROVE  /\ Listing(p) /\ <<"installer", i>> \in Range(p) /\ "verify" \notin Does(p)
         /\ Range(p) \subseteq { <<"installer", i>>, <<"default", 1>>, <<"once", NoImage>> }
         /\ f.kind = "bmc" => \A y \in Range(p) : y[1] # "default"
         /\ Sole("installer", p)
<1> DEFINE a == << <<"installer", i>> >>
           b == IF f.kind = "grub" THEN << <<"default", 1>> >> ELSE << <<"once", NoImage>> >>
<1>1. p = a \o b
  BY DEF loader_install_image
<1>2. Listing(a) /\ Range(a) = { <<"installer", i>> }
  BY ListingOne
<1>3. Listing(b) /\ Range(b) = (IF f.kind = "grub" THEN { <<"default", 1>> } ELSE { <<"once", NoImage>> })
  BY ListingOne
<1> HIDE DEF a, b
<1>4. Listing(p) /\ Range(p) = Range(a) \cup Range(b)
  BY <1>1, <1>2, <1>3, ListingOn
<1>5. "installer" \notin Does(b)
  BY <1>3 DEF Does
<1>6. Sole("installer", a)
  <2>1. DOMAIN a = {1}
    BY DEF a
  <2> QED
    BY <2>1 DEF Sole
<1>7. Sole("installer", p)
  BY <1>1, <1>2, <1>3, <1>5, <1>6, SoleFree, SoleOn
<1>8. \A y \in Range(p) : y[1] # "verify" /\ (f.kind = "bmc" => y[1] # "default")
  <2>1. \A y \in Range(p) : y = <<"installer", i>> \/ (f.kind = "grub" /\ y = <<"default", 1>>) \/ y = <<"once", NoImage>>
    BY <1>2, <1>3, <1>4
  <2>2. "grub" # "bmc"
    OBVIOUS
  <2> QED
    BY <2>1, <2>2
<1>9. <<"installer", i>> \in Range(p) /\ Range(p) \subseteq { <<"installer", i>>, <<"default", 1>>, <<"once", NoImage>> }
  BY <1>2, <1>3, <1>4
<1>10. "verify" \notin Does(p)
  BY <1>8 DEF Does
<1> QED
  BY <1>4, <1>7, <1>8, <1>9, <1>10

InstallList(f, i, secure, swap, backup, migrate) ==
  (IF f.kind = "grub" /\ secure THEN << <<"enroll", i>>, <<"verify", i>> >> ELSE <<>>) \o
  (IF swap THEN << <<"swapon", i>> >> ELSE <<>>) \o
  loader_install_image(f, i) \o << <<"swapoff", i>> >> \o
  (IF backup THEN << <<"backup", i>> >> ELSE <<>>) \o
  << <<"environment", i>> >> \o
  (IF migrate THEN << <<"packages", i>> >> ELSE <<>>)

LEMMA InstallJob ==
  ASSUME NEW f, f.kind \in {"grub", "bmc"}, NEW i, NEW secure, NEW swap, NEW backup, NEW migrate,
         NEW q,
         q = InstallList(f, i, secure, swap, backup, migrate)
  PROVE  /\ Listing(q) /\ q # <<>> /\ Precedes("verify", "installer", q)
         /\ Range(q) \subseteq SignSteps(i) \cup InstallWrites(i)
         /\ f.kind = "grub" /\ secure => <<"verify", i>> \in Range(q)
         /\ f.kind = "bmc" => \A y \in Range(q) : y[1] \notin {"default", "enroll", "verify"}
         /\ Sole("installer", q)
<1> DEFINE p1 == IF f.kind = "grub" /\ secure THEN << <<"enroll", i>>, <<"verify", i>> >> ELSE <<>>
           p2 == IF swap THEN << <<"swapon", i>> >> ELSE <<>>
           p3 == loader_install_image(f, i)
           p4 == << <<"swapoff", i>> >>
           p5 == IF backup THEN << <<"backup", i>> >> ELSE <<>>
           p6 == << <<"environment", i>> >>
           p7 == IF migrate THEN << <<"packages", i>> >> ELSE <<>>
<1>1. /\ Listing(p1) /\ Range(p1) \subseteq SignSteps(i)
      /\ (f.kind = "grub" /\ secure => <<"verify", i>> \in Range(p1))
      /\ (f.kind = "bmc" => Range(p1) = {})
  <2> DEFINE a == << <<"enroll", i>>, <<"verify", i>> >>
  <2>1. Listing(a) /\ Range(a) = SignSteps(i)
    BY ListingTwo DEF SignSteps
  <2>2. p1 = IF f.kind = "grub" /\ secure THEN a ELSE <<>>
    OBVIOUS
  <2> HIDE DEF a, p1
  <2> QED
    BY <2>1, <2>2, ListingNone DEF SignSteps
<1>2. Listing(p2) /\ Range(p2) \subseteq { <<"swapon", i>> } /\ Does(p2) \subseteq {"swapon"}
  <2>1. p2 = << <<"swapon", i>> >> \/ p2 = <<>>
    OBVIOUS
  <2> HIDE DEF p2
  <2>2. Listing(p2) /\ Range(p2) \subseteq { <<"swapon", i>> } /\ Does(p2) \subseteq {"swapon"}
    BY <2>1, MaybeStep
  <2> QED
    BY <2>2
<1>3. /\ Listing(p3) /\ <<"installer", i>> \in Range(p3) /\ "verify" \notin Does(p3)
      /\ Range(p3) \subseteq { <<"installer", i>>, <<"default", 1>>, <<"once", NoImage>> }
      /\ (f.kind = "bmc" => \A y \in Range(p3) : y[1] # "default")
      /\ Sole("installer", p3)
  BY LoaderInstalls
<1>4. Listing(p4) /\ Range(p4) = { <<"swapoff", i>> }
  BY ListingOne
<1>5. Listing(p5) /\ Range(p5) \subseteq { <<"backup", i>> } /\ Does(p5) \subseteq {"backup"}
  <2>1. p5 = << <<"backup", i>> >> \/ p5 = <<>>
    OBVIOUS
  <2> HIDE DEF p5
  <2>2. Listing(p5) /\ Range(p5) \subseteq { <<"backup", i>> } /\ Does(p5) \subseteq {"backup"}
    BY <2>1, MaybeStep
  <2> QED
    BY <2>2
<1>6. Listing(p6) /\ Range(p6) = { <<"environment", i>> }
  BY ListingOne
<1>7. Listing(p7) /\ Range(p7) \subseteq { <<"packages", i>> } /\ Does(p7) \subseteq {"packages"}
  <2>1. p7 = << <<"packages", i>> >> \/ p7 = <<>>
    OBVIOUS
  <2> HIDE DEF p7
  <2>2. Listing(p7) /\ Range(p7) \subseteq { <<"packages", i>> } /\ Does(p7) \subseteq {"packages"}
    BY <2>1, MaybeStep
  <2> QED
    BY <2>2
<1>8. q = p1 \o p2 \o p3 \o p4 \o p5 \o p6 \o p7
  BY DEF InstallList
<1> HIDE DEF p1, p2, p3, p4, p5, p6, p7
<1>9. /\ Does(p1) \subseteq {"enroll", "verify"} /\ Does(p4) \subseteq {"swapoff"} /\ Does(p6) \subseteq {"environment"}
  <2>1. /\ \A y \in Range(p1) : y[1] \in {"enroll", "verify"}
        /\ \A y \in Range(p4) : y[1] = "swapoff"
        /\ \A y \in Range(p6) : y[1] = "environment"
    BY <1>1, <1>4, <1>6 DEF SignSteps
  <2> QED
    BY <2>1 DEF Does
<1>10. /\ Precedes("verify", "installer", p1) /\ Sole("installer", p1) /\ Sole("installer", p2)
       /\ Sole("installer", p4) /\ Sole("installer", p5) /\ Sole("installer", p6) /\ Sole("installer", p7)
  BY <1>2, <1>5, <1>7, <1>9, PrecedesFree, SoleFree
<1> DEFINE s2 == p1 \o p2
           s3 == s2 \o p3
           s4 == s3 \o p4
           s5 == s4 \o p5
           s6 == s5 \o p6
           s7 == s6 \o p7
<1>20. q = s7
  BY <1>8
<1>12. /\ Listing(s2) /\ Precedes("verify", "installer", s2) /\ Range(s2) = Range(p1) \cup Range(p2)
       /\ Sole("installer", s2)
  BY <1>1, <1>2, <1>9, <1>10, OneMore
<1> HIDE DEF s2
<1>11. "installer" \notin Does(s2)
  BY <1>2, <1>9, <1>12 DEF Does
<1>13. /\ Listing(s3) /\ Precedes("verify", "installer", s3) /\ Range(s3) = Range(s2) \cup Range(p3)
       /\ Sole("installer", s3)
  BY <1>3, <1>11, <1>12, OneMore
<1> HIDE DEF s3
<1>14. /\ Listing(s4) /\ Precedes("verify", "installer", s4) /\ Range(s4) = Range(s3) \cup Range(p4)
       /\ Sole("installer", s4)
  BY <1>13, <1>4, <1>9, <1>10, OneMore
<1> HIDE DEF s4
<1>15. /\ Listing(s5) /\ Precedes("verify", "installer", s5) /\ Range(s5) = Range(s4) \cup Range(p5)
       /\ Sole("installer", s5)
  BY <1>14, <1>5, <1>10, OneMore
<1> HIDE DEF s5
<1>16. /\ Listing(s6) /\ Precedes("verify", "installer", s6) /\ Range(s6) = Range(s5) \cup Range(p6)
       /\ Sole("installer", s6)
  BY <1>15, <1>6, <1>9, <1>10, OneMore
<1> HIDE DEF s6
<1>17. /\ Listing(s7) /\ Precedes("verify", "installer", s7) /\ Range(s7) = Range(s6) \cup Range(p7)
       /\ Sole("installer", s7)
  BY <1>16, <1>7, <1>10, OneMore
<1> HIDE DEF s7
<1>18. Range(s7) \subseteq SignSteps(i) \cup InstallWrites(i)
  <2>1. /\ Range(p2) \subseteq InstallWrites(i) /\ Range(p3) \subseteq InstallWrites(i)
        /\ Range(p4) \subseteq InstallWrites(i) /\ Range(p5) \subseteq InstallWrites(i)
        /\ Range(p6) \subseteq InstallWrites(i) /\ Range(p7) \subseteq InstallWrites(i)
    BY <1>2, <1>3, <1>4, <1>5, <1>6, <1>7 DEF InstallWrites
  <2> QED
    BY <1>1, <1>12, <1>13, <1>14, <1>15, <1>16, <1>17, <2>1
<1>19. f.kind = "grub" /\ secure => <<"verify", i>> \in Range(s7)
  BY <1>1, <1>12, <1>13, <1>14, <1>15, <1>16, <1>17
<1>21. s7 # <<>>
  BY <1>3, <1>13, <1>14, <1>15, <1>16, <1>17, ListingNone
<1>22. ASSUME f.kind = "bmc", NEW y \in Range(s7)
       PROVE  y[1] \notin {"default", "enroll", "verify"}
  <2>1. \/ y \in Range(p3)
        \/ y \in { <<"swapon", i>>, <<"swapoff", i>>, <<"backup", i>>, <<"environment", i>>, <<"packages", i>> }
    BY <1>1, <1>2, <1>4, <1>5, <1>6, <1>7, <1>12, <1>13, <1>14, <1>15, <1>16, <1>17, <1>22
  <2> QED
    BY <1>3, <1>22, <2>1
<1> QED
  BY <1>17, <1>18, <1>19, <1>20, <1>21, <1>22

---------------------------------------------------------------------------
\* The records that the flash, the db and the command are.
ImagesRecords ==
  /\ FlashRecord(flash) /\ flash.kind \in {"grub", "uboot", "bmc", "aboot"} /\ DbRecord(efi)
  /\ job = [steps |-> job.steps, image |-> job.image]

\* The invariant of grub: the steps that are left end with a signer for every
\* image of the menu and for the boot loader.
ChainInv ==
  flash.kind = "grub" =>
    /\ Listing(job.steps) /\ (job # NoJob => job.steps # <<>>)
    /\ Trusts(flash, efi, job.steps)

LEMMA ChainStart ==
  ASSUME InstallerInit
  PROVE  ImagesRecords /\ ChainInv
<1>1. PICK k \in Loaders :
        flash = [kind |-> k, current |-> FirstImage, dirs |-> {FirstImage},
                 menu |-> IF k \in {"uboot", "bmc"} THEN <<FirstImage, NoImage>> ELSE <<FirstImage>>,
                 default |-> IF k = "aboot" THEN FirstImage ELSE 1,
                 once |-> IF k = "aboot" THEN FirstImage ELSE NoImage,
                 fips |-> {}, environment |-> {}, packages |-> {}, swap |-> FALSE, torn |-> FALSE]
  BY Zenon DEF InstallerInit
<1>2. /\ FlashRecord(flash) /\ flash.kind = k
      /\ (k = "grub" => flash.menu = <<FirstImage>>)
  BY <1>1 DEF FlashRecord
<1>3. PICK db \in FirstDbs : \E secure \in BOOLEAN :
        efi = [db |-> db, secure |-> secure /\ flash.kind = "grub", updateFailed |-> FALSE]
  BY Zenon DEF InstallerInit
<1>4. DbRecord(efi) /\ efi.db = db
  BY <1>3 DEF DbRecord
<1>5. job = [steps |-> <<>>, image |-> NoImage] /\ job.steps = <<>> /\ job = NoJob
  BY Zenon DEF InstallerInit, NoJob
<1>6. ImagesRecords
  BY <1>2, <1>4, <1>5, InstallerAssumption DEF ImagesRecords
<1>7. ASSUME flash.kind = "grub"
      PROVE  Trusts(flash, efi, <<>>)
  <2>1. Listing(flash.menu) /\ Range(flash.menu) = {FirstImage}
    BY <1>2, <1>7, ListingOne
  <2>2. Range(<<>>) = {} /\ Does(<<>>) = {}
    BY ListingNone DEF Does
  <2>3. PruneAlone(<<>>) /\ InstallsAlone(<<>>)
    BY <2>2, PrecedesFree DEF PruneAlone, InstallsAlone
  <2>4. \A b \in {FirstImage, Shim} : Signers[b] \cap efi.db # {}
    BY <1>3, <1>4, InstallerAssumption
  <2>5. \A b \in {FirstImage, Shim} : Signed(b, efi, <<>>)
    BY <2>2, <2>4, SignedByDb
  <2> QED
    BY <2>1, <2>2, <2>3, <2>5, InstallerAssumption DEF Trusts
<1> QED
  BY <1>5, <1>6, <1>7, ListingNone DEF ChainInv

LEMMA GivenJob ==
  ASSUME NEW i, NEW q, Give(i, q)
  PROVE  /\ job = NoJob /\ job.steps = <<>> /\ flash' = flash /\ efi' = efi
         /\ job' = [steps |-> job'.steps, image |-> job'.image] /\ job'.steps = q /\ job'.image = i
<1>1. job = NoJob /\ job' = [steps |-> q, image |-> i] /\ flash' = flash /\ efi' = efi
  BY DEF Give
<1>2. job.steps = <<>> /\ job'.steps = q /\ job'.image = i
  BY <1>1 DEF NoJob
<1> QED
  BY <1>1, <1>2

LEMMA ContinuedJob ==
  ASSUME ImagesRecords, NEW q, Continue(q)
  PROVE  /\ job' = [steps |-> job'.steps, image |-> job'.image] /\ job'.steps = q
         /\ (job' # NoJob => q # <<>>) /\ (q # <<>> => job'.image = job.image)
<1>1. PICK s, i : job = [steps |-> s, image |-> i]
  BY DEF ImagesRecords
<1>2. job' = IF q = <<>> THEN NoJob ELSE [job EXCEPT !.steps = q]
  BY DEF Continue
<1>3. CASE q = <<>>
  BY <1>2, <1>3 DEF NoJob
<1>4. CASE q # <<>>
  <2>1. job' = [steps |-> q, image |-> i]
    BY <1>1, <1>2, <1>4
  <2> QED
    BY <1>1, <1>4, <2>1
<1> QED
  BY <1>3, <1>4

LEMMA GiveChain ==
  ASSUME ImagesRecords, ChainInv, NEW i, NEW q, Give(i, q),
         flash.kind = "grub" => Listing(q) /\ q # <<>> /\ CalmJob(efi, q)
  PROVE  ImagesRecords' /\ ChainInv'
<1>1. /\ job = NoJob /\ job.steps = <<>> /\ flash' = flash /\ efi' = efi
      /\ job' = [steps |-> job'.steps, image |-> job'.image] /\ job'.steps = q
  BY GivenJob
<1>2. ImagesRecords'
  BY <1>1 DEF ImagesRecords
<1>3. Does(<<>>) = {}
  BY ListingNone DEF Does
<1>4. flash.kind = "grub" => Trusts(flash, efi, q)
  BY <1>1, <1>3, TrustsCalm DEF ChainInv
<1> QED
  BY <1>1, <1>2, <1>4 DEF ChainInv

LEMMA CommandChain ==
  ASSUME ImagesRecords, ChainInv, ImageCommand
  PROVE  ImagesRecords' /\ ChainInv'
<1> DEFINE Fine(q) == flash.kind = "grub" => Listing(q) /\ q # <<>> /\ CalmJob(efi, q)
<1>0. ASSUME NEW v, v \notin {"remove_all", "append", "installer", "verify"}, NEW x
      PROVE  Fine(<< <<v, x>> >>)
  <2>1. /\ Listing(<< <<v, x>> >>) /\ Range(<< <<v, x>> >>) = { <<v, x>> } /\ << <<v, x>> >> # <<>>
    BY ListingOne
  <2>2. Does(<< <<v, x>> >>) = {v}
    BY <2>1 DEF Does
  <2> QED
    BY <1>0, <2>1, <2>2, CalmOf
<1>1. ASSUME NEW i \in OsImages
      PROVE  Fine(set_default_image(flash, i)) /\ Fine(set_next_image(flash, i))
  <2>1. flash.kind = "grub" => set_default_image(flash, i) = << <<"default", Position(flash, i)>> >>
    BY DEF set_default_image
  <2>2. flash.kind = "grub" => set_next_image(flash, i) = << <<"once", Position(flash, i)>> >>
    BY DEF set_next_image
  <2> QED
    BY <1>0, <2>1, <2>2
<1>2. ASSUME NEW i \in OsImages, NEW c, NEW s, NEW b, NEW m, sonic_installer_install(i, c, s, b, m)
      PROVE  ImagesRecords' /\ ChainInv'
  <2>1. CASE i \in get_installed_images(flash)
    <3>1. Give(i, set_default_image(flash, i))
      BY <1>2, <2>1 DEF sonic_installer_install
    <3> QED
      BY <1>1, <3>1, GiveChain
  <2>2. CASE i \notin get_installed_images(flash)
    <3>1. PICK q :
            /\ Give(i, q)
            /\ q = InstallList(flash, i, efi.secure, s, b, m)
      BY <1>2, <2>2 DEF sonic_installer_install, InstallList
    <3>2. ASSUME flash.kind = "grub"
          PROVE  Listing(q) /\ q # <<>> /\ CalmJob(efi, q)
      <4>1. /\ Listing(q) /\ q # <<>> /\ Precedes("verify", "installer", q)
            /\ Range(q) \subseteq SignSteps(i) \cup InstallWrites(i)
            /\ efi.secure => <<"verify", i>> \in Range(q)
        BY <3>1, <3>2, InstallJob
      <4>2. \A y \in SignSteps(i) \cup InstallWrites(i) :
              /\ y[1] \notin {"remove_all", "append", "remove_image"}
              /\ y[1] = "installer" => y[2] = i
        BY DEF SignSteps, InstallWrites
      <4>3. Does(q) \cap {"remove_all", "append", "remove_image"} = {}
        BY <4>1, <4>2 DEF Does
      <4>4. InstallsAlone(q) /\ Does(q) \cap PruneVerbs = {}
        BY <4>1, <4>3 DEF InstallsAlone, PruneVerbs
      <4>5. efi.secure => Verified(q, i)
        BY <4>1 DEF Verified
      <4>6. \A y \in Range(q) : y[1] = "installer" => y[2] = i
        BY <4>1, <4>2
      <4> QED
        BY <4>1, <4>4, <4>5, <4>6 DEF CalmJob, Guarded
    <3> QED
      BY <3>1, <3>2, GiveChain
  <2> QED
    BY <2>1, <2>2
<1>3. ASSUME NEW i \in OsImages, set_default(i) \/ set_next_boot(i)
      PROVE  ImagesRecords' /\ ChainInv'
  <2>1. Give(i, set_default_image(flash, i)) \/ Give(i, set_next_image(flash, i))
    BY <1>3 DEF set_default, set_next_boot
  <2> QED
    BY <1>1, <2>1, GiveChain
<1>4. ASSUME NEW i, NEW b, set_fips(i, b)
      PROVE  ImagesRecords' /\ ChainInv'
  <2>1. PICK v \in {"fips", "nofips"} : \E j : Give(j, << <<v, j>> >>)
    BY <1>4 DEF set_fips
  <2> QED
    BY <1>0, <2>1, GiveChain
<1>5. ASSUME NEW b, prune_command(b)
      PROVE  ImagesRecords' /\ ChainInv'
  <2>1. Give(NoImage, << <<"prune", b>> >>)
    BY <1>5 DEF prune_command
  <2> QED
    BY <1>0, <2>1, GiveChain
<1>6. Listing(prune_stale_db_certs) /\ Does(prune_stale_db_certs) \subseteq {"prune"}
  <2>1. prune_stale_db_certs = << <<"prune", TRUE>> >> \/ prune_stale_db_certs = <<>>
    BY DEF prune_stale_db_certs
  <2> QED
    BY <2>1, MaybeStep
<1>7. ASSUME NEW q, Listing(q), q # <<>>, Does(q) \subseteq {"remove_image"}
      PROVE  Fine(q \o prune_stale_db_certs)
  <2> DEFINE r == q \o prune_stale_db_certs
  <2>1. Listing(r) /\ Range(r) = Range(q) \cup Range(prune_stale_db_certs)
    BY <1>6, <1>7, ListingOn
  <2>2. r # <<>>
    BY <1>7, <2>1, ListingNone, ListingFirst
  <2> HIDE DEF r
  <2>3. Does(r) \subseteq {"remove_image", "prune"}
    BY <1>6, <1>7, <2>1 DEF Does
  <2>4. Fine(r)
    BY <2>1, <2>2, <2>3, CalmOf
  <2> QED
    BY <2>4 DEF r
<1>8. ASSUME NEW i \in OsImages, sonic_installer_remove(i)
      PROVE  ImagesRecords' /\ ChainInv'
  <2> DEFINE p == << <<"remove_image", i>> >>
  <2>1. Give(i, p \o prune_stale_db_certs)
    BY <1>8 DEF sonic_installer_remove
  <2>2. Listing(p) /\ Range(p) = { <<"remove_image", i>> } /\ p # <<>>
    BY ListingOne
  <2> HIDE DEF p
  <2>3. Does(p) \subseteq {"remove_image"}
    BY <2>2 DEF Does
  <2> QED
    BY <1>7, <2>1, <2>2, <2>3, GiveChain
<1>9. ASSUME cleanup
      PROVE  ImagesRecords' /\ ChainInv'
  <2> DEFINE gone == get_installed_images(flash) \ {flash.current, get_next_image(flash)}
             p(order) == [k \in DOMAIN order |-> <<"remove_image", order[k]>>]
  <2>1. PICK order \in SetToSeqs(gone) : Give(NoImage, p(order) \o prune_stale_db_certs)
    BY <1>9 DEF cleanup
  <2>2. gone # {}
    BY <1>9 DEF cleanup
  <2>3. ASSUME flash.kind = "grub"
        PROVE  Listing(p(order)) /\ p(order) # <<>> /\ Does(p(order)) \subseteq {"remove_image"}
    <3>1. IsFiniteSet(gone)
      <4>1. IsFiniteSet(Range(flash.menu)) /\ gone \subseteq Range(flash.menu)
        BY <2>3, ListingFinite DEF ChainInv, Trusts, get_installed_images
      <4> HIDE DEF gone
      <4> QED
        BY <4>1, FS_Subset
    <3>2. order \in Seq(gone) /\ order # <<>>
      <4> HIDE DEF gone
      <4> QED
        BY <2>1, <2>2, <3>1, SetToSeqsListing
    <3>3. DOMAIN order = 1..Len(order) /\ Len(order) \in Nat \ {0}
      BY <3>2, LenProperties, EmptySeq
    <3>4. /\ p(order) \in [1..Len(order) -> {"remove_image"} \X gone]
      BY <3>2, <3>3, LenProperties
    <3>5. p(order) \in Seq({"remove_image"} \X gone) /\ Len(p(order)) = Len(order)
      BY <3>3, <3>4, SeqDef, LenProperties
    <3>6. \A y \in Range(p(order)) : y[1] = "remove_image"
      BY <3>4 DEF Range
    <3> QED
      BY <3>3, <3>5, <3>6 DEF Listing, Does
  <2>4. Fine(p(order) \o prune_stale_db_certs)
    <3> DEFINE u == p(order)
    <3> HIDE DEF p
    <3> QED
      BY <1>7, <2>3
  <2> HIDE DEF p
  <2> QED
    BY <2>1, <2>4, GiveChain
<1> QED
  BY <1>2, <1>3, <1>4, <1>5, <1>8, <1>9 DEF ImageCommand

LEMMA WindowIs ==
  ASSUME Listing(job.steps)
  PROVE  InWindow <=> "append" \in Does(job.steps)
  BY DEF InWindow, Does, Range

\* A write of the flash, of the db, and a step that is carried out by others.
LEMMA FlashStepChain ==
  ASSUME ImagesRecords, ChainInv, FlashStep
  PROVE  ImagesRecords' /\ ChainInv'
<1> DEFINE q == job.steps
           v == Head(q)[1]
           x == Head(q)[2]
<1>1. flash' \in FlashEffects(flash, v, x) /\ Continue(Tail(q)) /\ efi' = efi /\ job # NoJob
  BY DEF FlashStep, Working, verb, arg
<1> HIDE DEF v, x
<1>2. FlashKept(flash, v, x, flash')
  BY <1>1, FlashKeeps DEF ImagesRecords
<1>3. job' = [steps |-> job'.steps, image |-> job'.image] /\ job'.steps = Tail(q) /\ (job' # NoJob => Tail(q) # <<>>)
  BY <1>1, ContinuedJob
<1>4. ImagesRecords'
  BY <1>1, <1>2, <1>3 DEF ImagesRecords, FlashKept
<1>5. ASSUME flash.kind = "grub"
      PROVE  Listing(Tail(q)) /\ Trusts(flash', efi', Tail(q))
  <2>1. Listing(q) /\ q # <<>> /\ Trusts(flash, efi, q) /\ Listing(Tail(q))
    BY <1>1, <1>5, ListingFirst DEF ChainInv
  <2>2. Listing(flash'.menu) /\ \A i \in Range(flash'.menu) : i \in Range(flash.menu) \/ (v = "installer" /\ i = x)
    <3>1. Listing(flash.menu)
      BY <2>1 DEF Trusts
    <3>2. CASE v = "installer"
      <4>1. PICK keep : \E m \in MenuOf(flash, keep) : flash'.menu = <<x>> \o m
        BY <1>2, <1>5, <3>2 DEF FlashKept
      <4>2. PICK m \in MenuOf(flash, keep) : flash'.menu = <<x>> \o m
        BY <4>1
      <4>3. Listing(m) /\ Range(m) \subseteq Range(flash.menu)
        BY <3>1, MenuOfListing
      <4> DEFINE one == <<x>>
      <4>4. Listing(one) /\ Range(one) = {x} /\ flash'.menu = one \o m
        BY <4>2, ListingOne
      <4> HIDE DEF one
      <4>5. Listing(flash'.menu) /\ Range(flash'.menu) = Range(one) \cup Range(m)
        BY <4>3, <4>4, ListingOn
      <4> QED
        BY <3>2, <4>3, <4>4, <4>5
    <3>3. CASE v = "unlist"
      BY <1>2, <1>5, <3>1, <3>3, MenuOfListing DEF FlashKept
    <3>4. CASE v \notin {"unlist", "installer"}
      BY <1>2, <3>1, <3>4 DEF FlashKept
    <3> QED
      BY <3>2, <3>3, <3>4
  <2>3. v \notin {"verify", "append", "remove_all"}
    BY <1>1 DEF FlashEffects
  <2> QED
    BY <1>1, <2>1, <2>2, <2>3, TrustsOn DEF v, x
<1> QED
  BY <1>2, <1>3, <1>4, <1>5 DEF ChainInv, FlashKept

LEMMA DbKeeps ==
  ASSUME NEW e, DbRecord(e), NEW v, NEW x, NEW d \in DbEffects(e, v, x)
  PROVE  /\ v \in {"enroll", "remove_all", "append"}
         /\ DbRecord(d) /\ d.secure = e.secure /\ d.updateFailed = e.updateFailed
         /\ v = "enroll" => e.db \subseteq d.db
         /\ v = "remove_all" => d.db = {}
         /\ v = "append" => d.db = e.db \cup AuthFiles[x]
<1>1. PICK base, secure, failed : e = [db |-> base, secure |-> secure, updateFailed |-> failed]
  BY DEF DbRecord
<1>2. CASE v = "enroll"
  <2>1. d = e \/ \E c \in Signers[x] : d = [e EXCEPT !.db = @ \cup {c}]
    BY <1>2 DEF DbEffects
  <2> QED
    BY <1>1, <1>2, <2>1 DEF DbRecord
<1>3. CASE v = "remove_all"
  <2>1. d = [e EXCEPT !.db = {}]
    BY <1>3 DEF DbEffects
  <2> QED
    BY <1>1, <1>3, <2>1 DEF DbRecord
<1>4. CASE v = "append"
  <2>1. d = [e EXCEPT !.db = @ \cup AuthFiles[x]]
    BY <1>4 DEF DbEffects
  <2> QED
    BY <1>1, <1>4, <2>1 DEF DbRecord
<1> QED
  BY <1>2, <1>3, <1>4 DEF DbEffects

LEMMA DbStepChain ==
  ASSUME ImagesRecords, ChainInv, DbStep
  PROVE  ImagesRecords' /\ ChainInv'
<1> DEFINE q == job.steps
           v == Head(q)[1]
           x == Head(q)[2]
           d == efi'
<1>1. d \in DbEffects(efi, v, x) /\ Continue(Tail(q)) /\ flash' = flash /\ job # NoJob
  BY DEF DbStep, Working, verb, arg
<1> HIDE DEF v, x, d
<1>2. /\ v \in {"enroll", "remove_all", "append"}
      /\ DbRecord(d) /\ d.secure = efi.secure /\ d.updateFailed = efi.updateFailed
      /\ v = "enroll" => efi.db \subseteq d.db
      /\ v = "remove_all" => d.db = {}
      /\ v = "append" => d.db = efi.db \cup AuthFiles[x]
  BY <1>1, DbKeeps DEF ImagesRecords
<1>3. Guarded(d) => Guarded(efi)
  BY <1>2 DEF Guarded
<1>4. job' = [steps |-> job'.steps, image |-> job'.image] /\ job'.steps = Tail(q) /\ (job' # NoJob => Tail(q) # <<>>)
  BY <1>1, ContinuedJob
<1>5. ImagesRecords'
  BY <1>1, <1>2, <1>4 DEF ImagesRecords, d
<1>6. ASSUME flash.kind = "grub"
      PROVE  Listing(Tail(q)) /\ Trusts(flash, d, Tail(q))
  <2>1. Listing(q) /\ q # <<>> /\ Trusts(flash, efi, q) /\ Listing(Tail(q)) /\ Listing(flash.menu)
    BY <1>1, <1>6, ListingFirst DEF ChainInv, Trusts
  <2>2. CASE v = "enroll"
    BY <1>2, <1>3, <2>1, <2>2, TrustsOn DEF v
  <2>3. CASE v = "remove_all"
    BY <1>2, <1>3, <2>1, <2>3, TrustsRemoveAll DEF v
  <2>4. CASE v = "append"
    BY <1>2, <1>3, <2>1, <2>4, TrustsAppend DEF v, x
  <2> QED
    BY <1>2, <2>2, <2>3, <2>4
<1> QED
  BY <1>1, <1>4, <1>5, <1>6 DEF ChainInv, d

LEMMA GrubRemoves ==
  ASSUME NEW f, f.kind = "grub", NEW i, NEW p, p = remove_image(f, i)
  PROVE  Listing(p) /\ Does(p) \subseteq {"unlist", "rmdir", "default"} /\ p # <<>>
<1> DEFINE S == { <<"unlist", i>>, <<"rmdir", i>>, <<"default", 1>> }
<1>1. p = << <<"unlist", i>>, <<"rmdir", i>>, <<"default", 1>> >>
  BY DEF remove_image, grub_remove_image
<1>2. p \in Seq(S) /\ Len(p) = 3
  BY <1>1
<1>3. Range(p) \subseteq S
  <2> HIDE DEF S
  <2>1. DOMAIN p = 1..3 /\ p \in [1..3 -> S]
    BY <1>2, LenProperties
  <2>2. \A k \in DOMAIN p : p[k] \in S
    BY <2>1
  <2> QED
    BY <2>2 DEF Range
<1>4. \A y \in S : y[1] \in {"unlist", "rmdir", "default"}
  OBVIOUS
<1> HIDE DEF S
<1> QED
  BY <1>2, <1>3, <1>4 DEF Listing, Does

LEMMA ExpandChain ==
  ASSUME ImagesRecords, ChainInv, Expand
  PROVE  ImagesRecords' /\ ChainInv'
<1> DEFINE q == job.steps
           v == Head(q)[1]
           x == Head(q)[2]
<1>1. PICK r :
        /\ Continue(r) /\ flash' = flash /\ efi' = efi /\ job # NoJob
        /\ \/ v = "remove_image" /\ r = remove_image(flash, x) \o Tail(q)
           \/ v = "prune" /\ r = prune_db_certificates(x)
           \/ v = "verify" /\ r = (IF Signers[x] \cap efi.db # {} THEN Tail(q) ELSE <<>>)
           \/ v = "exit" /\ r = <<>>
  BY DEF Expand, Working, verb, arg
<1>2. job' = [steps |-> job'.steps, image |-> job'.image] /\ job'.steps = r /\ (job' # NoJob => r # <<>>)
  BY <1>1, ContinuedJob
<1>3. ImagesRecords'
  BY <1>1, <1>2 DEF ImagesRecords
<1>4. ASSUME flash.kind = "grub"
      PROVE  Listing(r) /\ Trusts(flash, efi, r)
  <2>1. Listing(q) /\ q # <<>> /\ Trusts(flash, efi, q) /\ Listing(Tail(q))
    BY <1>1, <1>4, ListingFirst DEF ChainInv
  <2>2. Range(q) = {Head(q)} \cup Range(Tail(q))
    BY <2>1, ListingFirst
  <2> HIDE DEF q
  <2>3. v \in Does(q) /\ Does(Tail(q)) \subseteq Does(q)
    BY <2>2 DEF Does
  <2>4. v \notin PruneVerbs => Does(q) \cap PruneVerbs = {}
    BY <2>1, <2>3 DEF Trusts, PruneAlone
  <2>5. CASE v = "remove_image" /\ r = remove_image(flash, x) \o Tail(q)
    <3>1. Does(q) \cap {"remove_all", "append", "installer", "verify"} = {}
      BY <2>1, <2>3, <2>4, <2>5 DEF Trusts, InstallsAlone, PruneVerbs
    <3> DEFINE p == remove_image(flash, x)
    <3>2. Listing(p) /\ Does(p) \subseteq {"unlist", "rmdir", "default"}
      BY <1>4, GrubRemoves
    <3> HIDE DEF p
    <3>3. Listing(r) /\ Range(r) = Range(p) \cup Range(Tail(q))
      BY <2>1, <2>5, <3>2, ListingOn DEF p
    <3>4. Does(r) \cap {"remove_all", "append", "installer", "verify"} = {}
      <4>1. Does(r) = Does(p) \cup Does(Tail(q))
        BY <3>3 DEF Does
      <4> QED
        BY <2>3, <3>1, <3>2, <4>1
    <3>5. Does(q) \cap PruneVerbs = {}
      BY <3>1 DEF PruneVerbs
    <3> QED
      BY <2>1, <3>3, <3>4, <3>5, CalmOf, TrustsCalm
  <2>6. CASE v = "prune" /\ r = prune_db_certificates(x)
    <3>1. Does(q) \cap PruneVerbs = {}
      BY <2>4, <2>6 DEF PruneVerbs
    <3> QED
      BY <1>4, <2>1, <2>6, <3>1, PruneSteps
  <2>7. CASE v = "verify" /\ r = (IF Signers[x] \cap efi.db # {} THEN Tail(q) ELSE <<>>)
    <3>1. Does(q) \cap PruneVerbs = {}
      BY <2>4, <2>7 DEF PruneVerbs
    <3>2. CASE Signers[x] \cap efi.db # {}
      BY <2>1, <2>7, <3>2, TrustsVerify
    <3>3. CASE Signers[x] \cap efi.db = {}
      BY <2>1, <2>7, <3>1, <3>3, TrustsEnd, ListingNone
    <3> QED
      BY <3>2, <3>3
  <2>8. CASE v = "exit" /\ r = <<>>
    <3>1. Does(q) \cap PruneVerbs = {}
      BY <2>4, <2>8 DEF PruneVerbs
    <3> QED
      BY <2>1, <2>8, <3>1, TrustsEnd, ListingNone
  <2> QED
    BY <1>1, <2>5, <2>6, <2>7, <2>8
<1> QED
  BY <1>1, <1>2, <1>3, <1>4 DEF ChainInv

\* A step that fails, a signal and the loss of power.
LEMMA StepFailedChain ==
  ASSUME ImagesRecords, ChainInv, StepFailed
  PROVE  ImagesRecords' /\ ChainInv'
<1> DEFINE q == job.steps
           v == Head(q)[1]
           bad == v \in {"remove_all", "append"}
           r == IF v = "append" THEN Tail(q) ELSE <<>>
<1>1. /\ Continue(r) /\ job # NoJob /\ efi' = [efi EXCEPT !.updateFailed = @ \/ bad]
      /\ v \notin {"enroll", "verify", "prune"}
  BY DEF StepFailed, Working, verb
<1>2. /\ FlashRecord(flash') /\ flash'.kind = flash.kind /\ flash'.menu = flash.menu
      /\ (v = "append" => flash' = flash)
  <2>1. PICK k, c, ds, m, df, o, fi, en, pk, sw, to :
          flash = [kind |-> k, current |-> c, dirs |-> ds, menu |-> m, default |-> df, once |-> o, fips |-> fi,
                   environment |-> en, packages |-> pk, swap |-> sw, torn |-> to]
    BY DEF ImagesRecords, FlashRecord
  <2>2. \/ flash' = flash
        \/ /\ v # "append"
           /\ flash' = [flash EXCEPT !.dirs = @ \ {job.image}, !.swap = FALSE, !.torn = @ \/ verb # "installer"]
    BY DEF StepFailed, verb
  <2>3. \/ flash' = flash
        \/ /\ v # "append"
           /\ \E t : flash' = [flash EXCEPT !.dirs = @ \ {job.image}, !.swap = FALSE, !.torn = t]
    BY Zenon, <2>2
  <2> HIDE DEF v
  <2> QED
    BY Zenon, <2>1, <2>3 DEF FlashRecord
<1>3. /\ DbRecord(efi') /\ efi'.db = efi.db
      /\ Guarded(efi') => Guarded(efi) /\ ~bad
  <2>1. PICK base, secure, failed : efi = [db |-> base, secure |-> secure, updateFailed |-> failed]
    BY DEF ImagesRecords, DbRecord
  <2> HIDE DEF bad
  <2>2. efi' = [db |-> base, secure |-> secure, updateFailed |-> failed \/ bad]
    BY <1>1, <2>1
  <2> QED
    BY <2>1, <2>2 DEF DbRecord, Guarded
<1> HIDE DEF v
<1>4. job' = [steps |-> job'.steps, image |-> job'.image] /\ job'.steps = r /\ (job' # NoJob => r # <<>>)
  BY <1>1, ContinuedJob
<1>5. ImagesRecords'
  BY <1>2, <1>3, <1>4 DEF ImagesRecords
<1>6. ASSUME flash.kind = "grub"
      PROVE  Listing(r) /\ Trusts(flash', efi', r)
  <2>1. Listing(q) /\ q # <<>> /\ Trusts(flash, efi, q) /\ Listing(Tail(q))
    BY <1>1, <1>6, ListingFirst DEF ChainInv
  <2>2. CASE v = "append"
    <3>1. ~Guarded(efi')
      BY <1>3, <2>2
    <3> QED
      BY <1>2, <2>1, <2>2, <3>1, TrustsAppend DEF v
  <2>3. CASE v # "append"
    <3>1. Range(q) = {Head(q)} \cup Range(Tail(q))
      BY <2>1, ListingFirst
    <3>2. v \in Does(q)
      BY <3>1 DEF Does, v
    <3>3. v \notin PruneVerbs => Does(q) \cap PruneVerbs = {}
      BY <2>1, <3>2 DEF Trusts, PruneAlone
    <3>4. Guarded(efi') => Guarded(efi) /\ efi.db \subseteq efi'.db /\ Does(q) \cap PruneVerbs = {}
      BY <1>3, <3>3 DEF PruneVerbs
    <3> QED
      BY <1>2, <2>1, <2>3, <3>4, TrustsEnd, ListingNone
  <2> QED
    BY <2>2, <2>3
<1> QED
  BY <1>2, <1>4, <1>5, <1>6 DEF ChainInv

LEMMA CutOffChain ==
  ASSUME ImagesRecords, ChainInv, job' = NoJob, flash'.kind = flash.kind, flash'.menu = flash.menu,
         FlashRecord(flash'), DbRecord(efi'), efi'.db = efi.db,
         Guarded(efi') => Guarded(efi) /\ (flash.kind = "grub" => ~InWindow)
  PROVE  ImagesRecords' /\ ChainInv'
<1>1. job' = [steps |-> job'.steps, image |-> job'.image] /\ job'.steps = <<>>
  BY DEF NoJob
<1>2. ImagesRecords'
  BY <1>1 DEF ImagesRecords
<1>3. ASSUME flash.kind = "grub"
      PROVE  Trusts(flash', efi', <<>>)
  <2>1. Listing(job.steps) /\ Trusts(flash, efi, job.steps)
    BY <1>3 DEF ChainInv
  <2>2. Guarded(efi') => Does(job.steps) \cap PruneVerbs = {}
    BY <1>3, <2>1, WindowIs DEF Trusts, PruneAlone
  <2> QED
    BY <2>1, <2>2, TrustsEnd
<1> QED
  BY <1>1, <1>2, <1>3, ListingNone DEF ChainInv

LEMMA CancelChain ==
  ASSUME ImagesRecords, ChainInv, defer_cancellation
  PROVE  ImagesRecords' /\ ChainInv'
<1>1. job' = NoJob /\ flash' = flash /\ efi' = efi /\ ~InWindow
  BY DEF defer_cancellation
<1> QED
  BY <1>1, CutOffChain DEF ImagesRecords

LEMMA RebootChain ==
  ASSUME ImagesRecords, ChainInv, Reboot
  PROVE  ImagesRecords' /\ ChainInv'
<1>1. PICK k, c, ds, m, df, o, fi, en, pk, sw, to :
        flash = [kind |-> k, current |-> c, dirs |-> ds, menu |-> m, default |-> df, once |-> o, fips |-> fi,
                 environment |-> en, packages |-> pk, swap |-> sw, torn |-> to]
  BY DEF ImagesRecords, FlashRecord
<1>2. \E a, b : flash' = [flash EXCEPT !.current = a, !.once = b]
  BY Zenon DEF Reboot
<1>3. FlashRecord(flash') /\ flash'.kind = flash.kind /\ flash'.menu = flash.menu
  BY <1>1, <1>2 DEF FlashRecord
<1>4. PICK base, secure, failed : efi = [db |-> base, secure |-> secure, updateFailed |-> failed]
  BY DEF ImagesRecords, DbRecord
<1>5. efi' = [efi EXCEPT !.updateFailed = @ \/ InWindow] /\ job' = NoJob
  BY DEF Reboot
<1>6. efi' = [db |-> base, secure |-> secure, updateFailed |-> failed \/ InWindow]
  BY <1>4, <1>5
<1>7. DbRecord(efi') /\ efi'.db = efi.db /\ (Guarded(efi') => Guarded(efi) /\ ~InWindow)
  BY <1>4, <1>6 DEF DbRecord, Guarded
<1> QED
  BY <1>3, <1>5, <1>7, CutOffChain

LEMMA ImagesChain ==
  ASSUME ImagesRecords, ChainInv, [ImagesNext]_installerVars
  PROVE  ImagesRecords' /\ ChainInv'
<1>1. CASE UNCHANGED installerVars
  BY <1>1 DEF installerVars, ImagesRecords, ChainInv
<1>2. CASE ImagesNext
  BY <1>2, CommandChain, FlashStepChain, DbStepChain, ExpandChain, StepFailedChain, CancelChain, RebootChain
     DEF ImagesNext
<1> QED
  BY <1>1, <1>2

\* Whatever images are installed and removed, whichever certificates sign
\* them and whichever .auth files the switch has: after every prune of the
\* UEFI db that sonic-installer carries out to its end, and before each, the
\* loader and every image of the menu of grub can still be booted with Secure
\* Boot.
THEOREM ChainStaysTrusted == ImagesSpec => []BootChainTrusted
<1>1. InstallerInit => ImagesRecords /\ ChainInv
  BY ChainStart
<1>2. ImagesRecords /\ ChainInv /\ [ImagesNext]_installerVars => (ImagesRecords /\ ChainInv)'
  BY ImagesChain
<1>3. ChainInv => BootChainTrusted
  <2> SUFFICES ASSUME ChainInv, flash.kind = "grub", Guarded(efi), ~InWindow,
                      NEW b \in Range(flash.menu) \cup {Shim}
               PROVE  Signers[b] \cap efi.db # {}
    BY DEF BootChainTrusted, Guarded
  <2>1. Listing(job.steps) /\ Trusts(flash, efi, job.steps)
    BY DEF ChainInv
  <2>2. Does(job.steps) \cap PruneVerbs = {}
    BY <2>1, WindowIs DEF Trusts, PruneAlone
  <2>3. Signed(b, efi, job.steps)
    BY <2>1 DEF Trusts
  <2> QED
    BY <2>2, <2>3, SignedByDb
<1> QED
  BY <1>1, <1>2, <1>3, PTL DEF ImagesSpec

---------------------------------------------------------------------------
\* The two slots of a BMC.
LEMMA Glued ==
  ASSUME NEW a, NEW b, NEW c, NEW d
  PROVE  /\ <<a>> \o <<b>> = <<a, b>> /\ <<a>> \o <<c, d>> = <<a, c, d>>
         /\ <<a, b>> \o <<c, d>> = <<a, b, c, d>>
<1> DEFINE S == {a, b, c, d}
<1>0. /\ <<a>> \in Seq(S) /\ <<b>> \in Seq(S) /\ <<a, b>> \in Seq(S) /\ <<c, d>> \in Seq(S)
      /\ <<a, c, d>> \in Seq(S) /\ <<a, b, c, d>> \in Seq(S)
  OBVIOUS
<1>1. <<a>> \o <<b>> = <<a, b>>
  <2> DEFINE r == <<a>> \o <<b>>
  <2>1. r \in Seq(S) /\ Len(r) = 2 /\ r[1] = a /\ r[2] = b
    BY <1>0, ConcatProperties
  <2> HIDE DEF r, S
  <2>2. Len(<<a, b>>) = Len(r) /\ \A k \in 1..Len(<<a, b>>) : (<<a, b>>)[k] = r[k]
    BY <2>1
  <2>3. r = <<a, b>>
    BY <1>0, <2>1, <2>2, SeqEqual
  <2> QED
    BY <2>3 DEF r
<1>2. <<a>> \o <<c, d>> = <<a, c, d>>
  <2> DEFINE r == <<a>> \o <<c, d>>
  <2>1. r \in Seq(S) /\ Len(r) = 3 /\ r[1] = a /\ r[2] = c /\ r[3] = d
    BY <1>0, ConcatProperties
  <2> HIDE DEF r, S
  <2>2. Len(<<a, c, d>>) = Len(r) /\ \A k \in 1..Len(<<a, c, d>>) : (<<a, c, d>>)[k] = r[k]
    BY <2>1
  <2>3. r = <<a, c, d>>
    BY <1>0, <2>1, <2>2, SeqEqual
  <2> QED
    BY <2>3 DEF r
<1>3. <<a, b>> \o <<c, d>> = <<a, b, c, d>>
  <2> DEFINE r == <<a, b>> \o <<c, d>>
  <2>1. r \in Seq(S) /\ Len(r) = 4 /\ r[1] = a /\ r[2] = b /\ r[3] = c /\ r[4] = d
    BY <1>0, ConcatProperties
  <2> HIDE DEF r, S
  <2>2. Len(<<a, b, c, d>>) = Len(r) /\ \A k \in 1..Len(<<a, b, c, d>>) : (<<a, b, c, d>>)[k] = r[k]
    BY <2>1
  <2>3. r = <<a, b, c, d>>
    BY <1>0, <2>1, <2>2, SeqEqual
  <2> QED
    BY <2>3 DEF r
<1> QED
  BY <1>1, <1>2, <1>3

LEMMA GluedNone ==
  ASSUME NEW q, Listing(q)
  PROVE  q \o <<>> = q /\ <<>> \o q = q
<1>1. PICK S : q \in Seq(S)
  BY DEF Listing
<1> QED
  BY <1>1, ConcatEmptySeq

LEMMA Heads ==
  ASSUME NEW a, NEW b, NEW c, NEW d
  PROVE  /\ Head(<<a>>) = a /\ Tail(<<a>>) = <<>> /\ Listing(<<a>>) /\ <<a>> # <<>>
         /\ Head(<<a, b>>) = a /\ Tail(<<a, b>>) = <<b>> /\ Listing(<<a, b>>) /\ <<a, b>> # <<>>
         /\ Head(<<a, b, c>>) = a /\ Tail(<<a, b, c>>) = <<b, c>>
         /\ Listing(<<a, b, c>>) /\ <<a, b, c>> # <<>>
         /\ Head(<<a, b, c, d>>) = a /\ Tail(<<a, b, c, d>>) = <<b, c, d>>
         /\ Listing(<<a, b, c, d>>) /\ <<a, b, c, d>> # <<>>
<1>1. /\ <<a>> \in Seq({a}) /\ <<a, b>> \in Seq({a, b}) /\ <<a, b, c>> \in Seq({a, b, c})
      /\ <<a, b, c, d>> \in Seq({a, b, c, d})
  OBVIOUS
<1>2. Listing(<<a>>) /\ Listing(<<a, b>>) /\ Listing(<<a, b, c>>) /\ Listing(<<a, b, c, d>>)
  BY Zenon, <1>1 DEF Listing
<1>3. /\ Tail(<<a>>) = <<>> /\ Tail(<<a, b>>) = <<b>> /\ Tail(<<a, b, c>>) = <<b, c>>
      /\ Tail(<<a, b, c, d>>) = <<b, c, d>>
  OBVIOUS
<1>4. Head(<<a>>) = a /\ Head(<<a, b>>) = a /\ Head(<<a, b, c>>) = a /\ Head(<<a, b, c, d>>) = a
  OBVIOUS
<1>5. <<a>> # <<>> /\ <<a, b>> # <<>> /\ <<a, b, c>> # <<>> /\ <<a, b, c, d>> # <<>>
  OBVIOUS
<1> QED
  BY <1>2, <1>3, <1>4, <1>5

Points(f, x) == x \in 1..2 /\ f.menu[x] # NoImage
SlotsOk(f) ==
  /\ f.menu \in [1..2 -> OsImages \cup {NoImage}] /\ f.menu[1] # f.menu[2]
  /\ f.current \in OsImages /\ f.current \in {f.menu[1], f.menu[2]}
  /\ \A k \in 1..2 : f.menu[k] # NoImage => f.menu[k] \in f.dirs
  /\ Points(f, f.default)
  /\ f.once # NoImage => Points(f, f.once)

LEMMA PositionIs ==
  ASSUME NEW f, SlotsOk(f), NEW i \in {f.menu[1], f.menu[2]}
  PROVE  Position(f, i) \in 1..2 /\ f.menu[Position(f, i)] = i
<1> DEFINE I == {k \in 1..Len(f.menu) : f.menu[k] = i}
<1>1. Len(f.menu) = 2
  <2>1. f.menu \in Seq(OsImages \cup {NoImage}) /\ DOMAIN f.menu = 1..2
    BY SeqDef DEF SlotsOk
  <2>2. Len(f.menu) \in Nat /\ 1..Len(f.menu) = 1..2
    BY <2>1, LenProperties
  <2>3. Len(f.menu) \in 1..2 /\ 2 \in 1..Len(f.menu)
    <3>1. 2 \in 1..Len(f.menu)
      BY <2>2
    <3>2. Len(f.menu) \in 1..Len(f.menu)
      BY <2>2, <3>1
    <3> QED
      BY <2>2, <3>1, <3>2
  <2>4. \A n \in Nat : n \in 1..2 /\ 2 \in 1..n => n = 2
    OBVIOUS
  <2> QED
    BY <2>2, <2>3, <2>4
<1>2. PICK k \in 1..2 : I = {k}
  BY <1>1 DEF SlotsOk
<1>3. Position(f, i) = IF I # {} THEN Min(I) ELSE 0
  BY DEF Position, SelectInSeq
<1>4. f.menu[k] = i
  BY <1>2
<1> HIDE DEF I
<1>5. Min(I) \in I
  BY <1>2 DEF Min
<1> QED
  BY <1>2, <1>3, <1>4, <1>5

\* What a step does to the slots.
IdleVerbs == {"swapon", "swapoff", "backup", "environment", "packages", "fips", "nofips"}
SameMenu(f, g) == g.menu = f.menu /\ g.dirs = f.dirs
SameSelectors(f, g) == g.default = f.default /\ g.once = f.once
SlotsKept(f, v, x, g) ==
  /\ g.kind = f.kind /\ g.current = f.current /\ g.torn = f.torn
  /\ v \in IdleVerbs => SameMenu(f, g) /\ SameSelectors(f, g)
  /\ v = "default" => SameMenu(f, g) /\ g.once = f.once /\ g.default = x
  /\ v = "once" => SameMenu(f, g) /\ g.default = f.default /\ g.once = x
  /\ v = "unlist" => /\ g.menu = [k \in DOMAIN f.menu |-> IF f.menu[k] = x THEN NoImage ELSE f.menu[k]]
                     /\ g.dirs = f.dirs /\ SameSelectors(f, g)
  /\ v = "rmdir" => g.menu = f.menu /\ g.dirs = f.dirs \ {x} /\ SameSelectors(f, g)
  /\ v = "installer" => /\ g.menu = <<x, f.current>> /\ g.dirs = {x, f.current} /\ g.default = 1
                        /\ g.once = f.once

LEMMA SlotsKeep ==
  ASSUME NEW f, FlashRecord(f), f.kind = "bmc", NEW v, NEW x, NEW g \in FlashEffects(f, v, x)
  PROVE  SlotsKept(f, v, x, g)
<1> USE DEF SlotsKept, SameMenu, SameSelectors, IdleVerbs
<1>1. PICK c, ds, m, df, o, fi, en, pk, sw, to :
        f = [kind |-> "bmc", current |-> c, dirs |-> ds, menu |-> m, default |-> df, once |-> o, fips |-> fi,
             environment |-> en, packages |-> pk, swap |-> sw, torn |-> to]
  BY DEF FlashRecord
<1>2. CASE v = "default"
  <2>1. g = [f EXCEPT !.default = x]
    BY <1>2 DEF FlashEffects
  <2> QED
    BY <1>1, <1>2, <2>1
<1>3. CASE v = "once"
  <2>1. g = [f EXCEPT !.once = x]
    BY <1>3 DEF FlashEffects
  <2> QED
    BY <1>1, <1>3, <2>1
<1>4. CASE v = "boot_config"
  <2>1. g = [f EXCEPT !.default = x, !.once = x]
    BY <1>4 DEF FlashEffects
  <2> QED
    BY <1>1, <1>4, <2>1
<1>5. CASE v = "unlist"
  <2> DEFINE w == [k \in DOMAIN f.menu |-> IF f.menu[k] = x THEN NoImage ELSE f.menu[k]]
  <2>1. g = [f EXCEPT !.menu = w]
    BY <1>5, f.kind = "bmc" DEF FlashEffects, Unlisted
  <2>2. g.menu = w /\ g.dirs = f.dirs /\ SameSelectors(f, g) /\ g.kind = f.kind /\ g.current = f.current /\ g.torn = f.torn
    <3> HIDE DEF w
    <3> QED
      BY <1>1, <2>1
  <2> QED
    BY <1>5, <2>2
<1>6. CASE v = "rmdir"
  <2>1. g = [f EXCEPT !.dirs = @ \ {x}, !.environment = @ \ {x}, !.packages = @ \ {x}]
    BY <1>6 DEF FlashEffects
  <2> QED
    BY <1>1, <1>6, <2>1
<1>7. CASE v = "swapon"
  <2>1. g = f \/ g = [f EXCEPT !.swap = TRUE]
    BY <1>7 DEF FlashEffects, SWAPAllocator
  <2> QED
    BY <1>1, <1>7, <2>1
<1>8. CASE v = "swapoff"
  <2>1. g = [f EXCEPT !.swap = FALSE]
    BY <1>8 DEF FlashEffects, remove_swapmem
  <2> QED
    BY <1>1, <1>8, <2>1
<1>9. CASE v = "backup"
  <2>1. g = f
    BY <1>9 DEF FlashEffects
  <2> QED
    BY <1>1, <1>9, <2>1
<1>10. CASE v = "environment"
  <2>1. g = [f EXCEPT !.environment = @ \ {x}] \/ g = [f EXCEPT !.environment = @ \cup {x}]
    BY <1>10 DEF FlashEffects, update_sonic_environment
  <2> QED
    BY <1>1, <1>10, <2>1
<1>11. CASE v = "packages"
  <2>1. g = f \/ g = [f EXCEPT !.packages = @ \cup {x}]
    BY <1>11 DEF FlashEffects, migrate_sonic_packages
  <2> QED
    BY <1>1, <1>11, <2>1
<1>12. CASE v \in {"fips", "nofips"}
  <2>1. PICK S : g = [f EXCEPT !.fips = S]
    BY <1>12 DEF FlashEffects, loader_set_fips
  <2> QED
    BY <1>1, <1>12, <2>1
<1>13. CASE v = "installer"
  <2>1. g = [f EXCEPT !.menu = <<x, f.current>>, !.default = 1, !.dirs = {x, f.current}]
    BY <1>13, f.kind = "bmc" DEF FlashEffects, InstallerEffects
  <2> QED
    BY <1>1, <1>13, <2>1
<1> QED
  BY <1>2, <1>3, <1>4, <1>5, <1>6, <1>7, <1>8, <1>9, <1>10, <1>11, <1>12, <1>13 DEF FlashEffects

\* The steps a command may have left, on a BMC: it installs, it selects, or it
\* removes an image that neither runs nor is selected when it is erased.
Installing(f, image, q) ==
  /\ Does(q) \subseteq IdleVerbs \cup {"installer", "once"} /\ Sole("installer", q)
  /\ \A y \in Range(q) :
       /\ y[1] = "once" => y[2] = NoImage
       /\ y[1] = "installer" => y[2] = image /\ image \in OsImages \ {f.menu[1], f.menu[2]}
Selecting(f, q) ==
  \E x : \/ q = << <<"default", x>>, <<"once", NoImage>> >> /\ Points(f, x)
         \/ q = << <<"once", x>> >> /\ (x # NoImage => Points(f, x))
Other(f, i) == i \in {f.menu[1], f.menu[2]} \ {NoImage, f.current}
LeavesDefault(f, i) == f.menu[f.default] # i
LeavesOnce(f, i) == f.once # NoImage => f.menu[f.once] # i
Removing(f, q) ==
  \E i, x :
    /\ Other(f, i)
    /\ \/ q = << <<"remove_image", i>> >>
       \/ /\ q = << <<"once", NoImage>>, <<"default", x>>, <<"unlist", i>>, <<"rmdir", i>> >>
          /\ Points(f, x) /\ f.menu[x] # i
       \/ /\ q = << <<"default", x>>, <<"unlist", i>>, <<"rmdir", i>> >>
          /\ Points(f, x) /\ f.menu[x] # i /\ LeavesOnce(f, i)
       \/ /\ q = << <<"once", NoImage>>, <<"unlist", i>>, <<"rmdir", i>> >>
          /\ LeavesDefault(f, i)
       \/ /\ q = << <<"unlist", i>>, <<"rmdir", i>> >>
          /\ LeavesDefault(f, i) /\ LeavesOnce(f, i)
Erasing(f, q) == \E i : i \notin {f.menu[1], f.menu[2]} /\ q = << <<"rmdir", i>> >>
SlotSteps(f, image, q) ==
  Installing(f, image, q) \/ Selecting(f, q) \/ Removing(f, q) \/ Erasing(f, q)

LEMMA NoSteps ==
  ASSUME NEW f, NEW image
  PROVE  SlotSteps(f, image, <<>>)
<1>1. Range(<<>>) = {} /\ Does(<<>>) = {}
  BY ListingNone DEF Does
<1> QED
  BY <1>1, SoleFree DEF SlotSteps, Installing

\* Each step leaves the BMC with an image that it can start.
LEMMA InstallingStep ==
  ASSUME NEW f, SlotsOk(f), NEW image, NEW q, Listing(q), q # <<>>, Installing(f, image, q),
         NEW g, SlotsKept(f, Head(q)[1], Head(q)[2], g)
  PROVE  SlotsOk(g) /\ Installing(g, image, Tail(q))
<1> DEFINE r == Tail(q)
           y == Head(q)
<1>1. Range(q) = {y} \cup Range(r)
  BY ListingFirst
<1>2. Sole("installer", r) /\ (y[1] = "installer" => "installer" \notin Does(r))
  BY SoleTail DEF Installing
<1>3. SlotsKept(f, y[1], y[2], g)
  OBVIOUS
<1> HIDE DEF r, y
<1>4. Does(q) = {y[1]} \cup Does(r)
  BY <1>1 DEF Does
<1>5. y[1] \in IdleVerbs \cup {"installer", "once"} /\ Does(r) \subseteq IdleVerbs \cup {"installer", "once"}
  BY <1>4 DEF Installing
<1>6. \A z \in Range(r) : z[1] = "once" => z[2] = NoImage
  BY <1>1 DEF Installing
<1>7. CASE y[1] \in IdleVerbs
  <2>1. SameMenu(f, g) /\ SameSelectors(f, g) /\ g.current = f.current
    BY <1>3, <1>7 DEF SlotsKept
  <2>2. SlotsOk(g)
    BY <2>1 DEF SlotsOk, Points, SameMenu, SameSelectors
  <2>3. Installing(g, image, r)
    BY <1>1, <1>2, <1>5, <1>6, <2>1 DEF Installing, SameMenu
  <2> QED
    BY <2>2, <2>3 DEF r
<1>8. CASE y[1] = "once"
  <2>1. SameMenu(f, g) /\ g.default = f.default /\ g.once = NoImage /\ g.current = f.current
    BY <1>1, <1>3, <1>8 DEF SlotsKept, Installing
  <2>2. SlotsOk(g)
    BY <2>1 DEF SlotsOk, Points, SameMenu
  <2>3. Installing(g, image, r)
    BY <1>1, <1>2, <1>5, <1>6, <2>1 DEF Installing, SameMenu
  <2> QED
    BY <2>2, <2>3 DEF r
<1>9. CASE y[1] = "installer"
  <2>1. /\ g.menu = <<image, f.current>> /\ g.dirs = {image, f.current} /\ g.default = 1 /\ g.once = f.once
        /\ g.current = f.current /\ image \in OsImages \ {f.menu[1], f.menu[2]}
    BY <1>1, <1>3, <1>9 DEF SlotsKept, Installing
  <2>2. /\ g.menu \in [1..2 -> OsImages \cup {NoImage}] /\ g.menu[1] = image /\ g.menu[2] = f.current
        /\ image # f.current /\ f.current \in OsImages /\ image # NoImage /\ f.current # NoImage
    BY <2>1, InstallerAssumption DEF SlotsOk
  <2>3. SlotsOk(g)
    BY <2>1, <2>2 DEF SlotsOk, Points
  <2>4. \A z \in Range(r) : z[1] # "installer"
    BY <1>2, <1>9 DEF Does
  <2>5. Installing(g, image, r)
    BY <1>2, <1>5, <1>6, <2>4 DEF Installing
  <2> QED
    BY <2>3, <2>5 DEF r
<1> QED
  BY <1>5, <1>7, <1>8, <1>9

LEMMA SelectedStep ==
  ASSUME NEW f, SlotsOk(f), NEW g, SameMenu(f, g), g.current = f.current,
         g.default = f.default \/ Points(f, g.default),
         g.once \in {f.once, NoImage} \/ Points(f, g.once)
  PROVE  SlotsOk(g)
  BY DEF SlotsOk, SameMenu, Points

LEMMA SelectingStep ==
  ASSUME NEW f, SlotsOk(f), NEW q, Selecting(f, q), NEW image,
         NEW g, SlotsKept(f, Head(q)[1], Head(q)[2], g)
  PROVE  SlotsOk(g) /\ SlotSteps(g, image, Tail(q))
<1>1. PICK x : \/ q = << <<"default", x>>, <<"once", NoImage>> >> /\ Points(f, x)
               \/ q = << <<"once", x>> >> /\ (x # NoImage => Points(f, x))
  BY DEF Selecting
<1>2. CASE q = << <<"default", x>>, <<"once", NoImage>> >> /\ Points(f, x)
  <2>1. Head(q) = <<"default", x>> /\ Tail(q) = << <<"once", NoImage>> >>
    BY <1>2, Heads
  <2>2. SlotsKept(f, "default", x, g)
    BY <2>1
  <2>3. SameMenu(f, g) /\ g.current = f.current /\ g.once = f.once /\ g.default = x
    BY <2>2 DEF SlotsKept
  <2>4. SlotsOk(g)
    BY <1>2, <2>3, SelectedStep
  <2>5. Selecting(g, << <<"once", NoImage>> >>)
    BY DEF Selecting
  <2> QED
    BY <2>1, <2>4, <2>5 DEF SlotSteps
<1>3. CASE q = << <<"once", x>> >> /\ (x # NoImage => Points(f, x))
  <2>1. Head(q) = <<"once", x>> /\ Tail(q) = <<>>
    BY <1>3, Heads
  <2>2. SlotsKept(f, "once", x, g)
    BY <2>1
  <2>3. SameMenu(f, g) /\ g.current = f.current /\ g.default = f.default /\ g.once = x
    BY <2>2 DEF SlotsKept
  <2>4. SlotsOk(g)
    BY <1>3, <2>3, SelectedStep
  <2> QED
    BY <2>1, <2>4, NoSteps
<1> QED
  BY <1>1, <1>2, <1>3

LEMMA RemovingStep ==
  ASSUME NEW f, SlotsOk(f), NEW q, Removing(f, q), NEW image, Head(q)[1] # "remove_image",
         NEW g, SlotsKept(f, Head(q)[1], Head(q)[2], g)
  PROVE  SlotsOk(g) /\ SlotSteps(g, image, Tail(q))
<1>1. PICK i, x :
    /\ Other(f, i)
    /\ \/ q = << <<"remove_image", i>> >>
       \/ /\ q = << <<"once", NoImage>>, <<"default", x>>, <<"unlist", i>>, <<"rmdir", i>> >>
          /\ Points(f, x) /\ f.menu[x] # i
       \/ /\ q = << <<"default", x>>, <<"unlist", i>>, <<"rmdir", i>> >>
          /\ Points(f, x) /\ f.menu[x] # i /\ LeavesOnce(f, i)
       \/ /\ q = << <<"once", NoImage>>, <<"unlist", i>>, <<"rmdir", i>> >>
          /\ LeavesDefault(f, i)
       \/ /\ q = << <<"unlist", i>>, <<"rmdir", i>> >>
          /\ LeavesDefault(f, i) /\ LeavesOnce(f, i)
  BY DEF Removing
<1>2. q # << <<"remove_image", i>> >>
  BY Heads
<1>3. CASE q = << <<"once", NoImage>>, <<"default", x>>, <<"unlist", i>>, <<"rmdir", i>> >>
           /\ Points(f, x) /\ f.menu[x] # i
  <2> DEFINE r == << <<"default", x>>, <<"unlist", i>>, <<"rmdir", i>> >>
  <2>1. Head(q) = <<"once", NoImage>> /\ Tail(q) = r
    BY <1>3, Heads
  <2>2. SlotsKept(f, "once", NoImage, g)
    BY <2>1
  <2>3. SameMenu(f, g) /\ g.current = f.current /\ g.default = f.default /\ g.once = NoImage
    BY <2>2 DEF SlotsKept
  <2>4. SlotsOk(g)
    BY <2>3, SelectedStep
  <2>5. Other(g, i) /\ Points(g, x) /\ g.menu[x] # i /\ LeavesOnce(g, i)
    BY <1>1, <1>3, <2>3 DEF Other, Points, SameMenu, LeavesOnce
  <2>6. Removing(g, r)
    BY <2>5 DEF Removing
  <2> QED
    BY <2>1, <2>4, <2>6 DEF SlotSteps
<1>4. CASE q = << <<"default", x>>, <<"unlist", i>>, <<"rmdir", i>> >>
           /\ Points(f, x) /\ f.menu[x] # i /\ LeavesOnce(f, i)
  <2> DEFINE r == << <<"unlist", i>>, <<"rmdir", i>> >>
  <2>1. Head(q) = <<"default", x>> /\ Tail(q) = r
    BY <1>4, Heads
  <2>2. SlotsKept(f, "default", x, g)
    BY <2>1
  <2>3. SameMenu(f, g) /\ g.current = f.current /\ g.default = x /\ g.once = f.once
    BY <2>2 DEF SlotsKept
  <2>4. SlotsOk(g)
    BY <1>4, <2>3, SelectedStep
  <2>5. Other(g, i) /\ LeavesDefault(g, i) /\ LeavesOnce(g, i)
    BY <1>1, <1>4, <2>3 DEF Other, Points, SameMenu, LeavesOnce, LeavesDefault
  <2>6. Removing(g, r)
    BY <2>5 DEF Removing
  <2> QED
    BY <2>1, <2>4, <2>6 DEF SlotSteps
<1>5. CASE q = << <<"once", NoImage>>, <<"unlist", i>>, <<"rmdir", i>> >> /\ LeavesDefault(f, i)
  <2> DEFINE r == << <<"unlist", i>>, <<"rmdir", i>> >>
  <2>1. Head(q) = <<"once", NoImage>> /\ Tail(q) = r
    BY <1>5, Heads
  <2>2. SlotsKept(f, "once", NoImage, g)
    BY <2>1
  <2>3. SameMenu(f, g) /\ g.current = f.current /\ g.default = f.default /\ g.once = NoImage
    BY <2>2 DEF SlotsKept
  <2>4. SlotsOk(g)
    BY <2>3, SelectedStep
  <2>5. Other(g, i) /\ LeavesDefault(g, i) /\ LeavesOnce(g, i)
    BY <1>1, <1>5, <2>3 DEF Other, SameMenu, LeavesOnce, LeavesDefault
  <2>6. Removing(g, r)
    BY <2>5 DEF Removing
  <2> QED
    BY <2>1, <2>4, <2>6 DEF SlotSteps
<1>6. CASE q = << <<"unlist", i>>, <<"rmdir", i>> >> /\ LeavesDefault(f, i) /\ LeavesOnce(f, i)
  <2> DEFINE r == << <<"rmdir", i>> >>
  <2>1. Head(q) = <<"unlist", i>> /\ Tail(q) = r
    BY <1>6, Heads
  <2>2. SlotsKept(f, "unlist", i, g)
    BY <2>1
  <2>3. /\ g.menu = [k \in DOMAIN f.menu |-> IF f.menu[k] = i THEN NoImage ELSE f.menu[k]]
        /\ g.current = f.current /\ g.dirs = f.dirs /\ g.default = f.default /\ g.once = f.once
    BY <2>2 DEF SlotsKept, SameSelectors
  <2>4. DOMAIN f.menu = 1..2
    BY DEF SlotsOk
  <2>5. /\ g.menu \in [1..2 -> OsImages \cup {NoImage}]
        /\ \A k \in 1..2 : g.menu[k] = IF f.menu[k] = i THEN NoImage ELSE f.menu[k]
    BY <2>3, <2>4 DEF SlotsOk
  <2>6. /\ f.current \in OsImages /\ f.current \in {f.menu[1], f.menu[2]} /\ f.menu[1] # f.menu[2]
        /\ i # NoImage /\ i # f.current /\ i \in {f.menu[1], f.menu[2]} /\ f.current # NoImage
    BY <1>1, InstallerAssumption DEF SlotsOk, Other
  <2>7. g.menu[1] # g.menu[2] /\ f.current \in {g.menu[1], g.menu[2]} /\ i \notin {g.menu[1], g.menu[2]}
    BY <2>5, <2>6
  <2>8. Points(g, g.default) /\ (g.once # NoImage => Points(g, g.once))
    BY <1>6, <2>3, <2>5 DEF SlotsOk, Points, LeavesDefault, LeavesOnce
  <2>9. \A k \in 1..2 : g.menu[k] # NoImage => g.menu[k] \in g.dirs
    BY <2>3, <2>5 DEF SlotsOk
  <2>10. SlotsOk(g)
    BY <2>3, <2>5, <2>6, <2>7, <2>8, <2>9 DEF SlotsOk
  <2>11. Erasing(g, r)
    BY <2>7 DEF Erasing
  <2> QED
    BY <2>1, <2>10, <2>11 DEF SlotSteps
<1> QED
  BY <1>1, <1>2, <1>3, <1>4, <1>5, <1>6

LEMMA ErasingStep ==
  ASSUME NEW f, SlotsOk(f), NEW q, Erasing(f, q), NEW image,
         NEW g, SlotsKept(f, Head(q)[1], Head(q)[2], g)
  PROVE  SlotsOk(g) /\ SlotSteps(g, image, Tail(q))
<1>1. PICK i : i \notin {f.menu[1], f.menu[2]} /\ q = << <<"rmdir", i>> >>
  BY DEF Erasing
<1>2. Head(q) = <<"rmdir", i>> /\ Tail(q) = <<>>
  BY <1>1, Heads
<1>3. SlotsKept(f, "rmdir", i, g)
  BY <1>2
<1>4. g.menu = f.menu /\ g.dirs = f.dirs \ {i} /\ SameSelectors(f, g) /\ g.current = f.current
  BY <1>3 DEF SlotsKept
<1>5. \A k \in 1..2 : f.menu[k] # i
  BY <1>1
<1>6. SlotsOk(g)
  BY <1>4, <1>5 DEF SlotsOk, SameSelectors, Points
<1> QED
  BY <1>2, <1>6, NoSteps

\* The steps of a removal, from what bmc.py reads of the slots.
LEMMA RemovalSteps ==
  ASSUME NEW f, f.kind = "bmc", SlotsOk(f), NEW i, Other(f, i), NEW q, q = remove_image(f, i)
  PROVE  Removing(f, q) /\ Listing(q) /\ q # <<>>
<1> DEFINE k == Position(f, i)
           a == IF f.once = k THEN << <<"once", NoImage>> >> ELSE <<>>
           b == IF f.default = k THEN << <<"default", 3 - k>> >> ELSE <<>>
           c == << <<"unlist", i>>, <<"rmdir", i>> >>
           x == 3 - k
<1>1. k \in 1..2 /\ f.menu[k] = i
  BY PositionIs DEF Other
<1>2. x \in 1..2 /\ x # k /\ f.menu[x] = f.current /\ f.menu[x] # NoImage /\ f.menu[x] # i
  BY <1>1, InstallerAssumption DEF SlotsOk, Other
<1>3. q = (a \o b) \o c
  BY <1>2 DEF remove_image, bmc_remove_image
<1>4. Points(f, x) /\ (f.default # k => LeavesDefault(f, i)) /\ (f.once # k => LeavesOnce(f, i))
  BY <1>1, <1>2 DEF Points, SlotsOk, LeavesDefault, LeavesOnce
<1> HIDE DEF x
<1> DEFINE o == <<"once", NoImage>>
           d == <<"default", x>>
           u == <<"unlist", i>>
           r == <<"rmdir", i>>
<1>5. /\ a = (IF f.once = k THEN <<o>> ELSE <<>>)
      /\ b = (IF f.default = k THEN <<d>> ELSE <<>>)
      /\ c = <<u, r>>
  BY DEF x
<1>6. /\ q = <<o, d, u, r>> => Removing(f, q)
      /\ q = <<d, u, r>> /\ LeavesOnce(f, i) => Removing(f, q)
      /\ q = <<o, u, r>> /\ LeavesDefault(f, i) => Removing(f, q)
      /\ q = <<u, r>> /\ LeavesDefault(f, i) /\ LeavesOnce(f, i) => Removing(f, q)
  BY <1>2, <1>4 DEF Removing
<1> HIDE DEF a, b, c, o, d, u, r
<1>7. \/ q = <<o, d, u, r>>
      \/ q = <<d, u, r>> /\ f.once # k
      \/ q = <<o, u, r>> /\ f.default # k
      \/ q = <<u, r>> /\ f.default # k /\ f.once # k
  <2>1. Listing(<<>>) /\ Listing(<<o>>) /\ Listing(<<d>>) /\ Listing(<<u, r>>)
    BY Heads, ListingNone
  <2>2. /\ <<o>> \o <<d>> = <<o, d>> /\ <<o, d>> \o <<u, r>> = <<o, d, u, r>>
        /\ <<d>> \o <<u, r>> = <<d, u, r>> /\ <<o>> \o <<u, r>> = <<o, u, r>>
    <3>1. <<o>> \o <<d>> = <<o, d>> /\ <<o, d>> \o <<u, r>> = <<o, d, u, r>>
      BY Glued
    <3>2. <<d>> \o <<u, r>> = <<d, u, r>>
      BY Glued
    <3>3. <<o>> \o <<u, r>> = <<o, u, r>>
      BY Glued
    <3> QED
      BY <3>1, <3>2, <3>3
  <2>3. /\ <<o>> \o <<>> = <<o>> /\ <<>> \o <<d>> = <<d>> /\ <<>> \o <<>> = <<>> /\ <<>> \o <<u, r>> = <<u, r>>
    BY <2>1, GluedNone
  <2> QED
    BY <1>3, <1>5, <2>2, <2>3
<1>8. Listing(q) /\ q # <<>>
  <2>1. Listing(<<o, d, u, r>>) /\ <<o, d, u, r>> # <<>>
    BY Heads
  <2>2. Listing(<<d, u, r>>) /\ <<d, u, r>> # <<>>
    BY Heads
  <2>3. Listing(<<o, u, r>>) /\ <<o, u, r>> # <<>>
    BY Heads
  <2>4. Listing(<<u, r>>) /\ <<u, r>> # <<>>
    BY Heads
  <2> QED
    BY <1>7, <2>1, <2>2, <2>3, <2>4
<1> QED
  BY <1>4, <1>6, <1>7, <1>8

---------------------------------------------------------------------------
\* The invariant of a BMC: both selectors name a slot whose image is there, and
\* the steps that are left keep it so.
SlotsInv ==
  flash.kind = "bmc" =>
    /\ ~efi.secure
    /\ ~flash.torn =>
         /\ SlotsOk(flash) /\ Listing(job.steps) /\ (job # NoJob => job.steps # <<>>)
         /\ SlotSteps(flash, job.image, job.steps)

LEMMA SlotsStart ==
  ASSUME InstallerInit
  PROVE  SlotsInv
<1> SUFFICES ASSUME flash.kind = "bmc"
             PROVE  SlotsInv
  BY DEF SlotsInv
<1>1. flash = [kind |-> "bmc", current |-> FirstImage, dirs |-> {FirstImage}, menu |-> <<FirstImage, NoImage>>,
               default |-> 1, once |-> NoImage, fips |-> {}, environment |-> {}, packages |-> {},
               swap |-> FALSE, torn |-> FALSE]
  <2>1. PICK k \in Loaders :
          flash = [kind |-> k, current |-> FirstImage, dirs |-> {FirstImage},
                   menu |-> IF k \in {"uboot", "bmc"} THEN <<FirstImage, NoImage>> ELSE <<FirstImage>>,
                   default |-> IF k = "aboot" THEN FirstImage ELSE 1,
                   once |-> IF k = "aboot" THEN FirstImage ELSE NoImage,
                   fips |-> {}, environment |-> {}, packages |-> {}, swap |-> FALSE, torn |-> FALSE]
    BY Zenon DEF InstallerInit
  <2>2. k = "bmc"
    BY <2>1
  <2> QED
    BY <2>1, <2>2
<1>2. /\ flash.menu = <<FirstImage, NoImage>> /\ flash.current = FirstImage /\ flash.dirs = {FirstImage}
      /\ flash.default = 1 /\ flash.once = NoImage
  BY <1>1
<1>3. SlotsOk(flash)
  <2>1. flash.menu \in [1..2 -> OsImages \cup {NoImage}] /\ flash.menu[1] = FirstImage /\ flash.menu[2] = NoImage
    BY <1>2, InstallerAssumption
  <2> QED
    BY <1>2, <2>1, InstallerAssumption DEF SlotsOk, Points
<1>4. ~efi.secure
  <2>1. PICK db, secure : efi = [db |-> db, secure |-> secure /\ flash.kind = "grub", updateFailed |-> FALSE]
    BY Zenon DEF InstallerInit
  <2> QED
    BY <1>1, <2>1
<1>5. job.steps = <<>> /\ job = NoJob
  BY Zenon DEF InstallerInit, NoJob
<1> QED
  BY <1>3, <1>4, <1>5, ListingNone, NoSteps DEF SlotsInv

LEMMA GiveSlots ==
  ASSUME SlotsInv, NEW i, NEW q, Give(i, q),
         flash.kind = "bmc" /\ ~flash.torn => Listing(q) /\ q # <<>> /\ SlotSteps(flash, i, q)
  PROVE  SlotsInv'
<1>1. flash' = flash /\ efi' = efi /\ job'.steps = q /\ job'.image = i
  BY GivenJob
<1> QED
  BY <1>1 DEF SlotsInv

LEMMA CommandSlots ==
  ASSUME SlotsInv, ImageCommand
  PROVE  SlotsInv'
<1> DEFINE Bmc == flash.kind = "bmc" /\ ~flash.torn
           Fine(i, q) == Bmc => Listing(q) /\ q # <<>> /\ SlotSteps(flash, i, q)
<1>0. Bmc => SlotsOk(flash) /\ ~efi.secure
  BY DEF SlotsInv
<1>1. Bmc => \A i : i \in get_installed_images(flash) <=> i \in {flash.menu[1], flash.menu[2]} \ {NoImage}
  <2> SUFFICES ASSUME Bmc
               PROVE  Range(flash.menu) = {flash.menu[1], flash.menu[2]}
    BY DEF get_installed_images
  <2>1. DOMAIN flash.menu = 1..2
    BY <1>0 DEF SlotsOk
  <2> QED
    BY <2>1 DEF Range
<1>2. ASSUME NEW i \in get_installed_images(flash), NEW j
      PROVE  Fine(j, set_default_image(flash, i)) /\ Fine(j, set_next_image(flash, i))
  <2> SUFFICES ASSUME Bmc
               PROVE  /\ Listing(set_default_image(flash, i)) /\ set_default_image(flash, i) # <<>>
                      /\ Listing(set_next_image(flash, i)) /\ set_next_image(flash, i) # <<>>
                      /\ Selecting(flash, set_default_image(flash, i)) /\ Selecting(flash, set_next_image(flash, i))
    BY DEF SlotSteps
  <2> DEFINE k == Position(flash, i)
  <2>1. k \in 1..2 /\ flash.menu[k] = i /\ i # NoImage
    BY <1>0, <1>1, <1>2, PositionIs
  <2>2. Points(flash, k)
    BY <2>1 DEF Points
  <2> DEFINE p == << <<"default", k>>, <<"once", NoImage>> >>
             s == << <<"once", k>> >>
  <2>3. set_default_image(flash, i) = p /\ set_next_image(flash, i) = s
    BY DEF set_default_image, set_next_image
  <2>4. Listing(p) /\ p # <<>> /\ Listing(s) /\ s # <<>>
    BY Heads
  <2>5. Selecting(flash, p) /\ Selecting(flash, s)
    <3> HIDE DEF k
    <3> QED
      BY <2>2 DEF Selecting
  <2> HIDE DEF p, s
  <2> QED
    BY <2>3, <2>4, <2>5
<1>3. ASSUME NEW i \in OsImages, NEW c, NEW s, NEW b, NEW m, sonic_installer_install(i, c, s, b, m)
      PROVE  SlotsInv'
  <2>1. CASE i \in get_installed_images(flash)
    <3>1. Give(i, set_default_image(flash, i))
      BY <1>3, <2>1 DEF sonic_installer_install
    <3> QED
      BY <1>2, <2>1, <3>1, GiveSlots
  <2>2. CASE i \notin get_installed_images(flash)
    <3>1. PICK q : Give(i, q) /\ q = InstallList(flash, i, efi.secure, s, b, m)
      BY <1>3, <2>2 DEF sonic_installer_install, InstallList
    <3>2. ASSUME Bmc
          PROVE  Listing(q) /\ q # <<>> /\ Installing(flash, i, q)
      <4>0. flash.kind \in {"grub", "bmc"}
        BY <3>2
      <4> HIDE DEF Bmc, Fine
      <4>1. /\ Listing(q) /\ q # <<>> /\ Precedes("verify", "installer", q)
            /\ Range(q) \subseteq SignSteps(i) \cup InstallWrites(i)
            /\ flash.kind = "grub" /\ efi.secure => <<"verify", i>> \in Range(q)
            /\ flash.kind = "bmc" => \A y \in Range(q) : y[1] \notin {"default", "enroll", "verify"}
            /\ Sole("installer", q)
        BY <3>1, <4>0, InstallJob
      <4>2. \A y \in SignSteps(i) \cup InstallWrites(i) :
              /\ y[1] \in IdleVerbs \cup {"installer", "once", "default", "enroll", "verify"}
              /\ y[1] = "once" => y[2] = NoImage
              /\ y[1] = "installer" => y[2] = i
        BY DEF SignSteps, InstallWrites, IdleVerbs
      <4>3. Does(q) \subseteq IdleVerbs \cup {"installer", "once"}
        BY <3>2, <4>1, <4>2 DEF Does, Bmc
      <4>4. i \in OsImages \ {flash.menu[1], flash.menu[2]}
        BY <1>1, <2>2, <3>2, InstallerAssumption
      <4> QED
        BY <4>1, <4>2, <4>3, <4>4 DEF Installing
    <3> QED
      BY <3>1, <3>2, GiveSlots DEF SlotSteps
  <2> QED
    BY <2>1, <2>2
<1>4. ASSUME NEW i, set_default(i) \/ set_next_boot(i)
      PROVE  SlotsInv'
  <2>1. /\ i \in get_installed_images(flash)
        /\ Give(i, set_default_image(flash, i)) \/ Give(i, set_next_image(flash, i))
    BY <1>4 DEF set_default, set_next_boot
  <2> QED
    BY <1>2, <2>1, GiveSlots
<1>5. ASSUME NEW i, NEW b, set_fips(i, b)
      PROVE  SlotsInv'
  <2>1. PICK v, j : v \in {"fips", "nofips"} /\ Give(j, << <<v, j>> >>)
    BY <1>5 DEF set_fips
  <2> DEFINE q == << <<v, j>> >>
  <2>2. Listing(q) /\ q # <<>> /\ Range(q) = { <<v, j>> }
    BY ListingOne
  <2>3. Give(j, q)
    BY <2>1
  <2> HIDE DEF q
  <2>4. Does(q) = {v}
    BY <2>2 DEF Does
  <2>5. Installing(flash, j, q)
    <3>1. v \in IdleVerbs /\ v # "installer" /\ v # "once"
      BY <2>1 DEF IdleVerbs
    <3>2. \A y \in Range(q) : y[1] = v
      BY <2>2
    <3>3. Sole("installer", q)
      BY <2>4, <3>1, SoleFree
    <3> QED
      BY <2>4, <3>1, <3>2, <3>3 DEF Installing
  <2> QED
    BY <2>2, <2>3, <2>5, GiveSlots DEF SlotSteps
<1>6. ASSUME Bmc, NEW i \in {flash.menu[1], flash.menu[2]} \ {NoImage, flash.current}, NEW j
      PROVE  Fine(j, << <<"remove_image", i>> >> \o prune_stale_db_certs)
  <2> DEFINE q == << <<"remove_image", i>> >>
  <2>1. Listing(q) /\ q # <<>>
    BY Heads
  <2>2. Removing(flash, q)
    BY <1>6 DEF Removing, Other
  <2> HIDE DEF q
  <2>3. q \o prune_stale_db_certs = q
    BY <1>0, <1>6, <2>1, GluedNone DEF prune_stale_db_certs
  <2>4. Fine(j, q \o prune_stale_db_certs)
    BY <2>1, <2>2, <2>3 DEF SlotSteps
  <2> QED
    BY <2>4 DEF q
<1>7. ASSUME NEW i, sonic_installer_remove(i)
      PROVE  SlotsInv'
  <2>1. Give(i, << <<"remove_image", i>> >> \o prune_stale_db_certs) /\ i \in get_installed_images(flash) \ {flash.current}
    BY <1>7 DEF sonic_installer_remove
  <2>2. Fine(i, << <<"remove_image", i>> >> \o prune_stale_db_certs)
    BY <1>1, <1>6, <2>1
  <2> QED
    BY <2>1, <2>2, GiveSlots
<1>8. ASSUME cleanup
      PROVE  SlotsInv'
  <2> DEFINE gone == get_installed_images(flash) \ {flash.current, get_next_image(flash)}
             p(order) == [k \in DOMAIN order |-> <<"remove_image", order[k]>>]
  <2>1. PICK order \in SetToSeqs(gone) : Give(NoImage, p(order) \o prune_stale_db_certs)
    BY <1>8 DEF cleanup
  <2>2. gone # {}
    BY <1>8 DEF cleanup
  <2>3. ASSUME Bmc
        PROVE  \E i \in {flash.menu[1], flash.menu[2]} \ {NoImage, flash.current} : p(order) = << <<"remove_image", i>> >>
    <3>1. PICK i : i \in gone
      BY <2>2
    <3>2. i \in {flash.menu[1], flash.menu[2]} \ {NoImage, flash.current}
      BY <1>1, <2>3, <3>1
    <3>3. gone = {i}
      <4>1. \A j \in gone : j \in {flash.menu[1], flash.menu[2]} /\ j # flash.current
        BY <1>1, <2>3
      <4>2. flash.current \in {flash.menu[1], flash.menu[2]}
        BY <1>0, <2>3 DEF SlotsOk
      <4> HIDE DEF gone
      <4> QED
        BY <3>1, <4>1, <4>2
    <3> HIDE DEF gone
    <3>4. order \in [1..1 -> {i}]
      BY <2>1, <3>3, FS_Singleton DEF SetToSeqs
    <3>5. p(order) = << <<"remove_image", i>> >>
      BY <3>4
    <3> QED
      BY <3>2, <3>5
  <2>4. Fine(NoImage, p(order) \o prune_stale_db_certs)
    <3> HIDE DEF p
    <3> QED
      BY <1>6, <2>3
  <2> HIDE DEF p
  <2> QED
    BY <2>1, <2>4, GiveSlots
<1>9. ASSUME NEW b, prune_command(b)
      PROVE  SlotsInv'
  <2>1. flash.kind = "grub" /\ Give(NoImage, << <<"prune", b>> >>)
    BY <1>9 DEF prune_command
  <2>2. flash' = flash
    BY <2>1, GivenJob
  <2> QED
    BY <2>1, <2>2 DEF SlotsInv
<1> QED
  BY <1>3, <1>4, <1>5, <1>7, <1>8, <1>9 DEF ImageCommand

\* What the steps that are left say of the next one.
LEMMA SlotVerbs ==
  ASSUME NEW f, NEW image, NEW q, Listing(q), q # <<>>, SlotSteps(f, image, q)
  PROVE  /\ Head(q)[1] \in IdleVerbs \cup {"installer", "once", "default", "unlist", "rmdir", "remove_image"}
         /\ Head(q)[1] = "remove_image" => \E i : Other(f, i) /\ q = << <<"remove_image", i>> >>
         /\ Head(q)[1] = "installer" => image \notin {f.menu[1], f.menu[2]}
<1> DEFINE v == Head(q)[1]
<1>1. CASE Installing(f, image, q)
  <2>1. Range(q) = {Head(q)} \cup Range(Tail(q))
    BY ListingFirst
  <2>2. v \in Does(q) /\ Head(q) \in Range(q)
    BY <2>1 DEF Does
  <2> QED
    BY <1>1, <2>2 DEF Installing, IdleVerbs
<1>2. CASE Selecting(f, q)
  <2>1. PICK x : q = << <<"default", x>>, <<"once", NoImage>> >> \/ q = << <<"once", x>> >>
    BY <1>2 DEF Selecting
  <2>2. Head(q) = <<"default", x>> \/ Head(q) = <<"once", x>>
    BY <2>1, Heads
  <2> QED
    BY <2>2
<1>3. CASE Removing(f, q)
  <2>1. PICK i, x :
          /\ Other(f, i)
          /\ \/ q = << <<"remove_image", i>> >>
             \/ q = << <<"once", NoImage>>, <<"default", x>>, <<"unlist", i>>, <<"rmdir", i>> >>
             \/ q = << <<"default", x>>, <<"unlist", i>>, <<"rmdir", i>> >>
             \/ q = << <<"once", NoImage>>, <<"unlist", i>>, <<"rmdir", i>> >>
             \/ q = << <<"unlist", i>>, <<"rmdir", i>> >>
    BY <1>3 DEF Removing
  <2>2. \/ q = << <<"remove_image", i>> >> /\ Head(q) = <<"remove_image", i>>
        \/ Head(q) = <<"once", NoImage>>
        \/ Head(q) = <<"default", x>>
        \/ Head(q) = <<"unlist", i>>
    BY <2>1, Heads
  <2> QED
    BY <2>1, <2>2
<1>4. CASE Erasing(f, q)
  <2>1. PICK i : q = << <<"rmdir", i>> >>
    BY <1>4 DEF Erasing
  <2>2. Head(q) = <<"rmdir", i>>
    BY <2>1, Heads
  <2> QED
    BY <2>2
<1> QED
  BY <1>1, <1>2, <1>3, <1>4 DEF SlotSteps

LEMMA FlashStepSlots ==
  ASSUME ImagesRecords, SlotsInv, FlashStep
  PROVE  SlotsInv'
<1> SUFFICES ASSUME flash'.kind = "bmc"
             PROVE  SlotsInv'
  BY DEF SlotsInv
<1> DEFINE q == job.steps
           v == Head(q)[1]
           x == Head(q)[2]
           g == flash'
<1>1. g \in FlashEffects(flash, v, x) /\ Continue(Tail(q)) /\ efi' = efi /\ job # NoJob
  BY DEF FlashStep, Working, verb, arg
<1>2. job'.steps = Tail(q) /\ (job' # NoJob => Tail(q) # <<>>) /\ (Tail(q) # <<>> => job'.image = job.image)
  BY <1>1, ContinuedJob
<1> HIDE DEF v, x, g
<1>3. FlashKept(flash, v, x, g)
  BY <1>1, FlashKeeps DEF ImagesRecords
<1>4. flash.kind = "bmc"
  BY <1>3 DEF FlashKept, g
<1>5. SlotsKept(flash, v, x, g)
  BY <1>1, <1>4, SlotsKeep DEF ImagesRecords
<1>6. ASSUME ~g.torn
      PROVE  SlotsOk(g) /\ Listing(Tail(q)) /\ SlotSteps(g, job.image, Tail(q))
  <2>1. SlotsOk(flash) /\ Listing(q) /\ q # <<>> /\ SlotSteps(flash, job.image, q)
    BY <1>1, <1>4, <1>5, <1>6 DEF SlotsInv, SlotsKept
  <2>2. Listing(Tail(q))
    BY <2>1, ListingFirst
  <2>3. v # "remove_image"
    BY <1>1 DEF FlashEffects
  <2>4. SlotsKept(flash, Head(q)[1], Head(q)[2], g) /\ Head(q)[1] # "remove_image"
    BY <1>5, <2>3 DEF v, x
  <2> HIDE DEF q
  <2>5. CASE Installing(flash, job.image, q)
    BY <2>1, <2>2, <2>4, <2>5, InstallingStep DEF SlotSteps
  <2>6. CASE Selecting(flash, q)
    BY <2>1, <2>2, <2>4, <2>6, SelectingStep
  <2>7. CASE Removing(flash, q)
    BY <2>1, <2>2, <2>4, <2>7, RemovingStep
  <2>8. CASE Erasing(flash, q)
    BY <2>1, <2>2, <2>4, <2>8, ErasingStep
  <2> QED
    BY <2>1, <2>5, <2>6, <2>7, <2>8 DEF SlotSteps
<1>7. ASSUME ~g.torn
      PROVE  SlotSteps(g, job'.image, job'.steps)
  <2>1. CASE Tail(q) = <<>>
    BY <1>2, <2>1, NoSteps
  <2>2. CASE Tail(q) # <<>>
    BY <1>2, <1>6, <1>7, <2>2
  <2> QED
    BY <2>1, <2>2
<1> QED
  BY <1>1, <1>2, <1>4, <1>6, <1>7 DEF SlotsInv, g

LEMMA DbStepSlots ==
  ASSUME ImagesRecords, SlotsInv, DbStep
  PROVE  SlotsInv'
<1> DEFINE q == job.steps
           v == Head(q)[1]
           x == Head(q)[2]
           d == efi'
<1>1. d \in DbEffects(efi, v, x) /\ flash' = flash /\ job # NoJob
  BY DEF DbStep, Working, verb, arg
<1> HIDE DEF v, x, d
<1>2. d.secure = efi.secure /\ v \in {"enroll", "remove_all", "append"}
  BY <1>1, DbKeeps DEF ImagesRecords
<1>3. flash.kind = "bmc" => flash.torn
  <2> SUFFICES ASSUME flash.kind = "bmc", ~flash.torn
               PROVE  FALSE
    OBVIOUS
  <2>1. Listing(q) /\ q # <<>> /\ SlotSteps(flash, job.image, q)
    BY <1>1 DEF SlotsInv
  <2>2. v \in IdleVerbs \cup {"installer", "once", "default", "unlist", "rmdir", "remove_image"}
    BY <2>1, SlotVerbs DEF v
  <2> QED
    BY <1>2, <2>2 DEF IdleVerbs
<1> QED
  BY <1>1, <1>2, <1>3 DEF SlotsInv, d

LEMMA ExpandSlots ==
  ASSUME ImagesRecords, SlotsInv, Expand
  PROVE  SlotsInv'
<1> DEFINE q == job.steps
           v == Head(q)[1]
           x == Head(q)[2]
<1>1. PICK r :
        /\ Continue(r) /\ flash' = flash /\ efi' = efi /\ job # NoJob
        /\ \/ v = "remove_image" /\ r = remove_image(flash, x) \o Tail(q)
           \/ v \in {"prune", "verify"}
           \/ v = "exit" /\ r = <<>>
  BY DEF Expand, Working, verb, arg
<1>2. job'.steps = r /\ (job' # NoJob => r # <<>>) /\ (r # <<>> => job'.image = job.image)
  BY <1>1, ContinuedJob
<1>3. ASSUME flash.kind = "bmc", ~flash.torn
      PROVE  SlotsOk(flash) /\ Listing(r) /\ SlotSteps(flash, job.image, r)
  <2>1. SlotsOk(flash) /\ Listing(q) /\ q # <<>> /\ SlotSteps(flash, job.image, q)
    BY <1>1, <1>3 DEF SlotsInv
  <2> HIDE DEF q
  <2>2. /\ v \in IdleVerbs \cup {"installer", "once", "default", "unlist", "rmdir", "remove_image"}
        /\ v = "remove_image" => \E i : Other(flash, i) /\ q = << <<"remove_image", i>> >>
    BY <2>1, SlotVerbs
  <2>3. v = "remove_image" /\ r = remove_image(flash, x) \o Tail(q)
    BY <1>1, <2>2 DEF IdleVerbs
  <2>4. PICK i : Other(flash, i) /\ q = << <<"remove_image", i>> >>
    BY <2>2, <2>3
  <2>5. Head(q) = <<"remove_image", i>> /\ Tail(q) = <<>>
    BY <2>4, Heads
  <2>6. x = i
    BY <2>5
  <2> DEFINE p == remove_image(flash, i)
  <2>7. Removing(flash, p) /\ Listing(p) /\ p # <<>>
    BY <1>3, <2>1, <2>4, RemovalSteps
  <2>8. r = p \o <<>>
    BY <2>3, <2>5, <2>6
  <2> HIDE DEF p
  <2>9. r = p
    BY <2>7, <2>8, GluedNone
  <2> QED
    BY <2>1, <2>7, <2>9 DEF SlotSteps
<1>4. ASSUME flash.kind = "bmc", ~flash.torn
      PROVE  SlotSteps(flash, job'.image, r)
  BY <1>2, <1>3, <1>4, NoSteps
<1> QED
  BY <1>1, <1>2, <1>3, <1>4 DEF SlotsInv

LEMMA StepFailedSlots ==
  ASSUME ImagesRecords, SlotsInv, StepFailed
  PROVE  SlotsInv'
<1> DEFINE q == job.steps
           v == Head(q)[1]
           r == IF v = "append" THEN Tail(q) ELSE <<>>
<1>1. Continue(r) /\ job # NoJob /\ \E b : efi' = [efi EXCEPT !.updateFailed = b]
  BY DEF StepFailed, Working, verb
<1>2. efi'.secure = efi.secure
  <2>1. PICK base, secure, failed : efi = [db |-> base, secure |-> secure, updateFailed |-> failed]
    BY DEF ImagesRecords, DbRecord
  <2> QED
    BY <1>1, <2>1
<1>3. \/ flash' = flash
      \/ /\ v \in {"installer", "default", "once"}
         /\ flash' = [flash EXCEPT !.dirs = @ \ {job.image}, !.swap = FALSE, !.torn = @ \/ v # "installer"]
  BY DEF StepFailed, verb
<1>4. /\ flash'.kind = flash.kind /\ flash'.menu = flash.menu /\ flash'.current = flash.current
      /\ flash'.default = flash.default /\ flash'.once = flash.once
      /\ (~flash'.torn => ~flash.torn)
      /\ ~flash'.torn => flash'.dirs = flash.dirs \/ (v = "installer" /\ flash'.dirs = flash.dirs \ {job.image})
  <2>1. PICK k, c, ds, m, df, o, fi, en, pk, sw, to :
          flash = [kind |-> k, current |-> c, dirs |-> ds, menu |-> m, default |-> df, once |-> o, fips |-> fi,
                   environment |-> en, packages |-> pk, swap |-> sw, torn |-> to]
    BY DEF ImagesRecords, FlashRecord
  <2>2. CASE flash' = flash
    BY <2>2
  <2>3. CASE flash' # flash
    <3> DEFINE rest == ds \ {job.image}
    <3>1. flash' = [kind |-> k, current |-> c, dirs |-> rest, menu |-> m, default |-> df, once |-> o, fips |-> fi,
                    environment |-> en, packages |-> pk, swap |-> FALSE, torn |-> to \/ v # "installer"]
      BY <1>3, <2>1, <2>3
    <3> HIDE DEF rest, v
    <3>2. /\ flash'.kind = k /\ flash'.menu = m /\ flash'.current = c /\ flash'.default = df /\ flash'.once = o
          /\ flash'.dirs = rest
      BY <3>1
    <3>3. ~flash'.torn => v = "installer" /\ ~to
      BY <3>1
    <3> QED
      BY <2>1, <3>2, <3>3 DEF rest
  <2> QED
    BY <2>2, <2>3
<1>5. job'.steps = r /\ (job' # NoJob => r # <<>>)
  BY <1>1, ContinuedJob
<1>6. ASSUME flash.kind = "bmc", ~flash'.torn
      PROVE  SlotsOk(flash') /\ r = <<>>
  <2>1. SlotsOk(flash) /\ Listing(q) /\ q # <<>> /\ SlotSteps(flash, job.image, q)
    BY <1>1, <1>4, <1>6 DEF SlotsInv
  <2> HIDE DEF q
  <2>2. /\ v \in IdleVerbs \cup {"installer", "once", "default", "unlist", "rmdir", "remove_image"}
        /\ v = "installer" => job.image \notin {flash.menu[1], flash.menu[2]}
    BY <2>1, SlotVerbs
  <2>3. v # "append"
    BY <2>2 DEF IdleVerbs
  <2>4. \A k \in 1..2 : flash.menu[k] # NoImage => flash.menu[k] \in flash'.dirs
    <3> HIDE DEF v
    <3> QED
      BY <1>4, <1>6, <2>1, <2>2 DEF SlotsOk
  <2>5. SlotsOk(flash')
    <3> HIDE DEF v
    <3> QED
      BY <1>4, <2>1, <2>4 DEF SlotsOk, Points
  <2> QED
    BY <2>3, <2>5
<1> QED
  BY <1>2, <1>4, <1>5, <1>6, ListingNone, NoSteps DEF SlotsInv

LEMMA CancelSlots ==
  ASSUME SlotsInv, defer_cancellation
  PROVE  SlotsInv'
<1>1. job' = NoJob /\ job'.steps = <<>> /\ flash' = flash /\ efi' = efi
  BY DEF defer_cancellation, NoJob
<1> QED
  BY <1>1, ListingNone, NoSteps DEF SlotsInv

\* What U-Boot starts.
LEMMA BootedSlot ==
  ASSUME NEW f, f.kind = "bmc", SlotsOk(f)
  PROVE  Booted(f) \in {f.menu[1], f.menu[2]} \ {NoImage} /\ Booted(f) \in f.dirs /\ Booted(f) \in OsImages
<1> DEFINE k == IF f.once # NoImage THEN f.once ELSE f.default
<1>1. Points(f, k)
  BY DEF SlotsOk
<1>2. DOMAIN f.menu = 1..2
  BY DEF SlotsOk
<1>3. Booted(f) = f.menu[k]
  BY <1>1, <1>2 DEF Booted, Entry, Points
<1> HIDE DEF k
<1> QED
  BY <1>1, <1>3 DEF SlotsOk, Points

LEMMA RebootSlots ==
  ASSUME ImagesRecords, SlotsInv, Reboot
  PROVE  SlotsInv'
<1>1. PICK k, c, ds, m, df, o, fi, en, pk, sw, to :
        flash = [kind |-> k, current |-> c, dirs |-> ds, menu |-> m, default |-> df, once |-> o, fips |-> fi,
                 environment |-> en, packages |-> pk, swap |-> sw, torn |-> to]
  BY DEF ImagesRecords, FlashRecord
<1>2. PICK a, b : flash' = [flash EXCEPT !.current = a, !.once = b] /\ a = Booted(flash)
                  /\ (flash.kind = "bmc" => b = NoImage)
  BY Zenon DEF Reboot
<1>3. /\ flash'.kind = flash.kind /\ flash'.menu = flash.menu /\ flash'.dirs = flash.dirs /\ flash'.torn = flash.torn
      /\ flash'.default = flash.default /\ flash'.once = b /\ flash'.current = a
  BY <1>1, <1>2
<1>4. PICK base, secure, failed : efi = [db |-> base, secure |-> secure, updateFailed |-> failed]
  BY DEF ImagesRecords, DbRecord
<1>5. (\E t : efi' = [efi EXCEPT !.updateFailed = t]) /\ job' = NoJob
  BY DEF Reboot
<1>6. efi'.secure = efi.secure /\ job'.steps = <<>>
  BY <1>4, <1>5 DEF NoJob
<1>7. ASSUME flash.kind = "bmc", ~flash.torn
      PROVE  SlotsOk(flash')
  <2>1. SlotsOk(flash)
    BY <1>7 DEF SlotsInv
  <2>2. a \in {flash.menu[1], flash.menu[2]} /\ a \in OsImages
    BY <1>2, <1>7, <2>1, BootedSlot
  <2> QED
    BY <1>2, <1>3, <1>7, <2>1, <2>2 DEF SlotsOk, Points
<1> QED
  BY <1>3, <1>5, <1>6, <1>7, ListingNone, NoSteps DEF SlotsInv

LEMMA ImagesSlots ==
  ASSUME ImagesRecords, SlotsInv, [ImagesNext]_installerVars
  PROVE  SlotsInv'
<1>1. CASE UNCHANGED installerVars
  BY <1>1 DEF installerVars, SlotsInv
<1>2. CASE ImagesNext
  BY <1>2, CommandSlots, FlashStepSlots, DbStepSlots, ExpandSlots, StepFailedSlots, CancelSlots, RebootSlots
     DEF ImagesNext
<1> QED
  BY <1>1, <1>2

\* Whatever is installed, selected and removed on a BMC, and wherever power is
\* lost between two writes of the boot variables, the slot that U-Boot starts
\* holds an image whose directory is on the flash (unless a write that failed
\* after the installer made sonic-installer delete the new image).
THEOREM BmcAlwaysBoots == ImagesSpec => []BootsInstalledImage
<1>1. InstallerInit => ImagesRecords /\ ChainInv /\ SlotsInv
  BY ChainStart, SlotsStart
<1>2. ImagesRecords /\ ChainInv /\ SlotsInv /\ [ImagesNext]_installerVars => (ImagesRecords /\ ChainInv /\ SlotsInv)'
  BY ImagesChain, ImagesSlots
<1>3. SlotsInv => BootsInstalledImage
  BY BootedSlot DEF SlotsInv, BootsInstalledImage
<1> QED
  BY <1>1, <1>2, <1>3, PTL DEF ImagesSpec
=============================================================================
