----------------------------- MODULE Memory_proofs -----------------------------
(***************************************************************************)
(* Neither program frees what it does not own, nor leaves anything behind, *)
(* for any number of connections and addresses, however malloc hands the   *)
(* addresses out, and whatever allocations fail: but for those the two     *)
(* theorems name.  And the server opens its socket only after a set-up     *)
(* that went well, for every command line and every set of addresses.      *)
(***************************************************************************)
EXTENDS Memory, TLAPS, SequenceTheorems, WellFoundedInduction

-----------------------------------------------------------------------------
(* The set-up.                                                             *)

\* Of the server, while run is still calling the functions of setup.c: as long
\* as errno is 0, everything before has succeeded.
ErrnoTells ==
    /\ phase = "defaults" => heap = EmptyHeap
    /\ (program = "server" /\ phase = "arguments" /\ errno = "none") =>
            heap.manager = "live"
    /\ (program = "server" /\ phase \in {"signals", "open"} /\ errno = "none") =>
            heap.manager = "live" /\ Usable(args)

\* The heap after set_server_defaults has succeeded.
LEMMA ManagerAfterDefaults ==
    ASSUME NEW a
    PROVE  Obtain(init_memory_manager(EmptyHeap), a).manager = "live"
<1> DEFINE h == init_memory_manager(EmptyHeap)
           g == Allocated(h, a)
<1>1. "manager" \in DOMAIN h /\ h.manager = "live"
  BY DEF init_memory_manager, EmptyHeap
<1> HIDE DEF h
<1>2. "manager" \in DOMAIN g /\ g.manager = "live"
  BY <1>1 DEF Allocated
<1> HIDE DEF g
<1>3. mm_add(g, a).manager = "live"
  BY <1>2 DEF mm_add
<1> QED BY <1>3 DEF Obtain, g, h

\* Only the start of a program is made of steps outside the phase "up".
LEMMA SessionIsUp ==
    ASSUME Next, ~Begin
    PROVE  phase = "up" /\ phase' \in {"up", "exited"}
BY DEF Next, In, Connect, Disconnect, Assemble, Discard, SvSend, SvSendAgain,
       SvCallFails, ClSend, SvProcess, ClProcess, End, Close

\* Each call of run keeps the invariant.
LEMMA StartupKeeps ==
    ASSUME ErrnoTells, StartupStep
    PROVE  ErrnoTells'
<1>1. CASE SetDefaults
  <2>1. phase' = "arguments" /\ program' = program
    BY <1>1 DEF SetDefaults
  <2>2. ASSUME program = "server", errno' = "none"
        PROVE  heap'.manager = "live"
    <3>1. PICK objs : heap' = Obtain(init_memory_manager(heap), objs[1])
      BY <1>1, <2>2 DEF SetDefaults, SvDefaults, ClDefaults, DefaultsFail
    <3> QED BY <1>1, <3>1, ManagerAfterDefaults DEF SetDefaults, ErrnoTells
  <2> QED BY <2>1, <2>2 DEF ErrnoTells
<1>2. CASE ReadArgs
  <2>1. phase = "arguments" /\ phase' = "signals"
        /\ UNCHANGED <<program, heap, args>>
    BY <1>2 DEF ReadArgs
  <2>2. ASSUME program = "server", errno' = "none"
        PROVE  errno = "none" /\ ReadAll(args).ok
    BY <1>2, <2>2 DEF ReadArgs
  <2> QED BY <2>1, <2>2 DEF ErrnoTells, Usable
<1>3. CASE SetSignalHandling
  BY <1>3 DEF SetSignalHandling, ErrnoTells, Usable
<1>4. CASE SvOpen
  <2>1. phase' \in {"closing", "crashed", "up"}
    BY <1>4 DEF SvOpen, Proceed
  <2> QED BY <2>1 DEF ErrnoTells
<1>5. CASE ClOpen
  <2>1. phase' \in {"closing", "crashed", "up"}
    BY <1>5 DEF ClOpen, ClOpens, Proceed
  <2> QED BY <2>1 DEF ErrnoTells
<1>6. CASE phase = "closing" /\ Close
  BY <1>6 DEF Close, ErrnoTells
<1> QED BY <1>1, <1>2, <1>3, <1>4, <1>5, <1>6 DEF StartupStep

\* The step that opens the server's socket follows a set-up that went well.
LEMMA OpensWhenReady ==
    ASSUME ErrnoTells, Next, Opens, program = "server"
    PROVE  heap.manager = "live" /\ Usable(args)
<1>1. StartupStep
  BY SessionIsUp DEF Opens, Begin
<1>2. SvOpen
  BY <1>1 DEF StartupStep, Opens, SetDefaults, ReadArgs, SetSignalHandling, ClOpen
<1>3. errno = "none"
  BY <1>2 DEF SvOpen, Proceed, Opens
<1> QED BY <1>3 DEF ErrnoTells, Opens

(***************************************************************************)
(* The server touches the network only when its manager and its command    *)
(* line are sound: what went wrong in setup.c is still in errno when run   *)
(* is about to open the socket.                                            *)
(***************************************************************************)
THEOREM ServerStarts == Spec => ServerStartsAsAsked
<1>1. Init => ErrnoTells
  BY DEF Init, StartupInit, ErrnoTells
<1>2. ErrnoTells /\ [Next]_vars => ErrnoTells'
  <2> SUFFICES ASSUME ErrnoTells, [Next]_vars
               PROVE  ErrnoTells'
    OBVIOUS
  <2>1. CASE Begin
    BY <2>1, StartupKeeps DEF Begin
  <2>2. CASE Next /\ ~Begin
    BY <2>2, SessionIsUp DEF ErrnoTells
  <2>3. CASE UNCHANGED vars
    BY <2>3 DEF vars, startVars, ErrnoTells, Usable
  <2> QED BY <2>1, <2>2, <2>3
<1>3. ErrnoTells /\ [Next]_vars =>
        [Opens /\ program = "server" => heap.manager = "live" /\ Usable(args)]_startVars
  BY OpensWhenReady DEF vars
<1> QED BY <1>1, <1>2, <1>3, PTL DEF Spec, ServerStartsAsAsked

-----------------------------------------------------------------------------
(* What the manager lists and what is live.                                *)

Entries == Addrs \cup {NULL}

Heaps == [list : Seq(Entries), live : SUBSET Addrs,
          manager : {"none", "live", "freed"}, broken : BOOLEAN]

\* The addresses the manager lists.
Listed(h) == ToSet(h.list) \ {NULL}

\* Nothing has gone wrong yet: what is listed is live, and listed once.
Sound(h) ==
    /\ h \in Heaps
    /\ ~h.broken
    /\ Listed(h) \subseteq h.live
    /\ \A i, j \in DOMAIN h.list : h.list[i] = h.list[j] /\ h.list[i] # NULL => i = j
    /\ h.manager # "live" => h.list = <<>>

\* Nothing is forgotten.
Complete(h) == h.live \subseteq Listed(h)

-----------------------------------------------------------------------------
(* The memory manager.                                                     *)

LEMMA NullFacts == NULL \notin Addrs /\ Addrs \subseteq Entries /\ NULL \in Entries
BY NullIsNoAddress DEF Entries

\* The set of a list, and of a list with one more entry.
LEMMA ListSet ==
    ASSUME NEW l \in Seq(Entries), NEW a \in Entries
    PROVE  /\ ToSet(l) \subseteq Entries
           /\ ToSet(Append(l, a)) = ToSet(l) \cup {a}
           /\ ToSet(Front(l)) \subseteq ToSet(l)
<1>1. /\ Len(l) \in Nat /\ DOMAIN l = 1 .. Len(l)
      /\ \A i \in 1 .. Len(l) : l[i] \in Entries
  BY LenProperties, ElementOfSeq
<1>2. ToSet(l) \subseteq Entries
  BY <1>1 DEF ToSet
<1>3. ToSet(Append(l, a)) = ToSet(l) \cup {a}
  <2> DEFINE m == Append(l, a)
  <2>1. /\ DOMAIN m = 1 .. Len(l) + 1
        /\ \A i \in 1 .. Len(l) : m[i] = l[i]
        /\ m[Len(l) + 1] = a
    BY <1>1, AppendProperties, LenProperties
  <2> HIDE DEF m
  <2>2. \A i \in 1 .. Len(l) : i \in DOMAIN m
    BY <1>1, <2>1
  <2>3. Len(l) + 1 \in DOMAIN m
    BY <1>1, <2>1
  <2>4. \A i \in DOMAIN m : i \in 1 .. Len(l) \/ i = Len(l) + 1
    BY <1>1, <2>1
  <2>5. ToSet(m) = ToSet(l) \cup {a}
    BY <1>1, <2>1, <2>2, <2>3, <2>4 DEF ToSet
  <2> QED
    BY <2>5 DEF m
<1>4. ToSet(Front(l)) \subseteq ToSet(l)
  <2> DEFINE f == SubSeq(l, 1, Len(l) - 1)
  <2>1. \A i \in 1 .. Len(l) - 1 : l[i] \in Entries /\ i \in DOMAIN l
    BY <1>1
  <2>2. /\ f \in Seq(Entries)
        /\ Len(f) = IF 1 <= Len(l) - 1 THEN (Len(l) - 1) - 1 + 1 ELSE 0
        /\ \A i \in 1 .. (Len(l) - 1) - 1 + 1 : f[i] = l[1 + i - 1]
    BY <1>1, <2>1, SubSeqProperties
  <2> HIDE DEF f
  <2>3. DOMAIN f = 1 .. Len(f)
    BY <2>2, LenProperties
  <2>4. ASSUME NEW i \in DOMAIN f
        PROVE  i \in DOMAIN l /\ f[i] = l[i]
    <3>1. i \in 1 .. Len(f) /\ Len(l) \in Int
      BY <1>1, <2>3
    <3>2. Len(f) = IF 1 <= Len(l) - 1 THEN (Len(l) - 1) - 1 + 1 ELSE 0
      BY <2>2
    <3>3. i \in 1 .. (Len(l) - 1) - 1 + 1 /\ 1 + i - 1 = i
      BY <3>1, <3>2
    <3>4. i \in 1 .. Len(l) - 1
      BY <3>1, <3>3
    <3> QED
      BY <2>1, <2>2, <3>3, <3>4
  <2>5. ToSet(f) \subseteq ToSet(l)
    BY <2>4 DEF ToSet
  <2> QED
    BY <2>5 DEF Front, f
<1> QED
  BY <1>2, <1>3, <1>4

\* mm_add puts a live address that is not listed at the end of the list.
LEMMA AddFacts ==
    ASSUME NEW h, Sound(h), h.manager = "live", NEW a \in h.live \ Listed(h)
    PROVE  /\ Sound(mm_add(h, a))
           /\ Listed(mm_add(h, a)) = Listed(h) \cup {a}
           /\ mm_add(h, a).live = h.live
           /\ mm_add(h, a).manager = "live"
<1>1. /\ h \in Heaps /\ h.list \in Seq(Entries) /\ h.live \subseteq Addrs
      /\ a \in Addrs /\ a \in Entries /\ a # NULL
  BY NullFacts DEF Sound, Heaps
<1>2. a \notin ToSet(h.list)
  BY <1>1 DEF Listed
<1>3. mm_add(h, a) = [h EXCEPT !.list = Append(h.list, a), !.broken = h.broken \/ h.manager # "live"]
  BY <1>1, <1>2, ListSet DEF mm_add
<1> DEFINE g == mm_add(h, a)
<1>4. /\ g \in Heaps /\ g.list = Append(h.list, a) /\ g.live = h.live
      /\ g.manager = "live" /\ ~g.broken
  <2>1. Append(h.list, a) \in Seq(Entries)
    BY <1>1, AppendProperties
  <2>2. ~h.broken
    BY DEF Sound
  <2> QED
    BY <1>1, <1>3, <2>1, <2>2 DEF Heaps
<1> HIDE DEF g
<1>5. Listed(g) = Listed(h) \cup {a}
  BY <1>1, <1>4, ListSet DEF Listed
<1>6. \A i, j \in DOMAIN g.list : g.list[i] = g.list[j] /\ g.list[i] # NULL => i = j
  <2>1. /\ Len(h.list) \in Nat /\ DOMAIN h.list = 1 .. Len(h.list)
        /\ DOMAIN g.list = 1 .. Len(h.list) + 1
        /\ \A i \in 1 .. Len(h.list) : g.list[i] = h.list[i]
        /\ g.list[Len(h.list) + 1] = a
    BY <1>1, <1>4, AppendProperties, LenProperties
  <2>2. \A i \in 1 .. Len(h.list) : h.list[i] # a
    BY <1>2, <2>1 DEF ToSet
  <2>3. \A i, j \in 1 .. Len(h.list) : h.list[i] = h.list[j] /\ h.list[i] # NULL => i = j
    BY <2>1 DEF Sound
  <2>4. \A i \in DOMAIN g.list : i \in 1 .. Len(h.list) \/ i = Len(h.list) + 1
    BY <2>1
  <2> QED
    BY <2>1, <2>2, <2>3, <2>4
<1>7. Sound(g)
  BY <1>4, <1>5, <1>6 DEF Sound
<1> QED
  BY <1>4, <1>5, <1>7 DEF g

\* Of a null pointer mm_add makes an entry that mm_free will find.
LEMMA AddNull ==
    ASSUME NEW h, Sound(h), h.manager = "live"
    PROVE  /\ Sound(mm_add(h, NULL))
           /\ Listed(mm_add(h, NULL)) = Listed(h)
           /\ NULL \in ToSet(mm_add(h, NULL).list)
           /\ mm_add(h, NULL).live = h.live
           /\ mm_add(h, NULL).manager = "live"
<1>1. h \in Heaps /\ h.list \in Seq(Entries) /\ NULL \in Entries
  BY NullFacts DEF Sound, Heaps
<1>2. CASE h.list # <<>> /\ NULL \in ToSet(Front(h.list))
  BY <1>1, <1>2, ListSet DEF mm_add
<1>3. CASE ~(h.list # <<>> /\ NULL \in ToSet(Front(h.list)))
  <2> DEFINE g == mm_add(h, NULL)
  <2>1. g = [h EXCEPT !.list = Append(h.list, NULL), !.broken = h.broken \/ h.manager # "live"]
    BY <1>3, Zenon DEF mm_add
  <2>2. /\ g \in Heaps /\ g.list = Append(h.list, NULL) /\ g.live = h.live
        /\ g.manager = "live" /\ ~g.broken
    <3>1. Append(h.list, NULL) \in Seq(Entries)
      BY <1>1, AppendProperties
    <3>2. ~h.broken
      BY DEF Sound
    <3> QED
      BY <1>1, <2>1, <3>1, <3>2 DEF Heaps
  <2> HIDE DEF g
  <2>3. ToSet(g.list) = ToSet(h.list) \cup {NULL}
    BY <1>1, <2>2, ListSet
  <2>4. \A i, j \in DOMAIN g.list : g.list[i] = g.list[j] /\ g.list[i] # NULL => i = j
    <3>1. /\ Len(h.list) \in Nat /\ DOMAIN h.list = 1 .. Len(h.list)
          /\ DOMAIN g.list = 1 .. Len(h.list) + 1
          /\ \A i \in 1 .. Len(h.list) : g.list[i] = h.list[i]
          /\ g.list[Len(h.list) + 1] = NULL
      BY <1>1, <2>2, AppendProperties, LenProperties
    <3>2. \A i, j \in 1 .. Len(h.list) : h.list[i] = h.list[j] /\ h.list[i] # NULL => i = j
      BY <3>1 DEF Sound
    <3>3. \A i \in DOMAIN g.list : i \in 1 .. Len(h.list) \/ i = Len(h.list) + 1
      BY <3>1
    <3> QED
      BY <3>1, <3>2, <3>3
  <2>5. Listed(g) = Listed(h)
    BY <2>3 DEF Listed
  <2>6. Sound(g)
    BY <2>2, <2>4, <2>5 DEF Sound
  <2> QED
    BY <2>2, <2>3, <2>5, <2>6 DEF g
<1> QED
  BY <1>2, <1>3

\* How RemoveAt shifts a sequence.
LEMMA Shifted ==
    ASSUME NEW S, NEW s \in Seq(S), NEW k \in 1 .. Len(s)
    PROVE  LET t == RemoveAt(s, k)
           IN  /\ t \in Seq(S)
               /\ DOMAIN t = 1 .. Len(s) - 1
               /\ \A i \in 1 .. Len(s) - 1 : t[i] = IF i < k THEN s[i] ELSE s[i + 1]
<1> DEFINE u == SubSeq(s, 1, k - 1)
           v == SubSeq(s, k + 1, Len(s))
           t == RemoveAt(s, k)
<1>1. Len(s) \in Nat /\ DOMAIN s = 1 .. Len(s) /\ \A i \in 1 .. Len(s) : s[i] \in S
  BY LenProperties, ElementOfSeq
<1>2. u \in Seq(S) /\ Len(u) = k - 1 /\ \A i \in 1 .. k - 1 : u[i] = s[i]
  BY <1>1, SubSeqProperties
<1>3. v \in Seq(S) /\ Len(v) = Len(s) - k /\ \A i \in 1 .. Len(s) - k : v[i] = s[k + i]
  <2>1. /\ v \in Seq(S)
        /\ Len(v) = IF k + 1 <= Len(s) THEN Len(s) - (k + 1) + 1 ELSE 0
        /\ \A i \in 1 .. Len(s) - (k + 1) + 1 : v[i] = s[(k + 1) + i - 1]
    <3>1. k + 1 \in Int /\ Len(s) \in Int /\ \A i \in k + 1 .. Len(s) : s[i] \in S
      BY <1>1
    <3> QED
      BY <3>1, SubSeqProperties
  <2> HIDE DEF v
  <2>2. Len(v) = Len(s) - k
    <3>1. Len(v) = IF k + 1 <= Len(s) THEN Len(s) - (k + 1) + 1 ELSE 0
      BY <2>1
    <3>2. Len(s) \in Int /\ k \in Int /\ 1 <= k /\ k <= Len(s)
      BY <1>1
    <3>3. CASE k < Len(s)
      BY <3>1, <3>2, <3>3
    <3>4. CASE k = Len(s)
      BY <3>1, <3>2, <3>4
    <3> QED
      BY <3>2, <3>3, <3>4
  <2>3. ASSUME NEW i \in 1 .. Len(s) - k PROVE v[i] = s[k + i]
    <3>1. i \in 1 .. Len(s) - (k + 1) + 1 /\ (k + 1) + i - 1 = k + i
      BY <1>1
    <3> QED
      BY <2>1, <3>1
  <2> QED
    BY <2>1, <2>2, <2>3
<1>4. t = u \o v
  BY DEF RemoveAt
<1> HIDE DEF u, v, t
<1>5. /\ t \in Seq(S) /\ Len(t) = Len(u) + Len(v)
      /\ \A i \in 1 .. Len(u) + Len(v) : t[i] = IF i <= Len(u) THEN u[i] ELSE v[i - Len(u)]
  BY <1>2, <1>3, <1>4, ConcatProperties
<1>6. DOMAIN t = 1 .. Len(s) - 1
  BY <1>1, <1>2, <1>3, <1>5, LenProperties
<1>7. ASSUME NEW i \in 1 .. Len(s) - 1
      PROVE  t[i] = IF i < k THEN s[i] ELSE s[i + 1]
  <2>1. i \in 1 .. Len(u) + Len(v) /\ (i <= Len(u) <=> i < k)
    BY <1>1, <1>2, <1>3
  <2>2. CASE i < k
    <3>1. t[i] = u[i] /\ i \in 1 .. k - 1
      BY <1>1, <1>5, <2>1, <2>2
    <3> QED
      BY <1>2, <2>2, <3>1
  <2>3. CASE ~(i < k)
    <3>1. i - Len(u) \in 1 .. Len(s) - k /\ k + (i - Len(u)) = i + 1
      BY <1>1, <1>2, <2>3
    <3>2. t[i] = v[i - Len(u)]
      BY <1>5, <2>1, <2>3
    <3> QED
      BY <1>3, <2>3, <3>1, <3>2
  <2> QED
    BY <2>2, <2>3
<1> QED
  BY <1>5, <1>6, <1>7 DEF t

\* mm_free finds a listed address, and frees it once.
LEMMA FreeFacts ==
    ASSUME NEW h, Sound(h), NEW a \in ToSet(h.list)
    PROVE  /\ Sound(mm_free(h, a))
           /\ Listed(mm_free(h, a)) = Listed(h) \ {a}
           /\ mm_free(h, a).live = h.live \ {a}
           /\ mm_free(h, a).manager = h.manager
<1>1. /\ h \in Heaps /\ h.list \in Seq(Entries) /\ h.live \subseteq Addrs /\ ~h.broken
      /\ Len(h.list) \in Nat /\ DOMAIN h.list = 1 .. Len(h.list)
      /\ \A i, j \in DOMAIN h.list : h.list[i] = h.list[j] /\ h.list[i] # NULL => i = j
  BY LenProperties DEF Sound, Heaps
<1>2. a # NULL => a \in h.live
  BY DEF Sound, Listed
<1> DEFINE I == {i \in 1 .. Len(h.list) : h.list[i] = a}
           k == Min(I)
<1>3. I # {} /\ I \subseteq Nat
  BY <1>1 DEF ToSet
<1>4. k \in I
  <2>1. PICK x \in I : \A y \in I : ~(<<y, x>> \in OpToRel(<, Nat))
    BY <1>3, NatLessThanWellFounded, WFMin
  <2>2. \A y \in I : ~(y < x)
    BY <1>3, <2>1 DEF OpToRel
  <2>3. \A y \in I : x <= y
    BY <1>3, <2>2
  <2> QED
    BY <2>3 DEF Min
<1>5. RemoveFirst(h.list, a) = RemoveAt(h.list, k)
  BY <1>3 DEF RemoveFirst, SelectInSeq
<1>6. k \in 1 .. Len(h.list) /\ h.list[k] = a
  BY <1>4
<1> HIDE DEF I, k
<1> DEFINE t == RemoveAt(h.list, k)
           g == mm_free(h, a)
<1>7. /\ t \in Seq(Entries)
      /\ DOMAIN t = 1 .. Len(h.list) - 1
      /\ \A i \in 1 .. Len(h.list) - 1 : t[i] = IF i < k THEN h.list[i] ELSE h.list[i + 1]
  BY <1>1, <1>6, Shifted
<1>8. g = [h EXCEPT !.list = t, !.live = h.live \ {a},
                    !.broken = h.broken \/ (a # NULL /\ a \notin h.live)]
  BY <1>1, <1>5 DEF mm_free, Freed, Heaps
<1> HIDE DEF t
<1>9. /\ g \in Heaps /\ g.list = t /\ g.live = h.live \ {a}
      /\ g.manager = h.manager /\ ~g.broken
  BY <1>1, <1>2, <1>7, <1>8 DEF Heaps
<1> HIDE DEF g
<1>10. \A i \in DOMAIN t : \E j \in DOMAIN h.list : j # k /\ t[i] = h.list[j]
                                                 /\ j = IF i < k THEN i ELSE i + 1
  <2> SUFFICES ASSUME NEW i \in 1 .. Len(h.list) - 1
               PROVE  \E j \in DOMAIN h.list : j # k /\ t[i] = h.list[j]
                                               /\ j = IF i < k THEN i ELSE i + 1
    BY <1>7
  <2>1. CASE i < k
    BY <1>1, <1>6, <1>7, <2>1
  <2>2. CASE ~(i < k)
    BY <1>1, <1>6, <1>7, <2>2
  <2> QED
    BY <2>1, <2>2
<1>11. \A i, j \in DOMAIN g.list : g.list[i] = g.list[j] /\ g.list[i] # NULL => i = j
  <2> SUFFICES ASSUME NEW i \in DOMAIN t, NEW j \in DOMAIN t, t[i] = t[j], t[i] # NULL
               PROVE  i = j
    BY <1>9
  <2>1. PICK m \in DOMAIN h.list : t[i] = h.list[m] /\ m = IF i < k THEN i ELSE i + 1
    BY <1>10
  <2>2. PICK n \in DOMAIN h.list : t[j] = h.list[n] /\ n = IF j < k THEN j ELSE j + 1
    BY <1>10
  <2>3. m = n
    BY <1>1, <2>1, <2>2
  <2>4. i \in Int /\ j \in Int /\ k \in Int
    BY <1>6, <1>7
  <2> QED
    BY <2>1, <2>2, <2>3, <2>4
<1>12. \A j \in DOMAIN h.list : j # k => \E i \in DOMAIN t : t[i] = h.list[j]
  <2> SUFFICES ASSUME NEW j \in 1 .. Len(h.list), j # k
               PROVE  \E i \in DOMAIN t : t[i] = h.list[j]
    BY <1>1
  <2>1. CASE j < k
    <3>1. j \in 1 .. Len(h.list) - 1
      BY <1>1, <1>6, <2>1
    <3> QED
      BY <1>7, <2>1, <3>1
  <2>2. CASE ~(j < k)
    <3>1. j - 1 \in 1 .. Len(h.list) - 1 /\ ~(j - 1 < k) /\ (j - 1) + 1 = j
      BY <1>1, <1>6, <2>2
    <3> QED
      BY <1>7, <3>1
  <2> QED
    BY <2>1, <2>2
<1>13. Listed(g) = Listed(h) \ {a}
  <2>1. ASSUME NEW x \in Listed(g) PROVE x \in Listed(h) \ {a}
    <3>1. x # NULL /\ \E i \in DOMAIN t : x = t[i]
      BY <1>9 DEF Listed, ToSet
    <3>2. PICK j \in DOMAIN h.list : j # k /\ x = h.list[j]
      BY <1>10, <3>1
    <3>3. x # a
      BY <1>1, <1>6, <3>1, <3>2
    <3> QED
      BY <3>1, <3>2, <3>3 DEF Listed, ToSet
  <2>2. ASSUME NEW x \in Listed(h) \ {a} PROVE x \in Listed(g)
    <3>1. x # NULL /\ \E j \in DOMAIN h.list : x = h.list[j] /\ j # k
      BY <1>6 DEF Listed, ToSet
    <3>2. \E i \in DOMAIN t : t[i] = x
      BY <1>12, <3>1
    <3> QED
      BY <1>9, <3>1, <3>2 DEF Listed, ToSet
  <2> QED
    BY <2>1, <2>2
<1>14. Sound(g)
  <2>1. Listed(g) \subseteq g.live
    BY <1>9, <1>13 DEF Sound
  <2>2. g.manager = "live"
    BY <1>1, <1>6, <1>9, EmptySeq DEF Sound
  <2> QED
    BY <1>9, <1>11, <2>1, <2>2 DEF Sound
<1> QED
  BY <1>9, <1>13, <1>14 DEF g

\* mm_free_all frees what is listed.
LEMMA FreeAllFacts ==
    ASSUME NEW h, Sound(h)
    PROVE  /\ ~mm_free_all(h).broken
           /\ mm_free_all(h) \in Heaps
           /\ mm_free_all(h).list = <<>>
           /\ mm_free_all(h).live = h.live \ Listed(h)
<1> DEFINE owned(i) == /\ h.list[i] \in h.live
                       /\ \A j \in DOMAIN h.list : j > i => h.list[j] # h.list[i]
           g == mm_free_all(h)
<1>1. /\ h \in Heaps /\ h.list \in Seq(Entries) /\ h.live \subseteq Addrs /\ ~h.broken
      /\ Len(h.list) \in Nat /\ DOMAIN h.list = 1 .. Len(h.list)
      /\ \A i, j \in DOMAIN h.list : h.list[i] = h.list[j] /\ h.list[i] # NULL => i = j
  BY LenProperties DEF Sound, Heaps
<1>2. ASSUME NEW i \in DOMAIN h.list, h.list[i] # NULL PROVE owned(i)
  <2>1. h.list[i] \in h.live
    BY <1>2 DEF Sound, Listed, ToSet
  <2>2. \A j \in DOMAIN h.list : j > i => h.list[j] # h.list[i]
    BY <1>1, <1>2
  <2> QED
    BY <2>1, <2>2
<1>3. h.live \ ToSet(h.list) = h.live \ Listed(h)
  BY <1>1, NullFacts DEF Listed
<1> DEFINE bad == \E i \in DOMAIN h.list : h.list[i] # NULL /\ ~owned(i)
<1>4. ~bad
  BY <1>2
<1>5. g = [h EXCEPT !.list = <<>>, !.live = h.live \ ToSet(h.list), !.broken = h.broken \/ bad]
  BY DEF mm_free_all
<1> DEFINE e == <<>>
           S == Seq(Entries)
<1>6. e \in S
  BY EmptySeq
<1> HIDE DEF bad, e, S
<1>7. g \in Heaps /\ g.list = e /\ g.live = h.live \ ToSet(h.list) /\ ~g.broken
  <2>1. g = [h EXCEPT !.list = e, !.live = h.live \ ToSet(h.list), !.broken = h.broken \/ bad]
    BY <1>5 DEF e
  <2>2. Heaps = [list : S, live : SUBSET Addrs, manager : {"none", "live", "freed"},
                 broken : BOOLEAN]
    BY DEF Heaps, S
  <2> QED
    BY <1>1, <1>4, <1>6, <2>1, <2>2
<1> QED
  BY <1>3, <1>7 DEF e

\* What the program obtains and what it registers afterwards.
LEMMA AllocatedFacts ==
    ASSUME NEW h, Sound(h), NEW a \in Addrs \ h.live
    PROVE  /\ Sound(Allocated(h, a))
           /\ Listed(Allocated(h, a)) = Listed(h)
           /\ Allocated(h, a).live = h.live \cup {a}
           /\ Allocated(h, a).manager = h.manager
<1> DEFINE g == Allocated(h, a)
<1>1. h \in Heaps /\ a \in Addrs
  BY DEF Sound
<1>2. /\ g \in Heaps /\ g.list = h.list /\ g.live = h.live \cup {a}
      /\ g.manager = h.manager /\ g.broken = h.broken
  BY <1>1 DEF Allocated, Heaps
<1> HIDE DEF g
<1>3. Sound(g) /\ Listed(g) = Listed(h)
  BY <1>2 DEF Sound, Listed
<1> QED
  BY <1>2, <1>3 DEF g

\* Obtain registers what malloc has handed out.
LEMMA ObtainFacts ==
    ASSUME NEW h, Sound(h), h.manager = "live", NEW a \in Addrs \ h.live
    PROVE  /\ Sound(Obtain(h, a))
           /\ Listed(Obtain(h, a)) = Listed(h) \cup {a}
           /\ Obtain(h, a).live = h.live \cup {a}
           /\ Obtain(h, a).manager = "live"
<1> DEFINE g == Allocated(h, a)
<1>1. /\ Sound(g) /\ Listed(g) = Listed(h) /\ g.live = h.live \cup {a} /\ g.manager = "live"
  BY AllocatedFacts
<1>2. a \notin Listed(h)
  BY DEF Sound
<1> HIDE DEF g
<1>3. /\ Sound(mm_add(g, a)) /\ Listed(mm_add(g, a)) = Listed(g) \cup {a}
      /\ mm_add(g, a).live = g.live /\ mm_add(g, a).manager = "live"
  BY <1>1, <1>2, AddFacts
<1> QED
  BY <1>1, <1>3 DEF Obtain, g

-----------------------------------------------------------------------------
(* Four objects at a time.                                                 *)

\* An injective numbering of four objects.
Four(objs) ==
    /\ DOMAIN objs = 1 .. 4
    /\ \A i, j \in 1 .. 4 : objs[i] = objs[j] => i = j

LEMMA FourObjects ==
    ASSUME NEW objs, Four(objs)
    PROVE  /\ ToSet(objs) = {objs[1], objs[2], objs[3], objs[4]}
           /\ objs[1] # objs[2] /\ objs[1] # objs[3] /\ objs[1] # objs[4]
           /\ objs[2] # objs[3] /\ objs[2] # objs[4] /\ objs[3] # objs[4]
<1>1. \A i : i \in DOMAIN objs <=> i = 1 \/ i = 2 \/ i = 3 \/ i = 4
  BY DEF Four
<1>2. ToSet(objs) = {objs[1], objs[2], objs[3], objs[4]}
  BY <1>1 DEF ToSet
<1> QED
  BY <1>2 DEF Four

\* What malloc hands out is not live, and four objects are four.
LEMMA MallocsFacts ==
    ASSUME NEW kept, NEW n \in Nat, NEW objs \in MallocsBeside(kept, n)
    PROVE  /\ \A i \in 1 .. n : objs[i] \in Addrs \ heap.live
           /\ n = 4 => /\ Four(objs) /\ Four(Reverse(objs))
                       /\ ToSet(objs) \subseteq Addrs \ heap.live
                       /\ ToSet(Reverse(objs)) \subseteq Addrs \ heap.live
<1>1. /\ objs \in [1 .. n -> FreeAddrs(heap)]
      /\ \A i, j \in 1 .. n : i < j => objs[i] # objs[j]
  BY DEF MallocsBeside
<1>2. \A i \in 1 .. n : objs[i] \in Addrs \ heap.live
  BY <1>1 DEF FreeAddrs
<1>3. ASSUME n = 4
      PROVE  /\ Four(objs) /\ Four(Reverse(objs))
             /\ ToSet(objs) \subseteq Addrs \ heap.live
             /\ ToSet(Reverse(objs)) \subseteq Addrs \ heap.live
  <2>1. DOMAIN objs = 1 .. 4
    BY <1>1, <1>3
  <2>2. \A i, j \in 1 .. 4 : objs[i] = objs[j] => i = j
    <3> SUFFICES ASSUME NEW i \in 1 .. 4, NEW j \in 1 .. 4, objs[i] = objs[j], i # j
                 PROVE  FALSE
      OBVIOUS
    <3>1. i < j \/ j < i
      OBVIOUS
    <3> QED
      BY <1>1, <1>3, <3>1
  <2>3. Len(objs) = 4
    <3>1. objs \in Seq(FreeAddrs(heap))
      BY <1>1, <1>3, SeqDef
    <3> QED
      BY <2>1, <3>1, LenProperties
  <2> DEFINE r == Reverse(objs)
  <2>4. DOMAIN r = 1 .. 4 /\ \A i \in 1 .. 4 : r[i] = objs[(4 - i) + 1]
    BY <2>3 DEF Reverse
  <2> HIDE DEF r
  <2>5. \A i \in 1 .. 4 : (4 - i) + 1 \in 1 .. 4
    OBVIOUS
  <2>6. \A i, j \in 1 .. 4 : r[i] = r[j] => i = j
    <3> SUFFICES ASSUME NEW i \in 1 .. 4, NEW j \in 1 .. 4, r[i] = r[j] PROVE i = j
      OBVIOUS
    <3>1. (4 - i) + 1 = (4 - j) + 1
      BY <2>2, <2>4, <2>5
    <3> QED
      BY <3>1
  <2>7. ToSet(r) \subseteq Addrs \ heap.live
    BY <1>2, <1>3, <2>4, <2>5 DEF ToSet
  <2>8. ToSet(objs) \subseteq Addrs \ heap.live
    BY <1>2, <1>3, <2>1 DEF ToSet
  <2> QED
    BY <2>1, <2>2, <2>4, <2>6, <2>7, <2>8 DEF Four, r
<1> QED
  BY <1>2, <1>3

LEMMA ObtainAllFacts ==
    ASSUME NEW h, Sound(h), h.manager = "live",
           NEW objs, Four(objs), ToSet(objs) \subseteq Addrs \ h.live
    PROVE  /\ Sound(ObtainAll(h, objs))
           /\ Listed(ObtainAll(h, objs)) = Listed(h) \cup ToSet(objs)
           /\ ObtainAll(h, objs).live = h.live \cup ToSet(objs)
           /\ ObtainAll(h, objs).manager = "live"
<1> DEFINE h1 == Obtain(h, objs[1])
           h2 == Obtain(h1, objs[2])
           h3 == Obtain(h2, objs[3])
           h4 == Obtain(h3, objs[4])
<1>0. ObtainAll(h, objs) = h4
  BY DEF ObtainAll
<1>1. /\ Sound(h1) /\ Listed(h1) = Listed(h) \cup {objs[1]}
      /\ h1.live = h.live \cup {objs[1]} /\ h1.manager = "live"
  BY ObtainFacts, FourObjects
<1> HIDE DEF h1
<1>2. /\ Sound(h2) /\ Listed(h2) = Listed(h1) \cup {objs[2]}
      /\ h2.live = h1.live \cup {objs[2]} /\ h2.manager = "live"
  <2>1. objs[2] \in Addrs \ h1.live
    BY <1>1, FourObjects
  <2> QED
    BY <1>1, <2>1, ObtainFacts
<1> HIDE DEF h2
<1>3. /\ Sound(h3) /\ Listed(h3) = Listed(h2) \cup {objs[3]}
      /\ h3.live = h2.live \cup {objs[3]} /\ h3.manager = "live"
  <2>1. objs[3] \in Addrs \ h2.live
    BY <1>1, <1>2, FourObjects
  <2> QED
    BY <1>2, <2>1, ObtainFacts
<1> HIDE DEF h3
<1>4. /\ Sound(h4) /\ Listed(h4) = Listed(h3) \cup {objs[4]}
      /\ h4.live = h3.live \cup {objs[4]} /\ h4.manager = "live"
  <2>1. objs[4] \in Addrs \ h3.live
    BY <1>1, <1>2, <1>3, FourObjects
  <2> QED
    BY <1>3, <2>1, ObtainFacts
<1> HIDE DEF h4
<1> QED
  BY <1>0, <1>1, <1>2, <1>3, <1>4, FourObjects

LEMMA ReleaseAllFacts ==
    ASSUME NEW h, Sound(h), NEW objs, Four(objs), ToSet(objs) \subseteq Listed(h)
    PROVE  /\ Sound(ReleaseAll(h, objs))
           /\ Listed(ReleaseAll(h, objs)) = Listed(h) \ ToSet(objs)
           /\ ReleaseAll(h, objs).live = h.live \ ToSet(objs)
           /\ ReleaseAll(h, objs).manager = h.manager
<1> DEFINE h1 == mm_free(h, objs[1])
           h2 == mm_free(h1, objs[2])
           h3 == mm_free(h2, objs[3])
           h4 == mm_free(h3, objs[4])
<1>0. ReleaseAll(h, objs) = h4 /\ \A g, a : a \in Listed(g) => a \in ToSet(g.list)
  BY DEF ReleaseAll, Listed
<1>1. /\ Sound(h1) /\ Listed(h1) = Listed(h) \ {objs[1]}
      /\ h1.live = h.live \ {objs[1]} /\ h1.manager = h.manager
  BY <1>0, FreeFacts, FourObjects
<1> HIDE DEF h1
<1>2. /\ Sound(h2) /\ Listed(h2) = Listed(h1) \ {objs[2]}
      /\ h2.live = h1.live \ {objs[2]} /\ h2.manager = h.manager
  <2>1. objs[2] \in ToSet(h1.list)
    BY <1>0, <1>1, FourObjects
  <2> QED
    BY <1>1, <2>1, FreeFacts
<1> HIDE DEF h2
<1>3. /\ Sound(h3) /\ Listed(h3) = Listed(h2) \ {objs[3]}
      /\ h3.live = h2.live \ {objs[3]} /\ h3.manager = h.manager
  <2>1. objs[3] \in ToSet(h2.list)
    BY <1>0, <1>1, <1>2, FourObjects
  <2> QED
    BY <1>2, <2>1, FreeFacts
<1> HIDE DEF h3
<1>4. /\ Sound(h4) /\ Listed(h4) = Listed(h3) \ {objs[4]}
      /\ h4.live = h3.live \ {objs[4]} /\ h4.manager = h.manager
  <2>1. objs[4] \in ToSet(h3.list)
    BY <1>0, <1>1, <1>2, <1>3, FourObjects
  <2> QED
    BY <1>3, <2>1, FreeFacts
<1> HIDE DEF h4
<1> QED
  BY <1>0, <1>1, <1>2, <1>3, <1>4, FourObjects

-----------------------------------------------------------------------------
(* The invariant.                                                          *)

\* The manager is there for as long as somebody may use it.
ManagerOK ==
    /\ phase = "up" => heap.manager = "live"
    /\ program = "client" /\ phase \notin {"defaults", "exited"} => heap.manager = "live"
    /\ phase # "exited" => heap.manager # "freed"
    /\ phase = "exited" => heap.manager # "live"

\* Before the session nothing of it exists.
NotBegun ==
    phase \notin {"up", "exited"} => peers = {} /\ game_payload = NULL /\ again = FALSE

\* The server's connections and its game payload have objects of their own, and
\* while it still receives no connection keeps a payload.
Ownership ==
    program = "server" /\ phase = "up" =>
        /\ \A peer \in peers :
            /\ peer = [objs |-> peer.objs, payload |-> peer.payload]
            /\ Four(peer.objs) /\ ToSet(peer.objs) \subseteq Listed(heap)
            /\ game_payload \notin ToSet(peer.objs)
            /\ Receiving => peer.payload = NULL
        /\ \A peer, other \in peers :
            peer # other => ToSet(peer.objs) \cap ToSet(other.objs) = {}
        /\ game_payload # NULL => game_payload \in Listed(heap)

MemInv == Sound(heap) /\ ErrnoTells /\ ManagerOK /\ NotBegun /\ Ownership

\* Nothing is forgotten as long as no payload is deserialized under an errno that
\* an earlier allocation has left.
Tidy == Complete(heap) /\ (program = "server" /\ again => errno # "ENOMEM")

\* The client's set-up does not fail unnoticed; nor does the allocation of a
\* packet the server sends again.
SetUpOrExit == "client set-up" \notin MayFail
ResendSucceeds == "buffer sent again" \notin MayFail

\* What each action keeps.
Keeps == MemInv' /\ (ResendSucceeds /\ Tidy => Tidy')

-----------------------------------------------------------------------------
(* Steps of a session.                                                     *)

\* In a session the invariant speaks of the heap and of who owns what.
LEMMA SessionKeeps ==
    ASSUME MemInv, phase = "up", UNCHANGED <<program, phase, args>>,
           Sound(heap'), heap'.manager = "live", Ownership'
    PROVE  MemInv'
BY DEF MemInv, ErrnoTells, ManagerOK, NotBegun

\* The steps that leave the connections alone and take nothing off the list.
LEMMA ListGrows ==
    ASSUME MemInv, phase = "up", UNCHANGED <<program, phase, args, peers, game_payload>>,
           Sound(heap'), heap'.manager = "live", Listed(heap) \subseteq Listed(heap'),
           Receiving' => Receiving
    PROVE  MemInv'
<1>1. Ownership'
  BY DEF MemInv, Ownership
<1> QED
  BY <1>1, SessionKeeps

\* What malloc hands out where it may fail.
LEMMA MallocFacts ==
    ASSUME NEW site, NEW a \in Malloc(site)
    PROVE  a \in Addrs \ heap.live \/ (a = NULL /\ site \in MayFail)
<1>1. CASE a \in {objs[1] : objs \in Mallocs(1)}
  <2>1. PICK objs \in MallocsBeside(Kept, 1) : a = objs[1]
    BY <1>1 DEF Mallocs
  <2> QED
    BY <2>1, MallocsFacts
<1> QED
  BY <1>1 DEF Malloc

\* A buffer is registered, and freed unless sendto fails.
LEMMA SendsFromFacts ==
    ASSUME Sound(heap), heap.manager = "live", NEW a \in Addrs \ heap.live, SendsFrom(a)
    PROVE  /\ Sound(heap') /\ heap'.manager = "live"
           /\ Listed(heap) \subseteq Listed(heap')
           /\ Complete(heap) => Complete(heap')
           /\ errno' = errno \/ errno' = "other"
<1> DEFINE g == Obtain(heap, a)
<1>1. /\ Sound(g) /\ Listed(g) = Listed(heap) \cup {a}
      /\ g.live = heap.live \cup {a} /\ g.manager = "live"
  BY ObtainFacts
<1>2. a \notin Listed(heap) /\ a \in ToSet(g.list)
  BY <1>1 DEF Sound, Listed
<1>3. CASE heap' = mm_free(g, a) /\ UNCHANGED errno
  <2>1. /\ Sound(heap') /\ Listed(heap') = Listed(g) \ {a}
        /\ heap'.live = g.live \ {a} /\ heap'.manager = "live"
    BY <1>1, <1>2, <1>3, FreeFacts
  <2> QED
    BY <1>1, <1>2, <1>3, <2>1 DEF Complete
<1>4. CASE heap' = g /\ errno' = "other"
  BY <1>1, <1>4 DEF Complete
<1> QED
  BY <1>3, <1>4 DEF SendsFrom

LEMMA SvSendsFacts ==
    ASSUME Sound(heap), heap.manager = "live", NEW site, SvSends(site)
    PROVE  /\ Sound(heap') /\ heap'.manager = "live"
           /\ Listed(heap) \subseteq Listed(heap')
           /\ Complete(heap) => Complete(heap')
           /\ errno' = errno \/ errno' = "other" \/ (errno' = "ENOMEM" /\ site \in MayFail)
<1>1. PICK a \in Malloc(site) :
        IF a = NULL THEN errno' = "ENOMEM" /\ UNCHANGED heap ELSE SendsFrom(a)
  BY DEF SvSends
<1>2. CASE a = NULL
  BY <1>1, <1>2, MallocFacts, NullFacts
<1>3. CASE a # NULL
  BY <1>1, <1>3, MallocFacts, SendsFromFacts
<1> QED
  BY <1>2, <1>3

LEMMA SvSendKeeps == ASSUME MemInv, SvSend PROVE Keeps
<1>1. /\ phase = "up" /\ program = "server" /\ ~again
      /\ UNCHANGED <<program, phase, args, peers, game_payload, again>>
  BY DEF SvSend, In, sessionVars
<1>2. Sound(heap) /\ heap.manager = "live"
  BY <1>1 DEF MemInv, ManagerOK
<1>3. /\ Sound(heap') /\ heap'.manager = "live"
      /\ Listed(heap) \subseteq Listed(heap')
      /\ Complete(heap) => Complete(heap')
      /\ errno' = errno \/ errno' = "other" \/ errno' = "ENOMEM"
  BY <1>2, SvSendsFacts DEF SvSend
<1>4. Receiving' => Receiving
  BY <1>1, <1>3 DEF Receiving
<1>5. MemInv'
  BY <1>1, <1>3, <1>4, ListGrows
<1> QED
  BY <1>1, <1>3, <1>5 DEF Keeps, Tidy

LEMMA SvSendAgainKeeps == ASSUME MemInv, SvSendAgain PROVE Keeps
<1>1. /\ phase = "up" /\ program = "server" /\ Receiving
      /\ UNCHANGED <<program, phase, args, peers, game_payload>>
  BY DEF SvSendAgain, In
<1>2. Sound(heap) /\ heap.manager = "live"
  BY <1>1 DEF MemInv, ManagerOK
<1>3. /\ Sound(heap') /\ heap'.manager = "live"
      /\ Listed(heap) \subseteq Listed(heap')
      /\ Complete(heap) => Complete(heap')
      /\ \/ errno' = errno \/ errno' = "other"
         \/ errno' = "ENOMEM" /\ "buffer sent again" \in MayFail
  BY <1>2, SvSendsFacts DEF SvSendAgain
<1>4. MemInv'
  BY <1>1, <1>3, ListGrows
<1>5. ASSUME ResendSucceeds, Tidy PROVE Tidy'
  BY <1>1, <1>3, <1>5 DEF Tidy, ResendSucceeds, Receiving
<1> QED
  BY <1>4, <1>5 DEF Keeps

LEMMA SvCallFailsKeeps == ASSUME MemInv, SvCallFails PROVE Keeps
<1>1. /\ phase = "up" /\ UNCHANGED <<program, phase, args, heap, peers, game_payload>>
      /\ ~Receiving' /\ errno' = "other"
  BY DEF SvCallFails, In, Receiving
<1>2. MemInv'
  BY <1>1, ListGrows DEF MemInv, ManagerOK
<1> QED
  BY <1>1, <1>2 DEF Keeps, Tidy

LEMMA ClSendKeeps == ASSUME MemInv, ClSend PROVE Keeps
<1>1. /\ phase = "up" /\ program = "client" /\ errno # "ENOMEM"
      /\ UNCHANGED <<program, phase, args, peers, game_payload, again>>
  BY DEF ClSend, In, sessionVars
<1>2. Sound(heap) /\ heap.manager = "live"
  BY <1>1 DEF MemInv, ManagerOK
<1>3. PICK a \in Malloc("buffer") :
        IF a = NULL THEN heap' = mm_add(heap, NULL) /\ errno' = "other" ELSE SendsFrom(a)
  BY DEF ClSend
<1>4. /\ Sound(heap') /\ heap'.manager = "live"
      /\ Complete(heap) => Complete(heap')
      /\ errno' = errno \/ errno' = "other"
  <2>1. CASE a = NULL
    BY <1>2, <1>3, <2>1, AddNull DEF Complete
  <2>2. CASE a # NULL
    BY <1>2, <1>3, <2>2, MallocFacts, SendsFromFacts
  <2> QED
    BY <2>1, <2>2
<1>5. MemInv'
  BY <1>1, <1>4, SessionKeeps DEF Ownership
<1> QED
  BY <1>1, <1>4, <1>5 DEF Keeps, Tidy

\* A new connection owns four new objects.
LEMMA ConnectsKeeps ==
    ASSUME MemInv, phase = "up", program = "server", game_payload = NULL,
           UNCHANGED <<program, phase, args, game_payload>>, Connects,
           Receiving' => Receiving
    PROVE  /\ MemInv'
           /\ Complete(heap) => Complete(heap')
<1>1. PICK objs \in MallocsBeside(Kept, 4) :
        /\ heap' = ObtainAll(heap, Reverse(objs))
        /\ peers' = peers \cup {[objs |-> Reverse(objs), payload |-> NULL]}
  BY DEF Connects, Mallocs
<1> DEFINE o == Reverse(objs)
           new == [objs |-> o, payload |-> NULL]
<1>2. Four(o) /\ ToSet(o) \subseteq Addrs \ heap.live
  BY MallocsFacts
<1>3. Sound(heap) /\ heap.manager = "live"
  BY DEF MemInv, ManagerOK
<1> HIDE DEF o
<1>4. /\ Sound(heap') /\ Listed(heap') = Listed(heap) \cup ToSet(o)
      /\ heap'.live = heap.live \cup ToSet(o) /\ heap'.manager = "live"
  BY <1>1, <1>2, <1>3, ObtainAllFacts DEF o
<1>5. /\ peers' = peers \cup {new} /\ new.objs = o /\ new.payload = NULL
      /\ new = [objs |-> new.objs, payload |-> new.payload]
  BY <1>1 DEF o
<1> HIDE DEF new
<1>6. ToSet(o) \cap Listed(heap) = {} /\ NULL \notin ToSet(o)
  BY <1>2, <1>3, NullFacts DEF Sound
<1>7. Ownership'
  <2>1. ASSUME NEW peer \in peers'
        PROVE  /\ peer = [objs |-> peer.objs, payload |-> peer.payload]
               /\ Four(peer.objs) /\ ToSet(peer.objs) \subseteq Listed(heap')
               /\ game_payload' \notin ToSet(peer.objs)
               /\ Receiving' => peer.payload = NULL
    <3>1. CASE peer \in peers
      BY <1>4, <3>1 DEF MemInv, Ownership
    <3>2. CASE peer = new
      BY <1>2, <1>4, <1>5, <1>6, <3>2
    <3> QED
      BY <1>5, <3>1, <3>2
  <2>2. ASSUME NEW peer \in peers', NEW other \in peers', peer # other
        PROVE  ToSet(peer.objs) \cap ToSet(other.objs) = {}
    <3>1. \A old \in peers : ToSet(old.objs) \subseteq Listed(heap)
      BY DEF MemInv, Ownership
    <3>2. CASE peer \in peers /\ other \in peers
      BY <2>2, <3>2 DEF MemInv, Ownership
    <3>3. CASE peer = new /\ other \in peers
      BY <1>5, <1>6, <3>1, <3>3
    <3>4. CASE peer \in peers /\ other = new
      BY <1>5, <1>6, <3>1, <3>4
    <3> QED
      BY <1>5, <2>2, <3>2, <3>3, <3>4
  <2> QED
    BY <2>1, <2>2 DEF Ownership
<1>8. MemInv'
  BY <1>4, <1>7, SessionKeeps
<1> QED
  BY <1>4, <1>8 DEF Complete

\* What create_conn_client obtains before it fails it gives back, all of it and
\* nothing else.
LEMMA InVainFacts ==
    ASSUME NEW h, h \in Heaps, NEW objs, NEW n \in Nat,
           \A i \in 1 .. n : objs[i] \notin h.live
    PROVE  AllocatedInVain(h, objs, n) = h
<1> DEFINE given == {objs[i] : i \in 1 .. n}
<1>1. given \cap h.live = {}
  OBVIOUS
<1> HIDE DEF given
<1>2. /\ (h.live \cup given) \ given = h.live
      /\ given \subseteq h.live \cup given
  BY <1>1
<1>3. AllocatedInVain(h, objs, n) = [h EXCEPT !.live = h.live, !.broken = h.broken]
  <2>1. AllocatedInVain(h, objs, n) =
            [h EXCEPT !.live = (h.live \cup given) \ given,
                      !.broken = @ \/ ~(given \subseteq h.live \cup given)]
    BY DEF AllocatedInVain, GivenBack, given
  <2>2. (h.broken \/ ~(given \subseteq h.live \cup given)) = h.broken
    BY <1>2 DEF Heaps
  <2> QED BY <1>2, <2>1, <2>2
<1> QED BY <1>3 DEF Heaps

LEMMA ConnectKeeps == ASSUME MemInv, Connect PROVE Keeps
<1>1. /\ phase = "up" /\ program = "server" /\ Clear /\ game_payload = NULL
      /\ UNCHANGED <<program, phase, args, game_payload, again>>
  BY DEF Connect, In
<1>2. Receiving
  BY <1>1 DEF Clear, Receiving
<1>3. CASE Connects
  BY <1>1, <1>2, <1>3, ConnectsKeeps DEF Keeps, Tidy, Clear
<1>4. CASE ConnectsInVain
  <2>1. PICK objs \in MallocsBeside(Kept, 3), n \in 0 .. 3 :
            heap' = AllocatedInVain(heap, objs, n)
    BY <1>4 DEF ConnectsInVain, Mallocs
  <2>2. \A i \in 1 .. n : objs[i] \notin heap.live
    BY <2>1, MallocsFacts
  <2>3. heap' = heap /\ peers' = peers
    BY <1>4, <2>1, <2>2, InVainFacts DEF ConnectsInVain, MemInv, Sound
  <2>4. MemInv'
    BY <1>1, <1>2, <2>3, ListGrows DEF MemInv, ManagerOK
  <2> QED
    BY <1>1, <2>3, <2>4 DEF Keeps, Tidy, Clear
<1> QED
  BY <1>3, <1>4 DEF Connect

\* A connection gives back what it owns, and nobody else owns any of it.
LEMMA DisconnectKeeps == ASSUME MemInv, Disconnect PROVE Keeps
<1>1. PICK peer \in peers :
        heap' = ReleaseAll(heap, peer.objs) /\ peers' = peers \ {peer}
  BY DEF Disconnect
<1>2. /\ phase = "up" /\ program = "server" /\ Receiving
      /\ UNCHANGED <<program, phase, args, game_payload, errno>>
      /\ again' = FALSE
  BY DEF Disconnect, In
<1>3. /\ Sound(heap) /\ heap.manager = "live"
      /\ Four(peer.objs) /\ ToSet(peer.objs) \subseteq Listed(heap)
  BY <1>2 DEF MemInv, ManagerOK, Ownership
<1>4. /\ Sound(heap') /\ Listed(heap') = Listed(heap) \ ToSet(peer.objs)
      /\ heap'.live = heap.live \ ToSet(peer.objs) /\ heap'.manager = "live"
  BY <1>1, <1>3, ReleaseAllFacts
<1>5. Ownership'
  BY <1>1, <1>2, <1>4 DEF MemInv, Ownership
<1>6. MemInv'
  BY <1>2, <1>4, <1>5, SessionKeeps
<1> QED
  BY <1>2, <1>4, <1>6 DEF Keeps, Tidy, Complete

LEMMA AssembleKeeps == ASSUME MemInv, Assemble PROVE Keeps
<1>1. /\ phase = "up" /\ program = "server" /\ Clear /\ game_payload = NULL
      /\ UNCHANGED <<program, phase, args, peers, again>>
  BY DEF Assemble, In
<1>2. PICK a \in Malloc("game payload") :
        IF a = NULL
        THEN errno' = "ENOMEM" /\ UNCHANGED <<heap, game_payload>>
        ELSE heap' = Obtain(heap, a) /\ game_payload' = a /\ UNCHANGED errno
  BY DEF Assemble
<1>3. Sound(heap) /\ heap.manager = "live"
  BY <1>1 DEF MemInv, ManagerOK
<1>4. CASE a = NULL
  <2>1. MemInv'
    BY <1>1, <1>2, <1>3, <1>4, ListGrows DEF Receiving, Clear
  <2> QED
    BY <1>1, <1>2, <1>4, <2>1 DEF Keeps, Tidy, Clear
<1>5. CASE a # NULL
  <2>1. a \in Addrs \ heap.live
    BY <1>5, MallocFacts
  <2>2. /\ Sound(heap') /\ Listed(heap') = Listed(heap) \cup {a}
        /\ heap'.live = heap.live \cup {a} /\ heap'.manager = "live"
    <3>1. heap' = Obtain(heap, a)
      BY <1>2, <1>5
    <3> QED
      BY <1>3, <2>1, <3>1, ObtainFacts
  <2>3. a \notin Listed(heap)
    BY <1>3, <2>1 DEF Sound
  <2>4. Ownership'
    BY <1>1, <1>2, <1>5, <2>2, <2>3 DEF MemInv, Ownership, Receiving
  <2>5. MemInv'
    BY <1>1, <2>2, <2>4, SessionKeeps
  <2> QED
    BY <1>1, <1>2, <1>5, <2>2, <2>5 DEF Keeps, Tidy, Complete
<1> QED
  BY <1>4, <1>5

LEMMA DiscardKeeps == ASSUME MemInv, Discard PROVE Keeps
<1>1. /\ phase = "up" /\ program = "server" /\ game_payload # NULL
      /\ heap' = mm_free(heap, game_payload) /\ game_payload' = NULL
      /\ UNCHANGED <<program, phase, args, peers, again, errno>>
  BY DEF Discard, In
<1>2. Sound(heap) /\ heap.manager = "live" /\ game_payload \in Listed(heap)
  BY <1>1 DEF MemInv, ManagerOK, Ownership
<1>3. /\ Sound(heap') /\ Listed(heap') = Listed(heap) \ {game_payload}
      /\ heap'.live = heap.live \ {game_payload} /\ heap'.manager = "live"
  BY <1>1, <1>2, FreeFacts DEF Listed
<1>4. NULL \notin Listed(heap)
  BY DEF Listed
<1>5. Ownership'
  BY <1>1, <1>3, <1>4 DEF MemInv, Ownership, Receiving
<1>6. MemInv'
  BY <1>1, <1>3, <1>5, SessionKeeps
<1> QED
  BY <1>1, <1>3, <1>6 DEF Keeps, Tidy, Complete

\* A payload that was deserialized is registered and freed, and a null pointer
\* too.
LEMMA ProcessedFacts ==
    ASSUME Sound(heap), heap.manager = "live", NEW a, NEW allocated \in BOOLEAN,
           \/ a \in Addrs \ heap.live /\ allocated
           \/ a = NULL /\ ~allocated
    PROVE  /\ Sound(Processed(a, allocated))
           /\ Listed(Processed(a, allocated)) = Listed(heap)
           /\ Processed(a, allocated).live = heap.live
           /\ Processed(a, allocated).manager = "live"
<1> DEFINE g == IF allocated THEN Obtain(heap, a) ELSE mm_add(heap, a)
           r == Processed(a, allocated)
<1>1. r = mm_free(g, a)
  BY DEF Processed
<1> HIDE DEF r
<1>2. CASE a = NULL /\ ~allocated
  <2>1. g = mm_add(heap, NULL)
    BY <1>2
  <2> HIDE DEF g
  <2>2. /\ Sound(g) /\ Listed(g) = Listed(heap) /\ NULL \in ToSet(g.list)
        /\ g.live = heap.live /\ g.manager = "live"
    BY <2>1, AddNull
  <2>3. NULL \notin heap.live /\ NULL \notin Listed(heap)
    BY NullFacts DEF Sound, Heaps, Listed
  <2>4. r = mm_free(g, NULL)
    BY <1>1, <1>2
  <2>5. /\ Sound(r) /\ Listed(r) = Listed(g) \ {NULL}
        /\ r.live = g.live \ {NULL} /\ r.manager = g.manager
    BY <2>2, <2>4, FreeFacts
  <2> QED
    BY <2>2, <2>3, <2>5 DEF r
<1>3. CASE a \in Addrs \ heap.live /\ allocated
  <2>1. g = Obtain(heap, a)
    BY <1>3
  <2> HIDE DEF g
  <2>2. /\ Sound(g) /\ Listed(g) = Listed(heap) \cup {a}
        /\ g.live = heap.live \cup {a} /\ g.manager = "live"
    BY <1>3, <2>1, ObtainFacts
  <2>3. a \in ToSet(g.list) /\ a \notin Listed(heap)
    BY <1>3, <2>2 DEF Listed, Sound
  <2>4. /\ Sound(r) /\ Listed(r) = Listed(g) \ {a}
        /\ r.live = g.live \ {a} /\ r.manager = g.manager
    BY <1>1, <2>2, <2>3, FreeFacts
  <2> QED
    BY <1>3, <2>2, <2>3, <2>4 DEF r
<1> QED
  BY <1>2, <1>3

\* Receiving leaves the list as it was, and everything registered; a payload that
\* is deserialized under an old ENOMEM is the one that is not.
LEMMA ProcessesFacts ==
    ASSUME MemInv, phase = "up", NEW peer, NEW keep,
           NEW p \in Deserialized(peer), p[2] \/ peer.payload = NULL,
           Processes(peer, p, keep)
    PROVE  /\ Sound(heap') /\ heap'.manager = "live"
           /\ Listed(heap') = Listed(heap)
           /\ errno # "ENOMEM" => /\ Complete(heap) => Complete(heap')
                                  /\ errno' = "ENOMEM" => p[1] = NULL
           /\ errno = "ENOMEM" => errno' = "ENOMEM"
<1> DEFINE failed == p = <<NULL, TRUE>>
<1>1. Sound(heap) /\ heap.manager = "live"
  BY DEF MemInv, ManagerOK
<1>2. /\ p[2] \in BOOLEAN
      /\ \/ p[1] = NULL /\ ~p[2]
         \/ p[1] = NULL /\ p[2] /\ failed
         \/ p[1] \in Addrs \ heap.live /\ p[2] /\ ~failed
  <2>1. CASE p = <<peer.payload, FALSE>>
    BY <2>1
  <2>2. CASE p \in Malloc("payload") \X {TRUE}
    <3> DEFINE mallocs == Malloc("payload")
    <3>1. \A a \in mallocs : a \in Addrs \ heap.live \/ a = NULL
      BY MallocFacts
    <3>2. p \in mallocs \X {TRUE}
      BY <2>2
    <3> HIDE DEF mallocs
    <3>3. p[1] \in mallocs
      BY <3>2
    <3>4. p[2] = TRUE
      BY <3>2
    <3>5. p = <<p[1], p[2]>>
      BY <3>2
    <3>6. p[1] = NULL => p = <<NULL, TRUE>>
      BY <3>4, <3>5, Zenon
    <3>7. p = <<NULL, TRUE>> => p[1] = NULL
      OBVIOUS
    <3> QED
      BY <3>1, <3>3, <3>4, <3>6, <3>7, NullFacts
  <2> QED
    BY <2>1, <2>2 DEF Deserialized
<1>3. CASE failed
  <2>1. heap' = heap /\ errno' = "ENOMEM" /\ p[1] = NULL
    BY <1>3 DEF Processes
  <2> QED
    BY <1>1, <2>1
<1>4. CASE ~failed /\ errno = "ENOMEM"
  <2>1. heap' = (IF p[2] THEN Allocated(heap, p[1]) ELSE heap) /\ errno' = errno
    BY <1>4 DEF Processes
  <2>2. CASE p[2]
    BY <1>1, <1>2, <1>4, <2>1, <2>2, AllocatedFacts
  <2>3. CASE ~p[2]
    BY <1>1, <1>4, <2>1, <2>3
  <2> QED
    BY <2>2, <2>3
<1>5. CASE ~failed /\ errno # "ENOMEM"
  <2>1. heap' = Processed(p[1], p[2]) /\ errno' = errno
    BY <1>5 DEF Processes
  <2>2. \/ p[1] \in Addrs \ heap.live /\ p[2]
        \/ p[1] = NULL /\ ~p[2]
    BY <1>2, <1>5
  <2>3. /\ Sound(heap') /\ Listed(heap') = Listed(heap)
        /\ heap'.live = heap.live /\ heap'.manager = "live"
    BY <1>1, <1>2, <2>1, <2>2, ProcessedFacts
  <2> QED
    BY <1>5, <2>1, <2>3 DEF Complete
<1> QED
  BY <1>3, <1>4, <1>5

LEMMA SvProcessKeeps == ASSUME MemInv, SvProcess PROVE Keeps
<1>0. PICK peer \in peers : \E p \in Deserialized(peer) : Processes(peer, p, NULL)
  BY DEF SvProcess
<1>1. PICK p \in Deserialized(peer) : Processes(peer, p, NULL)
  BY <1>0
<1>2. /\ phase = "up" /\ program = "server" /\ Receiving
      /\ UNCHANGED <<program, phase, args, game_payload>> /\ again' = FALSE
  BY DEF SvProcess, In
<1>3. /\ peer.payload = NULL
      /\ peer = [objs |-> peer.objs, payload |-> peer.payload]
  BY <1>2 DEF MemInv, Ownership
<1>4. /\ Sound(heap') /\ heap'.manager = "live"
      /\ Listed(heap') = Listed(heap)
      /\ errno # "ENOMEM" => /\ Complete(heap) => Complete(heap')
                             /\ errno' = "ENOMEM" => p[1] = NULL
      /\ errno = "ENOMEM" => errno' = "ENOMEM"
  BY <1>1, <1>2, <1>3, ProcessesFacts
<1> DEFINE left == IF p = <<NULL, TRUE>> \/ errno = "ENOMEM" THEN p[1] ELSE NULL
           new == [peer EXCEPT !.payload = left]
<1>5. peers' = (peers \ {peer}) \cup {new}
  BY <1>1 DEF Processes
<1> HIDE DEF left
<1>6. /\ new = [objs |-> new.objs, payload |-> new.payload]
      /\ new.objs = peer.objs /\ new.payload = left
  BY <1>3
<1>7. Receiving' => left = NULL
  <2>1. CASE errno = "ENOMEM"
    BY <1>2, <1>4, <2>1 DEF Receiving, left
  <2>2. CASE errno # "ENOMEM" /\ p = <<NULL, TRUE>>
    BY <1>2, <1>4, <2>2 DEF left
  <2>3. CASE errno # "ENOMEM" /\ p # <<NULL, TRUE>>
    BY <1>2, <1>4, <2>3 DEF left
  <2> QED
    BY <2>1, <2>2, <2>3 DEF left
<1> HIDE DEF new
<1>8. Ownership'
  <2>1. \A other \in peers' : other = new \/ (other \in peers /\ other # peer)
    BY <1>5
  <2>2. ASSUME NEW other \in peers'
        PROVE  /\ other = [objs |-> other.objs, payload |-> other.payload]
               /\ Four(other.objs) /\ ToSet(other.objs) \subseteq Listed(heap')
               /\ game_payload' \notin ToSet(other.objs)
               /\ Receiving' => other.payload = NULL
    <3>1. CASE other = new
      BY <1>2, <1>4, <1>6, <1>7, <3>1 DEF MemInv, Ownership
    <3>2. CASE other \in peers
      BY <1>2, <1>4, <3>2 DEF MemInv, Ownership
    <3> QED
      BY <2>1, <3>1, <3>2
  <2>3. ASSUME NEW one \in peers', NEW other \in peers', one # other
        PROVE  ToSet(one.objs) \cap ToSet(other.objs) = {}
    <3>1. \A x, y \in peers : x # y => ToSet(x.objs) \cap ToSet(y.objs) = {}
      BY <1>2 DEF MemInv, Ownership
    <3> QED
      BY <1>6, <2>1, <2>3, <3>1
  <2>4. game_payload' # NULL => game_payload' \in Listed(heap')
    BY <1>2, <1>4 DEF MemInv, Ownership
  <2> QED
    BY <2>2, <2>3, <2>4 DEF Ownership
<1>9. MemInv'
  BY <1>2, <1>4, <1>8, SessionKeeps
<1>10. ASSUME Tidy PROVE Tidy'
  BY <1>2, <1>4, <1>10 DEF Tidy, Receiving
<1> QED
  BY <1>9, <1>10 DEF Keeps

LEMMA ClProcessKeeps == ASSUME MemInv, ClProcess PROVE Keeps
<1>0. PICK peer \in peers : \E p \in Deserialized(peer) :
        (p[2] \/ peer.payload = NULL) /\ Processes(peer, p, p[1])
  BY DEF ClProcess
<1>1. PICK p \in Deserialized(peer) :
        (p[2] \/ peer.payload = NULL) /\ Processes(peer, p, p[1])
  BY <1>0
<1>2. /\ phase = "up" /\ program = "client" /\ errno # "ENOMEM"
      /\ UNCHANGED <<program, phase, args, game_payload, again>>
  BY DEF ClProcess, In
<1>3. /\ Sound(heap') /\ heap'.manager = "live"
      /\ Complete(heap) => Complete(heap')
  BY <1>1, <1>2, ProcessesFacts
<1>4. MemInv'
  BY <1>2, <1>3, SessionKeeps DEF Ownership
<1> QED
  BY <1>2, <1>3, <1>4 DEF Keeps, Tidy

-----------------------------------------------------------------------------
(* The beginning and the end of a program.                                 *)

LEMMA EmptyFacts ==
    /\ Sound(EmptyHeap) /\ Listed(EmptyHeap) = {} /\ Complete(EmptyHeap)
    /\ EmptyHeap.manager = "none"
<1> DEFINE h == EmptyHeap
<1>1. /\ h.list = <<>> /\ h.live = {} /\ h.manager = "none" /\ h.broken = FALSE
      /\ h = [list |-> <<>>, live |-> {}, manager |-> "none", broken |-> FALSE]
  BY DEF EmptyHeap
<1> HIDE DEF h
<1>2. <<>> \in Seq(Entries) /\ DOMAIN <<>> = {}
  BY EmptySeq
<1>3. h \in Heaps
  BY <1>1, <1>2 DEF Heaps
<1>4. ToSet(h.list) = {}
  BY <1>1, <1>2 DEF ToSet
<1>5. Listed(h) = {} /\ Sound(h) /\ Complete(h)
  BY <1>1, <1>2, <1>3, <1>4 DEF Listed, Sound, Complete
<1> QED
  BY <1>1, <1>5 DEF h

LEMMA InitialManager ==
    /\ Sound(init_memory_manager(EmptyHeap))
    /\ Complete(init_memory_manager(EmptyHeap))
    /\ init_memory_manager(EmptyHeap).live = {}
    /\ init_memory_manager(EmptyHeap).manager = "live"
<1> DEFINE h == init_memory_manager(EmptyHeap)
           e == EmptyHeap
<1>1. e = [list |-> <<>>, live |-> {}, manager |-> "none", broken |-> FALSE]
  BY DEF EmptyHeap
<1>2. h = [e EXCEPT !.manager = "live", !.list = <<>>]
  BY DEF init_memory_manager
<1> HIDE DEF h, e
<1>3. h = [list |-> <<>>, live |-> {}, manager |-> "live", broken |-> FALSE]
  BY <1>1, <1>2
<1>4. <<>> \in Seq(Entries) /\ DOMAIN <<>> = {}
  BY EmptySeq
<1>5. h.list = <<>> /\ h.live = {} /\ h.manager = "live" /\ h.broken = FALSE
  BY <1>3
<1>6. h \in Heaps
  BY <1>3, <1>4 DEF Heaps
<1>7. ToSet(h.list) = {}
  BY <1>5, <1>4 DEF ToSet
<1>8. Sound(h) /\ Complete(h)
  BY <1>4, <1>5, <1>6, <1>7 DEF Listed, Sound, Complete
<1> QED
  BY <1>5, <1>8 DEF h

\* Closing frees whatever is listed.
LEMMA CloseKeeps ==
    ASSUME MemInv, phase \in {"closing", "up"}, Close
    PROVE  /\ Sound(heap') /\ heap'.manager # "live"
           /\ Complete(heap) => Complete(heap')
<1>1. Sound(heap) /\ heap.manager \in {"none", "live"}
  BY DEF MemInv, Sound, Heaps, ManagerOK
<1>2. CASE heap.manager = "none"
  <2>1. heap' = heap
    BY <1>2 DEF Close, free_memory_manager
  <2> QED
    BY <1>1, <1>2, <2>1
<1>3. CASE heap.manager = "live"
  <2> DEFINE g == mm_free_all(heap)
             h == [g EXCEPT !.manager = "freed"]
  <2>1. heap' = h
    BY <1>3 DEF Close, free_memory_manager
  <2>2. ~g.broken /\ g \in Heaps /\ g.list = <<>> /\ g.live = heap.live \ Listed(heap)
    BY <1>1, FreeAllFacts
  <2> DEFINE e == <<>>
  <2>3. DOMAIN e = {}
    BY EmptySeq
  <2> HIDE DEF g, e
  <2>4. h \in Heaps /\ h.list = e /\ h.live = g.live /\ ~h.broken /\ h.manager = "freed"
    BY <2>2 DEF Heaps, e
  <2> HIDE DEF h
  <2>5. ToSet(h.list) = {}
    BY <2>3, <2>4 DEF ToSet
  <2>6. Sound(h)
    BY <2>3, <2>4, <2>5 DEF Sound, Listed, e
  <2>7. Complete(heap) => Complete(h)
    BY <2>2, <2>4, <2>5 DEF Complete, Listed
  <2> QED
    BY <2>1, <2>4, <2>6, <2>7
<1> QED
  BY <1>1, <1>2, <1>3

\* What a call of run does to the heap, and where the program is afterwards.
Started ==
    /\ Sound(heap') /\ ManagerOK'
    /\ Complete(heap) => Complete(heap')
    /\ program' = program

LEMMA SetDefaultsStarts ==
    ASSUME MemInv, SetUpOrExit, SetDefaults
    PROVE  Started
<1> DEFINE h == init_memory_manager(EmptyHeap)
<1>1. /\ phase = "defaults" /\ phase' = "arguments" /\ program' = program
      /\ heap = EmptyHeap
  BY DEF MemInv, ErrnoTells, SetDefaults
<1>2. Sound(h) /\ Complete(h) /\ h.live = {} /\ h.manager = "live"
  BY InitialManager
<1>3. /\ Sound(EmptyHeap) /\ Complete(EmptyHeap) /\ EmptyHeap.manager = "none"
  BY EmptyFacts
<1> HIDE DEF h
<1>4. CASE SvDefaults
  <2>1. program = "server"
    BY <1>4 DEF SvDefaults
  <2>2. CASE \E objs \in MallocsBeside({}, 1) : heap' = Obtain(h, objs[1])
    <3>1. PICK objs \in MallocsBeside({}, 1) : heap' = Obtain(h, objs[1])
      BY <2>2
    <3>2. objs[1] \in Addrs \ h.live
      BY <1>2, MallocsFacts
    <3>3. /\ Sound(heap') /\ Listed(heap') = Listed(h) \cup {objs[1]}
          /\ heap'.live = h.live \cup {objs[1]} /\ heap'.manager = "live"
      BY <1>2, <3>1, <3>2, ObtainFacts
    <3> QED
      BY <1>1, <1>2, <2>1, <3>3 DEF Started, ManagerOK, Complete
  <2>3. CASE heap' = heap \/ heap' = h
    BY <1>1, <1>2, <1>3, <2>1, <2>3 DEF Started, ManagerOK
  <2> QED
    BY <1>1, <1>4, <2>2, <2>3 DEF SvDefaults, DefaultsFail, h
<1>5. CASE ClDefaults
  <2>1. \E objs \in MallocsBeside({}, 4) : heap' = ObtainAll(h, objs)
    BY <1>1, <1>5 DEF ClDefaults, SetUpOrExit, h
  <2>2. PICK objs \in MallocsBeside({}, 4) : heap' = ObtainAll(h, objs)
    BY <2>1
  <2>3. Four(objs) /\ ToSet(objs) \subseteq Addrs \ h.live
    BY <1>2, MallocsFacts
  <2>4. /\ Sound(heap') /\ Listed(heap') = Listed(h) \cup ToSet(objs)
        /\ heap'.live = h.live \cup ToSet(objs) /\ heap'.manager = "live"
    BY <1>2, <2>2, <2>3, ObtainAllFacts
  <2> QED
    BY <1>1, <1>2, <2>4 DEF Started, ManagerOK, Complete
<1> QED
  BY <1>4, <1>5 DEF SetDefaults

LEMMA ClOpenStarts ==
    ASSUME MemInv, ClOpen
    PROVE  Started
<1>1. /\ phase = "open" /\ program = "client" /\ program' = program
      /\ phase' \in {"up", "closing", "crashed"}
  BY DEF ClOpen, ClOpens, Proceed
<1>2. Sound(heap) /\ heap.manager = "live"
  BY <1>1 DEF MemInv, ManagerOK
<1>3. CASE \E objs \in MallocsBeside({}, 1) : ClOpens(objs[1])
  <2>1. PICK objs \in MallocsBeside({}, 1) : ClOpens(objs[1])
    BY <1>3
  <2>2. objs[1] \in Addrs \ heap.live
    BY MallocsFacts
  <2>3. heap' = Obtain(heap, objs[1])
    BY <2>1 DEF ClOpens
  <2>4. /\ Sound(heap') /\ Listed(heap') = Listed(heap) \cup {objs[1]}
        /\ heap'.live = heap.live \cup {objs[1]} /\ heap'.manager = "live"
    BY <1>2, <2>2, <2>3, ObtainFacts
  <2> QED
    BY <1>1, <2>4 DEF Started, ManagerOK, Complete
<1>4. CASE UNCHANGED heap
  BY <1>1, <1>2, <1>4 DEF Started, ManagerOK
<1> QED
  BY <1>3, <1>4 DEF ClOpen

LEMMA StartupStarts ==
    ASSUME MemInv, SetUpOrExit, StartupStep
    PROVE  Started
<1>1. Sound(heap) /\ ManagerOK
  BY DEF MemInv
<1>2. CASE SetDefaults
  BY <1>2, SetDefaultsStarts
<1>3. CASE ReadArgs
  BY <1>1, <1>3 DEF ReadArgs, Started, ManagerOK
<1>4. CASE SetSignalHandling
  BY <1>1, <1>4 DEF SetSignalHandling, Started, ManagerOK
<1>5. CASE SvOpen
  <2>1. /\ program = "server" /\ phase = "open" /\ phase' \in {"closing", "crashed", "up"}
        /\ phase' = "up" => errno = "none"
        /\ UNCHANGED <<program, heap>>
    BY <1>5 DEF SvOpen, Proceed
  <2>2. phase' = "up" => heap.manager = "live"
    BY <2>1 DEF MemInv, ErrnoTells
  <2> QED
    BY <1>1, <2>1, <2>2 DEF Started, ManagerOK
<1>6. CASE ClOpen
  BY <1>6, ClOpenStarts
<1>7. CASE phase = "closing" /\ Close
  <2>1. phase' = "exited" /\ program' = program
    BY <1>7 DEF Close
  <2> QED
    BY <1>7, <2>1, CloseKeeps DEF Started, ManagerOK
<1> QED
  BY <1>2, <1>3, <1>4, <1>5, <1>6, <1>7 DEF StartupStep

LEMMA BeginKeeps == ASSUME MemInv, SetUpOrExit, Begin PROVE Keeps
<1>1. Started /\ ErrnoTells'
  BY StartupStarts, StartupKeeps DEF MemInv, Begin
<1>2. phase \notin {"up", "exited"}
  BY DEF Begin, StartupStep, SetDefaults, ReadArgs, SetSignalHandling, SvOpen, ClOpen
<1>3. peers = {} /\ game_payload = NULL /\ again = FALSE
  BY <1>2 DEF MemInv, NotBegun
<1>4. /\ ~(program = "client" /\ phase' = "up") => peers' = {}
      /\ game_payload' = NULL /\ again' = FALSE /\ program' = program
  BY <1>1, <1>3 DEF Begin, Started
<1>5. NotBegun' /\ Ownership'
  BY <1>4 DEF NotBegun, Ownership
<1> QED
  BY <1>1, <1>4, <1>5 DEF Keeps, MemInv, Started, Tidy

LEMMA EndKeeps == ASSUME MemInv, End PROVE Keeps
<1>1. /\ phase = "up" /\ phase' = "exited" /\ Close
      /\ UNCHANGED <<program, errno, peers, game_payload, again>>
  BY DEF End, Close, sessionVars
<1>2. Sound(heap') /\ heap'.manager # "live" /\ (Complete(heap) => Complete(heap'))
  BY <1>1, CloseKeeps
<1>3. MemInv'
  BY <1>1, <1>2 DEF MemInv, ErrnoTells, ManagerOK, NotBegun, Ownership
<1> QED
  BY <1>1, <1>2, <1>3 DEF Keeps, Tidy

-----------------------------------------------------------------------------

LEMMA InitMemory == Init => MemInv /\ Tidy
<1> SUFFICES ASSUME Init PROVE MemInv /\ Tidy
  OBVIOUS
<1>1. /\ phase = "defaults" /\ heap = EmptyHeap
      /\ peers = {} /\ game_payload = NULL /\ again = FALSE
  BY DEF Init, StartupInit
<1>2. Sound(heap) /\ Complete(heap) /\ heap.manager = "none"
  BY <1>1, EmptyFacts
<1> QED
  BY <1>1, <1>2 DEF MemInv, Tidy, ErrnoTells, ManagerOK, NotBegun, Ownership

LEMMA StepKeeps ==
    ASSUME MemInv, SetUpOrExit, [Next]_vars
    PROVE  Keeps
<1>1. CASE UNCHANGED vars
  BY <1>1 DEF vars, startVars, sessionVars, Keeps, MemInv, ErrnoTells, Usable, ManagerOK,
              NotBegun, Ownership, Receiving, Tidy
<1>2. CASE Next
  BY <1>2, BeginKeeps, ConnectKeeps, DisconnectKeeps, AssembleKeeps, DiscardKeeps,
     SvSendKeeps, SvSendAgainKeeps, SvCallFailsKeeps, ClSendKeeps, SvProcessKeeps,
     ClProcessKeeps, EndKeeps DEF Next
<1> QED
  BY <1>1, <1>2

(***************************************************************************)
(* Neither program frees an address twice or one it never registered, nor  *)
(* uses a manager that is gone, however many clients come and go, however  *)
(* malloc hands the addresses out and whatever allocation of the server's  *)
(* set-up or of a session fails.  The set-up of the client is not to fail: *)
(* it goes on without a manager then (run in client-src/src/client.c).     *)
(***************************************************************************)
THEOREM FreesOnlyItsOwn ==
    ASSUME SetUpOrExit
    PROVE  Spec => []FreesWhatItOwns
<1>1. Init => MemInv
  BY InitMemory
<1>2. MemInv /\ [Next]_vars => MemInv'
  BY StepKeeps DEF Keeps
<1>3. MemInv => FreesWhatItOwns
  BY DEF MemInv, Sound, FreesWhatItOwns
<1> QED
  BY <1>1, <1>2, <1>3, PTL DEF Spec

(***************************************************************************)
(* Whatever a program has obtained is freed by the time it has exited,     *)
(* also when a buffer, a payload or a connection could not be had or sent. *)
(* The exception is the buffer sv_recvfrom sends again: when that cannot   *)
(* be had, the payload of the packet it goes on to receive is lost.        *)
(***************************************************************************)
THEOREM LeavesNothing ==
    ASSUME SetUpOrExit, ResendSucceeds
    PROVE  Spec => []NothingLeaks
<1>1. Init => MemInv /\ Tidy
  BY InitMemory
<1>2. MemInv /\ Tidy /\ [Next]_vars => MemInv' /\ Tidy'
  BY StepKeeps DEF Keeps
<1>3. MemInv /\ Tidy => NothingLeaks
  <2> SUFFICES ASSUME MemInv, Tidy, phase = "exited" PROVE heap.live = {}
    BY DEF NothingLeaks
  <2>1. heap.manager # "live" /\ Sound(heap)
    BY DEF MemInv, ManagerOK
  <2> DEFINE e == <<>>
  <2>2. heap.list = e
    BY <2>1 DEF Sound
  <2>3. DOMAIN e = {}
    BY EmptySeq
  <2> HIDE DEF e
  <2>4. ToSet(heap.list) = {}
    BY <2>2, <2>3 DEF ToSet
  <2> QED
    BY <2>4 DEF Tidy, Complete, Listed
<1> QED
  BY <1>1, <1>2, <1>3, PTL DEF Spec

=============================================================================
