-------------------------------- MODULE Slab --------------------------------
(***************************************************************************)
(* The slab allocator: mm/slab.c and mm/kmem_cache.c, with the intrusive   *)
(* lists of moon-ds/linked_list.h.                                         *)
(*                                                                         *)
(* One cache and the pages it takes from the page allocator.  Memory is    *)
(* modelled word by word, because a free object doubles as its own         *)
(* slab_bufctl: what a client leaves in an object, and where a bufctl ends *)
(* in the next object or in the slab descriptor, decide what the allocator *)
(* reads later.  Addresses are in bytes, PAGE_SIZE is small, and the       *)
(* structures have the offsets and sizes of the 64-bit build.              *)
(***************************************************************************)
EXTENDS Integers, Sequences, FiniteSets, SequencesExt

CONSTANTS
  PAGE_SIZE,    \* a multiple of 64
  Pages,        \* the page frames the kernel has: addresses
  Requests,     \* <<size, alignment>> of the caches that are created
  FlagSets,     \* sets of flags that kmem_cache_alloc() is called with
  Scribbles,    \* the offsets of an object that its holder writes to
  MaxCaches,    \* bound: caches created one after the other
  MaxFrees      \* bound: objects freed

WORD == 8
NULL == 0
JUNK == -1      \* what a client writes: no address of the allocator's

SlabAssumption ==
  /\ PAGE_SIZE \in Nat /\ PAGE_SIZE % 64 = 0 /\ PAGE_SIZE >= 128
  /\ \A p \in Pages : p \in Nat \ {0} /\ p % PAGE_SIZE = 0
  /\ \A r \in Requests : r[1] \in Nat /\ r[2] \in Nat /\ r[2] % WORD = 0

\* struct slab_bufctl, struct slab and struct slab_cache
NEXT == 0
PTR == 8
PARENT_SLAB == 16
FREELIST == 16
REFCOUNT == 24
SLAB_SIZE == 32
CACHE_SIZE == 24

SMALL_SLAB(size) == size <= PAGE_SIZE \div 8

VARIABLES
  mem,          \* the words of the slabs' pages
  free_pages,   \* page frames that the page allocator still has
  pmm_lock,     \* the page allocator's lock
  cache,        \* the slab_cache: its page, object size and first slab
  held,         \* the pointers that clients hold
  made,         \* number of caches created so far
  frees,        \* number of objects freed so far
  cpu           \* "running", "panic" or "stuck"

vars == <<mem, free_pages, pmm_lock, cache, held, made, frees, cpu>>

NoCache == [page |-> NULL, size |-> 0, object_size |-> 0, nodes |-> NULL]

Init ==
  /\ mem = <<>>
  /\ free_pages = Pages
  /\ pmm_lock = FALSE
  /\ cache = NoCache
  /\ held = {}
  /\ made = 0
  /\ frees = 0
  /\ cpu = "running"
-----------------------------------------------------------------------------
\* What list_foreach visits from a, and whether it ends.
RECURSIVE Walk(_, _, _)
Walk(m, a, seen) ==
  IF a = NULL THEN [items |-> <<>>, ends |-> TRUE]
  ELSE IF a \in seen \/ a \notin DOMAIN m THEN [items |-> <<>>, ends |-> FALSE]
  ELSE LET before(rest) == [items |-> <<a>> \o rest.items, ends |-> rest.ends]
       IN  before(Walk(m, m[a + NEXT], seen \cup {a}))

list_foreach(m, a) == Walk(m, a, {})

\* The part of the state that the calls below pass on.
State == [mem |-> mem, free |-> free_pages, lock |-> pmm_lock,
          nodes |-> cache.nodes, cpu |-> cpu]

\* arch_alloc_page(): the leftmost free page, zeroed.  Out of memory it
\* returns with pmm_lock held, and a call that finds the lock held spins.
arch_alloc_page(st) ==
  IF st.lock THEN [st |-> [st EXCEPT !.cpu = "stuck"], page |-> NULL]
  ELSE IF st.free = {} THEN [st |-> [st EXCEPT !.lock = TRUE], page |-> NULL]
  ELSE LET p == CHOOSE q \in st.free : \A o \in st.free : q <= o
       IN  [st |-> [st EXCEPT !.free = @ \ {p}], page |-> p]

\* arch_free_page(): the buddy allocator ignores an address at which no
\* allocated block starts.
arch_free_page(st, a) ==
  IF st.lock THEN [st EXCEPT !.cpu = "stuck"]
  ELSE [st EXCEPT !.free = @ \cup ({a} \cap Pages)]

ZeroPage(p) == [a \in {p + WORD * i : i \in 0 .. (PAGE_SIZE \div WORD) - 1} |-> 0]

\* The end of create_slab(): the last slab's link is set to the new slab and
\* then cleared.
AppendSlab(st, slab) ==
  LET linked(tail) == [st EXCEPT !.mem = [[@ EXCEPT ![tail + NEXT] = slab]
                                             EXCEPT ![tail + NEXT] = NULL]]
      appended(walk) == IF ~ walk.ends THEN [st EXCEPT !.cpu = "stuck"]
                        ELSE linked(Last(walk.items))
  IN  IF st.nodes = NULL THEN [st EXCEPT !.nodes = slab]
      ELSE appended(list_foreach(st.mem, st.nodes))

\* create_slab() of a small slab: the descriptor is at the end of the page.
create_slab(st) ==
  LET written(buf, slab) ==
        [ZeroPage(buf) EXCEPT ![buf + NEXT] = NULL, ![slab + NEXT] = NULL,
                              ![slab + REFCOUNT] = 0, ![slab + FREELIST] = buf]
      on(now, slab) ==
        [st |-> AppendSlab([now EXCEPT !.mem = written(slab + SLAB_SIZE - PAGE_SIZE, slab) @@ @], slab),
         slab |-> slab]
      placed(got) == IF got.page = NULL THEN [st |-> got.st, slab |-> NULL]
                     ELSE on(got.st, got.page + PAGE_SIZE - SLAB_SIZE)
  IN  placed(arch_alloc_page(st))

\* The number of objects of a slab.
Elements(c) == c.object_size \div c.size

\* One round of the loop that threads the bufctls of a slab.
LinkBufctl(m, buf, slab, size, i) ==
  LET new  == buf + size * i
      tail == IF i = 0 THEN buf ELSE buf + size * (i - 1)
  IN  [[m EXCEPT ![new + PARENT_SLAB] = slab, ![new + PTR] = new]
          EXCEPT ![tail + NEXT] = new]

\* slab_cache_grow() of one slab.
slab_cache_grow(st, c) ==
  LET threaded(m, slab, buf) ==
        [FoldLeft(LAMBDA w, i : LinkBufctl(w, buf, slab, c.size, i - 1),
                  m, [i \in 1 .. Elements(c) |-> i])
           EXCEPT ![buf + c.size * (Elements(c) - 1) + NEXT] = NULL]
      grown(now, slab) ==
        IF slab = NULL \/ now.cpu # "running" THEN [st |-> now, ok |-> FALSE]
        ELSE [st |-> [now EXCEPT !.mem = threaded(@, slab, @[slab + FREELIST])], ok |-> TRUE]
      both(got) == grown(got.st, got.slab)
  IN  both(create_slab(st))

Become(st, c) ==
  /\ mem' = st.mem /\ free_pages' = st.free /\ pmm_lock' = st.lock
  /\ cpu' = st.cpu
  /\ cache' = [c EXCEPT !.nodes = st.nodes]
-----------------------------------------------------------------------------
AlignedSize(r) ==
  LET alignment == IF r[2] = 0 THEN 8 ELSE r[2]
  IN  ((r[1] + alignment - 1) \div alignment) * alignment

\* kmem_cache_create() and slab_create_cache(); what slab_cache_grow() returns
\* is not looked at.
kmem_cache_create(r) ==
  /\ cpu = "running" /\ cache = NoCache /\ made < MaxCaches
  /\ r[1] # 0
  /\ made' = made + 1
  /\ UNCHANGED <<held, frees>>
  /\ LET Grown(st, c) == Become(slab_cache_grow(st, c).st, c)
         Got(answer) ==
           IF answer.page = NULL THEN Become(answer.st, NoCache)
           ELSE Grown(answer.st, [page |-> answer.page, size |-> AlignedSize(r),
                                  object_size |-> PAGE_SIZE - CACHE_SIZE, nodes |-> NULL])
     IN  IF ~ SMALL_SLAB(AlignedSize(r))
         THEN Become([State EXCEPT !.cpu = "panic"], cache)
         ELSE Got(arch_alloc_page([State EXCEPT !.nodes = NULL]))

\* Mutant: the object is handed out and stays on the free list.
TakeFrom_Keep(m, slab) == [m EXCEPT ![slab + REFCOUNT] = @ + 1]

\* The first object of a slab's free list is taken off it.
TakeFrom(m, slab) ==
  [m EXCEPT ![slab + FREELIST] = m[m[slab + FREELIST] + NEXT],
            ![slab + REFCOUNT] = @ + 1]

\* The slabs of a list that have a free object.
Able(m, slabs) == SelectSeq(slabs, LAMBDA s : m[s + FREELIST] # NULL)

\* kmem_cache_alloc(), which calls itself after the cache has grown.
RECURSIVE Alloc(_, _)
Alloc(st, flags) ==
  LET failed(now) ==
        [st |-> [now EXCEPT !.cpu = IF @ = "running" /\ "KMEM_PANIC" \in flags THEN "panic" ELSE @],
         ptr |-> NULL]
      again(grown) == IF grown.ok THEN Alloc(grown.st, flags) ELSE failed(grown.st)
      taken(walk, able) ==
        IF able # <<>>
        THEN [st |-> [st EXCEPT !.mem = TakeFrom(st.mem, able[1])],
              ptr |-> st.mem[st.mem[able[1] + FREELIST] + PTR]]
        ELSE IF ~ walk.ends THEN [st |-> [st EXCEPT !.cpu = "stuck"], ptr |-> NULL]
        ELSE IF "KMEM_NO_GROW" \in flags THEN [st |-> st, ptr |-> NULL]
        ELSE again(slab_cache_grow(st, cache))
      search(walk) == taken(walk, Able(st.mem, walk.items))
  IN  IF st.nodes = NULL THEN failed(st) ELSE search(list_foreach(st.mem, st.nodes))

\* The client writes to the object it is handed.
Scribbled(st, ptr) ==
  [st EXCEPT !.mem = [a \in DOMAIN @ |->
                        IF ptr # NULL /\ a - ptr \in Scribbles /\ a - ptr < cache.size
                        THEN JUNK ELSE @[a]]]

kmem_cache_alloc(flags) ==
  /\ cpu = "running" /\ cache # NoCache
  /\ LET Got(st, ptr) ==
           /\ Become(Scribbled(st, ptr), cache)
           /\ held' = IF ptr = NULL THEN held ELSE held \cup {ptr}
         Both(answer) == Got(answer.st, answer.ptr)
     IN  Both(Alloc(State, flags))
  /\ UNCHANGED <<made, frees>>

\* An object put at the head of a slab's free list; only its link is written.
PutBack(m, slab, ptr) ==
  [[m EXCEPT ![slab + REFCOUNT] = @ - 1, ![ptr + NEXT] = m[slab + FREELIST]]
      EXCEPT ![slab + FREELIST] = ptr]

\* kmem_cache_free(): the object goes to the first slab that has a free
\* object, and nowhere if none has.
kmem_cache_free(ptr) ==
  /\ cpu = "running" /\ cache # NoCache
  /\ ptr \in held \cap DOMAIN mem /\ frees < MaxFrees
  /\ held' = held \ {ptr} /\ frees' = frees + 1
  /\ LET walk == list_foreach(mem, cache.nodes)
         able == Able(mem, walk.items)
     IN  /\ mem' = IF able = <<>> THEN mem ELSE PutBack(mem, able[1], ptr)
         /\ cpu' = IF able = <<>> /\ ~ walk.ends THEN "stuck" ELSE cpu
  /\ UNCHANGED <<free_pages, pmm_lock, cache, made>>

\* kmem_cache_destroy() panics at a slab that is still referenced.
MayDestroy(m, list) == \A i \in DOMAIN list : m[list[i] + REFCOUNT] = 0

\* What kmem_cache_destroy() passes to arch_free_page(): every bufctl on a free
\* list, then the cache's page.
Given(lists) ==
  Append(FoldLeft(LAMBDA all, l : all \o l.items, <<>>, lists), cache.page)

kmem_cache_destroy ==
  /\ cpu = "running" /\ cache # NoCache
  /\ LET walk  == list_foreach(mem, cache.nodes)
         lists == [i \in DOMAIN walk.items |->
                     list_foreach(mem, mem[walk.items[i] + FREELIST])]
         done  == FoldLeft(arch_free_page, State, Given(lists))
     IN  IF ~ MayDestroy(mem, walk.items)
         THEN Become([State EXCEPT !.cpu = "panic"], cache)
         ELSE IF ~ walk.ends \/ \E i \in DOMAIN lists : ~ lists[i].ends
         THEN Become([State EXCEPT !.cpu = "stuck"], cache)
         ELSE IF done.cpu # "running" THEN Become(done, cache)
         ELSE Become([done EXCEPT !.mem = <<>>, !.nodes = NULL], NoCache)
  /\ UNCHANGED <<held, made, frees>>

\* Nothing runs any more, or nobody creates another cache.
Halted ==
  /\ cpu # "running" \/ (cache = NoCache /\ made = MaxCaches)
  /\ UNCHANGED vars

Next ==
  \/ \E r \in Requests : kmem_cache_create(r)
  \/ \E flags \in FlagSets : kmem_cache_alloc(flags)
  \/ \E ptr \in held : kmem_cache_free(ptr)
  \/ kmem_cache_destroy
  \/ Halted

Spec == Init /\ [][Next]_vars
-----------------------------------------------------------------------------
Listed == ToSet(list_foreach(mem, cache.nodes).items)
FreeList(s) == list_foreach(mem, mem[s + FREELIST])
OnFreeLists == UNION {ToSet(FreeList(s).items) : s \in Listed}

TypeOK ==
  /\ free_pages \subseteq Pages
  /\ pmm_lock \in BOOLEAN
  /\ cpu \in {"running", "panic", "stuck"}
  /\ made \in 0 .. MaxCaches

\* Two objects that clients hold never overlap, and each lies in the page of a
\* slab in front of its descriptor: slab_cache_grow() cuts the page into
\* objects and kmem_cache_alloc() hands each to one client.
HeldObjectsApart ==
  cache # NoCache =>
    \A p \in held :
      /\ \E s \in Listed : s + SLAB_SIZE - PAGE_SIZE <= p /\ p + cache.size <= s
      /\ \A q \in held : p # q => p + cache.size <= q \/ q + cache.size <= p

\* An object that a client holds is not on a free list, so no call of
\* kmem_cache_alloc() hands it out again.
HeldNotFree == held \cap OnFreeLists = {}

\* A slab's reference count and its free list account for all its objects,
\* whatever order they were freed in, and the list has no cycle.
RefcountBalance ==
  \A s \in Listed : /\ FreeList(s).ends
                    /\ mem[s + REFCOUNT] + Len(FreeList(s).items) = Elements(cache)

\* kmem_cache_destroy() never gives the pages back while a client still holds
\* an object: it panics.
NoDestroyWhileHeld == cache # NoCache /\ cache' = NoCache => held = {}

\* As long as the cache does not grow, all pages are back with the page
\* allocator once the cache is destroyed, although arch_free_page() is called
\* for every object and not for every page.
DestroyReturnsPages ==
  cpu = "running" /\ cache = NoCache /\ ~ pmm_lock => free_pages = Pages
=============================================================================
