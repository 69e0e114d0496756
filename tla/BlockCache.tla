----------------------------- MODULE BlockCache -----------------------------
(* The read cache of drivers/block-cache.c.  Sectors of a read-only image   *)
(* are kept in pages, one per read that missed; a radix tree leads from a   *)
(* sector to its place in a page, and a page knows the links that lead to   *)
(* it (owners).  A timer prunes what has not been used for a while, a link  *)
(* at a time, and reaps the nodes left empty.                               *)
(*                                                                          *)
(* A node is <<h, i>>: height h, the i-th of that height; the link of       *)
(* <<h, i>> numbered j in that height is <<h, j>> with j \div Fan = i, and  *)
(* leads to the node <<h - 1, j>>, or, for h = 0, to a place for sector j.  *)
(* A link's time is kept as its age, now - link->time, and only as long as  *)
(* that is below IdleTime: a cleared link has time 0.  Time never runs back.*)
(* The driver is one thread: while it fills the cache or prunes it, a step  *)
(* at a time, nothing else happens.                                         *)
EXTENDS Integers, FiniteSets

CONSTANTS
    Fan,          \* RADIX_TREE_NODE_SIZE, the links of a node
    DiskSectors,  \* driver->info.size
    PageSectors,  \* BLOCK_CACHE_NODES_PER_PAGE
    MaxSize,      \* BLOCK_CACHE_MAX_SIZE, in sectors
    NodeSize,     \* sizeof(radix_tree_node_t), in sectors
    Pool,         \* BLOCK_CACHE_REQUESTS
    IdleTime      \* BLOCK_CACHE_PAGE_IDLETIME, in ticks

ASSUME CacheConstants ==
    /\ {Fan, DiskSectors, PageSectors, MaxSize, NodeSize, Pool, IdleTime} \subseteq Nat \ {0}
    /\ Fan > 1 /\ PageSectors <= Fan

VARIABLES
    nodes,    \* the nodes of the tree
    age,      \* the ages of the links that are not idle
    leaf,     \* for the sectors that are cached, the page and the offset in it
    page,     \* the pages: their sectors and the links that own them
    reqs,     \* the block_cache_requests in use, by slot
    run       \* how far the driver is in a function that takes several steps

cacheVars == <<nodes, age, leaf, page, reqs, run>>

(****************************** the shape of the tree *******************)
\* The i-th node or link of a height lies below the above[k][i]-th k heights up.
above[k \in Nat] ==
    IF k = 0 THEN [i \in Nat |-> i] ELSE [i \in Nat |-> above[k - 1][i] \div Fan]

ImageSectors == 0 .. DiskSectors - 1

\* radix_tree_calculate_height: at least 1
Fits(h) == \A s \in ImageSectors : above[h + 1][s] = 0
Height  == CHOOSE h \in 1 .. DiskSectors :
               Fits(h) /\ \A g \in 1 .. DiskSectors : Fits(g) => h <= g

Root       == <<Height, 0>>
NodeOf(l)  == <<l[1], l[2] \div Fan>>
Below(l)   == <<l[1] - 1, l[2]>>
LinkTo(n)  == <<n[1] + 1, n[2]>>
IsUnder(m, n) == m[1] <= n[1] /\ above[n[1] - m[1]][m[2]] = n[2]

\* radix_tree_index, at every height
LinkAt(h, s) == <<h, above[h][s]>>
Way(s)       == {LinkAt(h, s) : h \in 0 .. Height}

Nothing       == [x \in {} |-> x]
Without(f, S) == [x \in DOMAIN f \ S |-> f[x]]
Fresh(a, ls)  == [l \in DOMAIN a \cup ls |-> IF l \in ls THEN 0 ELSE a[l]]
Clear(a, ls)  == Without(a, ls)

(****************************** pages and leaves ************************)
PageAt(s)  == IF s \in DOMAIN leaf THEN {leaf[s].page} ELSE {}
Owned(ps)  == UNION {page[p].owners : p \in ps}
Owners(ps) == {<<0, s>> : s \in Owned(ps)}

\* tree->size is the sum of the sizes of the pages there are.
SectorsOf(f)      == {c \in (DOMAIN f) \X (1 .. PageSectors) : c[2] <= f[c[1]].secs}
radix_tree_size == Cardinality(SectorsOf(page)) + Cardinality(nodes) * NodeSize

\* mutant: the page is freed, the other links to it keep pointing there
remove_page_one(ps, a, ls) ==
    /\ page' = Without(page, ps)
    /\ leaf' = Without(leaf, {s \in Owned(ps) : <<0, s>> \in ls})
    /\ age'  = Clear(a, ls)

\* The pages ps are freed and the links ls cleared.
radix_tree_remove_page(ps, a, ls) ==
    /\ page' = Without(page, ps)
    /\ leaf' = Without(leaf, Owned(ps))
    /\ age'  = Clear(a, Owners(ps) \cup ls)

\* The page has an owners entry for each of its sectors: off is in the page.
radix_tree_insert_leaf(s, p, off, ps) ==
    /\ page' = [q \in DOMAIN page \ ps |->
                   IF q = p THEN [page[q] EXCEPT !.owners = @ \cup {s}] ELSE page[q]]
    /\ leaf' = [x \in (DOMAIN leaf \ Owned(ps)) \cup {s} |->
                   IF x = s THEN [page |-> p, off |-> off] ELSE leaf[x]]

(****************************** filling *********************************)
Rest == [op |-> "rest"]
Fill(slot, p, n) == [op |-> "fill", slot |-> slot, page |-> p, done |-> n]
FreshPages == {p \in 1 .. DiskSectors + 1 :
                  p \notin DOMAIN page /\ \A q \in 1 .. p - 1 : q \in DOMAIN page}

block_cache_put_request(i) == reqs' = Without(reqs, {i})

\* radix_tree_allocate_page
radix_tree_add_leaves(i) ==
    \E p \in FreshPages :
        /\ page' = [q \in DOMAIN page \cup {p} |->
                       IF q = p THEN [sec |-> reqs[i].sec, secs |-> reqs[i].secs, owners |-> {}]
                                ELSE page[q]]
        /\ run' = Fill(i, p, 0)
        /\ UNCHANGED reqs

\* What the walk to the next sector leaves when the node of a height cannot be
\* allocated: the page is given up with all that lead to it.
NextSector == page[run.page].sec + run.done
Filling    == run.op = "fill" /\ run.done < page[run.page].secs

add_leaves_fail ==
    /\ Filling
    /\ \E h \in {g \in 0 .. Height - 1 : NodeOf(LinkAt(g, NextSector)) \notin nodes} :
        LET made == {l \in Way(NextSector) : l[1] > h}
        IN  /\ nodes' = nodes \cup {NodeOf(l) : l \in made}
            /\ radix_tree_remove_page({run.page}, Fresh(age, made), {})
    /\ block_cache_put_request(run.slot)
    /\ run' = Rest

\* The next sector: a page that was there for it is removed, which clears the
\* link's time too.
radix_tree_add_leaf ==
    LET s == NextSector
    IN  /\ Filling
        /\ nodes' = nodes \cup {NodeOf(l) : l \in Way(s)}
        /\ age' = Clear(Fresh(age, Way(s)), Owners(PageAt(s)))
        /\ radix_tree_insert_leaf(s, run.page, run.done, PageAt(s))
        /\ run' = [run EXCEPT !.done = @ + 1]
        /\ UNCHANGED reqs

filled ==
    /\ run.op = "fill" /\ ~Filling
    /\ block_cache_put_request(run.slot)
    /\ run' = Rest
    /\ UNCHANGED <<nodes, age, leaf, page>>

(****************************** pruning ********************************)
\* radix_tree_delete_branch of node n, and the links ls are cleared.
radix_tree_delete_branch(n, ls) ==
    LET gone == {m \in nodes : IsUnder(m, n)}
        ps   == {leaf[s].page : s \in {x \in DOMAIN leaf : NodeOf(<<0, x>>) \in gone}}
    IN  /\ nodes' = nodes \ gone
        /\ radix_tree_remove_page(ps, age, {l \in DOMAIN age : NodeOf(l) \in gone} \cup ls)

\* radix_tree_prune_branch is in a node of height low, and in those above it: at
\* is the link it is at in each, kept the heights of those that are not empty,
\* over says that it has seen all the links of the lowest.
Prune(low, at, kept, over) ==
    [op |-> "prune", low |-> low, at |-> at, kept |-> kept, over |-> over]

\* The link it is at has been seen, and what is kept is kept.
IsLast(l) == (l[2] + 1) % Fan = 0
SeenLink(low, at, kept) ==
    IF IsLast(<<low, at[low]>>)
      THEN Prune(low, at, kept, TRUE)
      ELSE Prune(low, [at EXCEPT ![low] = @ + 1], kept, FALSE)

AtLink  == <<run.low, run.at[run.low]>>
Visits  == run.op = "prune" /\ ~run.over
IsYoung == AtLink \in DOMAIN age

block_cache_prune_event ==
    /\ run = Rest /\ nodes # {}
    /\ run' = Prune(Height, [h \in {Height} |-> 0], {}, FALSE)
    /\ UNCHANGED <<nodes, age, leaf, page, reqs>>

prune_keep ==
    /\ Visits /\ run.low = 0 /\ IsYoung
    /\ run' = SeenLink(run.low, run.at, run.kept \cup {0})
    /\ UNCHANGED <<nodes, age, leaf, page, reqs>>

prune_leaf ==
    /\ Visits /\ run.low = 0 /\ ~IsYoung
    /\ radix_tree_remove_page(PageAt(AtLink[2]), age, {AtLink})
    /\ run' = SeenLink(run.low, run.at, run.kept)
    /\ UNCHANGED <<nodes, reqs>>

prune_idle ==
    /\ Visits /\ run.low > 0 /\ ~IsYoung
    /\ radix_tree_delete_branch(Below(AtLink), {AtLink})
    /\ run' = SeenLink(run.low, run.at, run.kept)
    /\ UNCHANGED reqs

prune_down ==
    /\ Visits /\ run.low > 0 /\ IsYoung /\ Below(AtLink) \in nodes
    /\ LET low == run.low - 1
       IN  run' = Prune(low, [h \in low .. Height |->
                                 IF h = low THEN AtLink[2] * Fan ELSE run.at[h]],
                        run.kept \ {low}, FALSE)
    /\ UNCHANGED <<nodes, age, leaf, page, reqs>>

prune_none ==
    /\ Visits /\ run.low > 0 /\ IsYoung /\ Below(AtLink) \notin nodes
    /\ age' = Clear(age, {AtLink})
    /\ run' = SeenLink(run.low, run.at, run.kept)
    /\ UNCHANGED <<nodes, leaf, page, reqs>>

\* A node is left: an empty one is freed and the link to it cleared.
prune_up ==
    /\ run.op = "prune" /\ run.over /\ run.low < Height
    /\ LET h  == run.low + 1
           at == [g \in h .. Height |-> run.at[g]]
       IN  IF run.low \in run.kept
             THEN /\ run' = SeenLink(h, at, run.kept \cup {h})
                  /\ UNCHANGED <<nodes, age>>
             ELSE /\ nodes' = nodes \ {NodeOf(AtLink)}
                  /\ age' = Clear(age, {l \in DOMAIN age : NodeOf(l) = NodeOf(AtLink)}
                                       \cup {<<h, run.at[h]>>})
                  /\ run' = SeenLink(h, at, run.kept)
    /\ UNCHANGED <<leaf, page, reqs>>

\* The root stays.
pruned ==
    /\ run.op = "prune" /\ run.over /\ run.low = Height
    /\ run' = Rest
    /\ UNCHANGED <<nodes, age, leaf, page, reqs>>

(****************************** the driver *******************************)
block_cache_open ==
    /\ nodes = {}
    /\ nodes' = {Root}
    /\ UNCHANGED <<age, leaf, page, reqs, run>>

\* The vbd closes an image only when no request is under way.
block_cache_close ==
    /\ run = Rest /\ nodes # {} /\ DOMAIN reqs = {}
    /\ radix_tree_delete_branch(Root, {})
    /\ UNCHANGED <<reqs, run>>

\* Sectors are looked up until one is missing: the links to those looked up are
\* touched, as far as there are nodes.
Looked(sec, secs) == {s \in sec .. sec + secs - 1 : sec .. s - 1 \subseteq DOMAIN leaf}
Touched(sec, secs) ==
    Fresh(age, {l \in UNION {Way(s) : s \in Looked(sec, secs)} : NodeOf(l) \in nodes})

Cached(sec, secs) == sec .. sec + secs - 1 \subseteq DOMAIN leaf

block_cache_hit(sec, secs) ==
    /\ Cached(sec, secs)
    /\ age' = Touched(sec, secs)
    /\ UNCHANGED <<nodes, leaf, page, reqs, run>>

FreeSlots == {i \in 1 .. Pool : i \notin DOMAIN reqs /\ 1 .. i - 1 \subseteq DOMAIN reqs}
block_cache_get_request(sec, secs) ==
    \E i \in FreeSlots :
        reqs' = [j \in DOMAIN reqs \cup {i} |->
                    IF j = i THEN [sec |-> sec, secs |-> secs, left |-> secs, err |-> FALSE]
                             ELSE reqs[j]]

\* mutant: the size of the cache is not looked at
miss_unbounded(sec, secs) ==
    /\ ~Cached(sec, secs)
    /\ age' = Touched(sec, secs)
    /\ UNCHANGED reqs \/ block_cache_get_request(sec, secs)
    /\ UNCHANGED <<nodes, leaf, page, run>>

\* Forwarded as it is, or with a request and a buffer to fill the cache.
block_cache_miss(sec, secs) ==
    /\ ~Cached(sec, secs)
    /\ age' = Touched(sec, secs)
    /\ \/ UNCHANGED reqs
       \/ radix_tree_size + secs < MaxSize /\ block_cache_get_request(sec, secs)
    /\ UNCHANGED <<nodes, leaf, page, run>>

\* A read of more than a page is forwarded and changes nothing.
block_cache_queue_read ==
    \E sec \in ImageSectors, secs \in 1 .. PageSectors :
        /\ run = Rest /\ nodes # {} /\ sec + secs <= DiskSectors
        /\ block_cache_hit(sec, secs) \/ block_cache_miss(sec, secs)

\* n sectors of request i come back; the last ones fill the cache, unless one
\* failed or there is no memory for the page.
block_cache_populate_cache ==
    \E i \in DOMAIN reqs, n \in 1 .. PageSectors, bad \in BOOLEAN :
        LET err == reqs[i].err \/ bad
        IN  /\ run = Rest /\ n <= reqs[i].left
            /\ \/ /\ n < reqs[i].left
                  /\ reqs' = [reqs EXCEPT ![i].left = @ - n, ![i].err = err]
                  /\ UNCHANGED <<page, run>>
               \/ /\ n = reqs[i].left
                  /\ block_cache_put_request(i)
                  /\ UNCHANGED <<page, run>>
               \/ /\ n = reqs[i].left /\ ~err
                  /\ radix_tree_add_leaves(i)
            /\ UNCHANGED <<nodes, age, leaf>>

\* A second passes (external).
CacheTick ==
    /\ run = Rest /\ nodes # {}
    /\ age' = [l \in {m \in DOMAIN age : age[m] + 1 < IdleTime} |-> age[l] + 1]
    /\ UNCHANGED <<nodes, leaf, page, reqs, run>>

CacheInit ==
    /\ nodes = {} /\ age = Nothing /\ leaf = Nothing /\ page = Nothing /\ reqs = Nothing
    /\ run = Rest

CacheNext ==
    \/ block_cache_open \/ block_cache_close
    \/ block_cache_queue_read \/ block_cache_populate_cache
    \/ radix_tree_add_leaf \/ add_leaves_fail \/ filled
    \/ block_cache_prune_event
    \/ prune_keep \/ prune_leaf \/ prune_idle \/ prune_down \/ prune_none
    \/ prune_up \/ pruned
    \/ CacheTick

CacheSpec == CacheInit /\ [][CacheNext]_cacheVars

(****************************** properties *******************************)
\* How many sectors of a page have been given their links.
Filled(p) == IF run.op = "fill" /\ run.page = p THEN run.done ELSE page[p].secs

(* A link that leads to a page leads into a page that has not been freed,   *)
(* to the sector the link is for; the nodes on the way to it are there; and *)
(* a page is known by all the links of its sectors or it is not there: what *)
(* pruning, replacing and giving up free, nothing leads to any more         *)
(* (radix_tree_remove_page clears every owner before it frees the buffer),  *)
(* and no page is kept that nothing leads to, when the cache is closed      *)
(* least of all.                                                            *)
CacheSound ==
    /\ \A s \in DOMAIN leaf :
          /\ leaf[s].page \in DOMAIN page
          /\ page[leaf[s].page].sec + leaf[s].off = s
          /\ \A h \in 0 .. Height : NodeOf(LinkAt(h, s)) \in nodes
    /\ \A p \in DOMAIN page :
          /\ page[p].owners = page[p].sec .. page[p].sec + Filled(p) - 1
          /\ \A s \in page[p].owners : s \in DOMAIN leaf /\ leaf[s].page = p

\* A page lies below two nodes of a height at most.
PageNodes == 2 * Height * NodeSize
\* The requests whose pages are still to come.
Waiting == {i \in DOMAIN reqs : run.op = "fill" => i # run.slot}

(* Every node but the root hangs from a link of a node that is there, so    *)
(* that the size kept in the tree is that of what can be reached; and the   *)
(* memory in use, with that promised to the requests under way, is          *)
(* below BLOCK_CACHE_MAX_SIZE but for what the other requests of the pool   *)
(* may add: they all passed the test of block_cache_miss, which counts      *)
(* neither the requests under way nor the nodes to come.                    *)
CacheBounded ==
    /\ \A n \in nodes \ {Root} : NodeOf(LinkTo(n)) \in nodes
    /\ radix_tree_size + Cardinality({c \in SectorsOf(reqs) : c[1] \in Waiting})
         + Cardinality(Waiting) * PageNodes
       < MaxSize + (Pool - 1) * PageSectors + Pool * PageNodes

CacheKept == CacheSound /\ CacheBounded
=============================================================================
