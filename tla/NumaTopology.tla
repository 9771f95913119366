---------------------------- MODULE NumaTopology ----------------------------
(***************************************************************************)
(* Guest CPUs pinned to host CPUs, and guest memory put on NUMA cells: the *)
(* fitting of nova/virt/hardware.py (_pack_instance_onto_cores,            *)
(* _numa_fit_instance_cell, numa_fit_instance_to_host), the usage it adds  *)
(* and takes away (numa_usage_from_instances), and the claims, aborts,     *)
(* deletes and audits of nova/compute/resource_tracker.py that call them.  *)
(*                                                                         *)
(* The fitting writes into the cells it is handed: what one try leaves in  *)
(* them is there in the next try, on the next host after a reschedule too, *)
(* for the instance keeps the topology it was fitted with.                 *)
(*                                                                         *)
(* A build and a delete of one instance never overlap here; where they do  *)
(* is ResourceTracker's subject.                                           *)
(***************************************************************************)
EXTENDS Integers, Sequences, FiniteSetsExt, Functions

CONSTANTS
    NumaHosts, NoNumaHost,
    HostCells,   \* each host's cells: CPUs, siblings, memory, pages by size
    NumaGuests,
    Asked,       \* each instance's cells: CPUs, memory, page size
    Dedicated,   \* the instances that ask for their CPUs to be pinned
    Ratio,       \* the allocation ratio, of the limits the scheduler set
    NumaMishaps  \* bound: builds that fail

FiniteNumbers(S) == S \in SUBSET Nat /\ IsFiniteSet(S)
\* What a driver reports: the threads of a core are of no other core, and there
\* are memory pages of one size at least.
IsHostCell(cell) ==
    /\ FiniteNumbers(cell.cpus) /\ cell.memory \in Nat
    /\ FiniteNumbers(DOMAIN cell.pages) /\ DOMAIN cell.pages # {} /\ 0 \notin DOMAIN cell.pages
    /\ \A s \in DOMAIN cell.pages : cell.pages[s] \in Nat
    /\ cell.siblings \in Seq(SUBSET Nat)
    /\ \A n \in DOMAIN cell.siblings : FiniteNumbers(cell.siblings[n])
    /\ \A m, n \in DOMAIN cell.siblings :
          m # n => cell.siblings[m] \cap cell.siblings[n] = {}
IsGuestCell(cell) ==
    FiniteNumbers(cell.cpus) /\ cell.memory \in Nat /\ cell.pagesize \in Int

ASSUME NumaAssumption ==
    /\ NoNumaHost \notin NumaHosts /\ Dedicated \subseteq NumaGuests
    /\ IsFiniteSet(NumaGuests) /\ Ratio \in Nat \ {0} /\ NumaMishaps \in Nat
    /\ \A h \in NumaHosts : /\ Len(HostCells[h]) \in Nat
                           /\ DOMAIN HostCells[h] = 1..Len(HostCells[h])
                           /\ \A c \in DOMAIN HostCells[h] : IsHostCell(HostCells[h][c])
    /\ \A i \in NumaGuests : /\ Len(Asked[i]) \in Nat
                            /\ DOMAIN Asked[i] = 1..Len(Asked[i])
                            /\ \A k \in DOMAIN Asked[i] : IsGuestCell(Asked[i][k])

VARIABLES
    building,   \* each instance: where its build or delete stands
    onHost,     \* its host, in the database
    topology,   \* its numa_topology, in the database
    tried,      \* the hosts that were tried, in the retry information
    tracks,     \* tracked_instances of each host's tracker
    cellUse,    \* numa_topology of its compute node: usage of each cell
    cutShort,   \* the hosts an audit of which was cut short: to state what is not
                \* promised of them
    numaTroubles \* counts what NumaMishaps bounds

numa == <<building, onHost, topology, tried, tracks, cellUse, cutShort, numaTroubles>>

SmallPages == -1
LargePages == -2
AnyPages == -3

\* The elements of S in an order, given as its pairs, and numbers in theirs.
Sorted(S, order) == [n \in 1..Cardinality(S) |->
    CHOOSE x \in S : Cardinality({y \in S : <<y, x>> \in order}) = n - 1]
Order(S) == Sorted(S, {p \in S \X S : p[1] < p[2]})
Freed(h) == [c \in DOMAIN HostCells[h] |->
                [memory |-> 0, cpus |-> 0, pinned |-> {},
                 used |-> [s \in DOMAIN HostCells[h][c].pages |-> 0]]]
\* numa_get_constraints and _add_cpu_pinning_constraint: no cell is placed yet.
Requested(i) == [k \in DOMAIN Asked[i] |->
    [id |-> 0, cpus |-> Asked[i][k].cpus, memory |-> Asked[i][k].memory,
     pagesize |-> Asked[i][k].pagesize, pin |-> <<>>, threads |-> 0]]

NumaInit ==
    /\ building = [i \in NumaGuests |-> "asked"]
    /\ onHost = [i \in NumaGuests |-> NoNumaHost]
    /\ topology = [i \in NumaGuests |-> Requested(i)]
    /\ tried = [i \in NumaGuests |-> {}]
    /\ tracks = [h \in NumaHosts |-> {}]
    /\ cellUse = [h \in NumaHosts |-> Freed(h)] /\ cutShort = {} /\ numaTroubles = 0
-----------------------------------------------------------------------------
FreeCpus(h, c, use) == HostCells[h][c].cpus \ use[c].pinned

\* InstanceNUMACell.siblings: there are some once cpu_topology was set.
HasSiblings(g) == g.threads > 1 /\ Cardinality(g.cpus) >= g.threads

\* _pack_instance_onto_cores: as many threads of each core as can be used, the
\* guest's CPUs in order on the CPUs of the cores in order.
CoresFor(free, t) == Order({n \in DOMAIN free : Cardinality(free[n]) >= t})
CanPack(g, t, cores) ==
    /\ t * Len(cores) >= Cardinality(g.cpus)
    /\ IF HasSiblings(g) THEN g.threads <= t ELSE Cardinality(g.cpus) % t = 0
Packings(g, free) ==
    {t \in 1..Max({0} \cup {Cardinality(free[n]) : n \in DOMAIN free}) :
        CanPack(g, t, CoresFor(free, t))}
HostCpu(free, t, n) ==
    Order(free[CoresFor(free, t)[(n - 1) \div t + 1]])[((n - 1) % t) + 1]
Pack(g, free, id) ==
    LET t == Max(Packings(g, free))
        guest == Order(g.cpus)
        pins == IF HasSiblings(g) THEN g.threads * (Len(guest) \div g.threads)
                                  ELSE Len(guest)
        new == [v \in {guest[n] : n \in 1..pins} |->
                   HostCpu(free, t, CHOOSE n \in 1..pins : guest[n] = v)]
    IN [g EXCEPT !.id = id, !.threads = IF @ = 0 THEN t ELSE @,
                 !.pin = [v \in DOMAIN new \cup DOMAIN @ |->
                             IF v \in DOMAIN new THEN new[v] ELSE @[v]]]

\* _numa_fit_instance_cell_with_pinning: the cores it may be packed onto.
CoresToTry(h, c, use, g) ==
    LET siblings == HostCells[h][c].siblings
        free == [n \in DOMAIN siblings |-> siblings[n] \cap FreeCpus(h, c, use)]
        most == Max({Cardinality(free[n]) : n \in DOMAIN free})
        largest == free[Max({n \in DOMAIN free : Cardinality(free[n]) = most})]
    IN IF siblings = <<>> THEN <<FreeCpus(h, c, use)>>
       ELSE IF ~HasSiblings(g) /\ Cardinality(g.cpus) <= most THEN <<largest>>
       ELSE free

\* _numa_cell_supports_pagesize_request: the sizes in question that fit.  It
\* raises at a size the cell does not have.
PagesFor(h, c, use, g) ==
    LET pages == HostCells[h][c].pages
        sizes == DOMAIN pages
        wanted == CASE g.pagesize = SmallPages -> {Min(sizes)}
                    [] g.pagesize = LargePages -> sizes \ {Min(sizes)}
                    [] g.pagesize = AnyPages -> sizes
                    [] OTHER -> {g.pagesize} \cap sizes
    IN {s \in wanted : /\ g.memory <= (pages[s] - use[c].used[s]) * s
                       /\ g.memory % s = 0}

NoSuchPages(h, c, g) ==
    g.pagesize \notin {0, SmallPages, LargePages, AnyPages} \cup DOMAIN HostCells[h][c].pages

\* _numa_fit_instance_cell: whether the cell fits, and what became of it.
FitCell(h, c, use, g, pinned) ==
    LET cell == HostCells[h][c]
        n == Cardinality(g.cpus)
        tooLarge == g.memory > cell.memory \/ n > Cardinality(cell.cpus)
        short == \/ Cardinality(FreeCpus(h, c, use)) < n
                 \/ cell.memory - use[c].memory < g.memory
        full == \/ use[c].memory + g.memory > cell.memory * Ratio
                \/ use[c].cpus + n > Cardinality(cell.cpus) * Ratio
        cores == CoresToTry(h, c, use, g)
        no == [fits |-> FALSE, raises |-> FALSE, cell |-> g]
        placed == IF pinned THEN Pack(g, cores, c) ELSE g
        sizes == PagesFor(h, c, use, g)
    IN IF tooLarge \/ (pinned /\ (short \/ Packings(g, cores) = {})) \/ (~pinned /\ full)
       THEN no
       ELSE IF g.pagesize # 0 /\ sizes = {}
            THEN [fits |-> FALSE, raises |-> NoSuchPages(h, c, g), cell |-> placed]
       ELSE [fits |-> TRUE, raises |-> FALSE,
             cell |-> [placed EXCEPT !.id = c,
                          !.pagesize = IF g.pagesize = 0 THEN 0 ELSE Max(sizes)]]

\* numa_fit_instance_to_host: the cells in order on each permutation of the
\* host's, in order, up to the first that takes them all or raises.
CellOrders(h, m) ==
    {p \in [1..m -> DOMAIN HostCells[h]] : IsInjective(p)}
Before(p, q) ==
    \E n \in DOMAIN p : p[n] < q[n] /\ \A k \in 1..(n - 1) : p[k] = q[k]
FitOn(h, use, pinned, cells, p) ==
    LET one(k) == FitCell(h, p[k], use, cells[k], pinned)
        reached(k) == \A j \in 1..(k - 1) : one(j).fits
    IN [fits |-> \A k \in DOMAIN p : one(k).fits,
        raises |-> \E k \in DOMAIN p : reached(k) /\ one(k).raises,
        cells |-> [k \in DOMAIN cells |-> IF reached(k) THEN one(k).cell ELSE cells[k]]]
Fit(h, use, pinned, cells) ==
    LET orders == CellOrders(h, Len(cells))
        perms == Sorted(orders, {pq \in orders \X orders : Before(pq[1], pq[2])})
        after[n \in 0..Cardinality(orders)] ==
            IF n = 0 THEN [fits |-> FALSE, raises |-> FALSE, cells |-> cells]
            ELSE IF after[n - 1].fits \/ after[n - 1].raises THEN after[n - 1]
            ELSE FitOn(h, use, pinned, after[n - 1].cells, perms[n])
    IN IF Len(cells) > Len(HostCells[h]) THEN [fits |-> FALSE, raises |-> FALSE, cells |-> cells]
       ELSE after[Cardinality(orders)]

\* What an instance's cells take of a host's cell c.
Pins(cell) == {cell.pin[v] : v \in DOMAIN cell.pin}
Share(h, cells, c) ==
    LET mine == {k \in DOMAIN cells : cells[k].id = c}
        g == cells[CHOOSE k \in mine : TRUE]
    IN [memory |-> IF mine = {} THEN 0 ELSE g.memory,
        cpus |-> IF mine = {} THEN 0 ELSE Cardinality(g.cpus),
        pinned |-> IF mine = {} THEN {} ELSE Pins(g),
        used |-> [s \in DOMAIN HostCells[h][c].pages |->
                     IF mine = {} \/ s # g.pagesize THEN 0 ELSE g.memory \div s]]
\* numa_usage_from_instances, for one instance.  It raises where CPUs to pin are
\* pinned (not in a claim, that takes free ones), or CPUs to free are not.
CanFree(h, i) ==
    \A c \in DOMAIN HostCells[h] : Share(h, topology[i], c).pinned \subseteq cellUse[h][c].pinned
NoLess(n) == IF n < 0 THEN 0 ELSE n
Used(h, use, cells, sign) ==
    [c \in DOMAIN HostCells[h] |->
        LET share == Share(h, cells, c)
        IN [memory |-> NoLess(use[c].memory + sign * share.memory),
            cpus |-> NoLess(use[c].cpus + sign * share.cpus),
            pinned |-> IF sign = 1 THEN use[c].pinned \cup share.pinned
                                   ELSE use[c].pinned \ share.pinned,
            used |-> [s \in DOMAIN share.used |->
                         NoLess(use[c].used[s] + sign * share.used[s])]]]
-----------------------------------------------------------------------------
\* instance_claim, with the tracker's lock.  A claim that fails changed only
\* its own copy, and the build is tried on another host.
NumaClaim(i, h) ==
    LET fit == Fit(h, cellUse[h], i \in Dedicated, topology[i])
    IN /\ building[i] = "asked" /\ h \notin tried[i]
       /\ tried' = [tried EXCEPT ![i] = @ \cup {h}] /\ UNCHANGED <<cutShort, numaTroubles>>
       /\ IF ~fit.fits THEN UNCHANGED <<building, onHost, topology, tracks, cellUse>>
          ELSE /\ building' = [building EXCEPT ![i] = "claimed"]
               /\ onHost' = [onHost EXCEPT ![i] = h]
               /\ topology' = [topology EXCEPT ![i] = fit.cells]
               /\ tracks' = [tracks EXCEPT ![h] = @ \cup {i}]
               /\ cellUse' = IF i \in tracks[h] THEN cellUse
                             ELSE [cellUse EXCEPT ![h] = Used(h, @, fit.cells, 1)]

GuestBuilt(i) ==
    /\ building[i] = "claimed" /\ building' = [building EXCEPT ![i] = "running"]
    /\ UNCHANGED <<onHost, topology, tried, tracks, cellUse, cutShort, numaTroubles>>

\* abort_instance_claim: the claim's clone has the cells the fitting wrote to.
\* The build that failed was cleaned up, or could not be and is not tried again,
\* unless the abort raises: that guest stays, on CPUs that are free for others.
NumaAbort(i) ==
    LET h == onHost[i]
    IN /\ building[i] = "claimed"
       /\ numaTroubles < NumaMishaps /\ numaTroubles' = numaTroubles + 1
       /\ \/ building' = [building EXCEPT ![i] = "aborted"]
          \/ building' = [building EXCEPT ![i] = "unclean"] /\ CanFree(h, i)
       /\ tracks' = [tracks EXCEPT ![h] = @ \ {i}]
       /\ cellUse' = IF CanFree(h, i)
                     THEN [cellUse EXCEPT ![h] = Used(h, @, topology[i], -1)] ELSE cellUse
       /\ UNCHANGED <<onHost, topology, tried, cutShort>>
\* The host is taken off the row, the topology is not.
NumaReschedule(i) ==
    /\ building[i] \in {"aborted", "unclean"}
    /\ building' = [building EXCEPT ![i] = IF @ = "aborted" THEN "asked" ELSE "gone"]
    /\ onHost' = [onHost EXCEPT ![i] = NoNumaHost]
    /\ UNCHANGED <<topology, tried, tracks, cellUse, cutShort, numaTroubles>>

\* _delete_instance: the guest is gone and the row says so, then update_usage
\* takes off what the tracker has, and the row goes; where that raises, it goes
\* when the service starts again.
NumaDelete(i) ==
    /\ building[i] = "running" /\ building' = [building EXCEPT ![i] = "deleted"]
    /\ UNCHANGED <<onHost, topology, tried, tracks, cellUse, cutShort, numaTroubles>>
RowGoes(i) ==
    /\ building' = [building EXCEPT ![i] = "gone"]
    /\ onHost' = [onHost EXCEPT ![i] = NoNumaHost]
    /\ topology' = [topology EXCEPT ![i] = Requested(i)]
    /\ tried' = [tried EXCEPT ![i] = {}]
\* Mutant of NumaUpdateUsage: an instance that an audit dropped is taken off again.
NumaUpdateUsageTwice(i) ==
    LET h == onHost[i]
    IN /\ building[i] = "deleted" /\ RowGoes(i) /\ UNCHANGED <<cutShort, numaTroubles>>
       /\ tracks' = [tracks EXCEPT ![h] = @ \ {i}]
       /\ cellUse' = [cellUse EXCEPT ![h] = Used(h, @, topology[i], -1)]
NumaUpdateUsage(i) ==
    LET h == onHost[i]
        tracked == i \in tracks[h]
        raises == tracked /\ ~CanFree(h, i)
    IN /\ building[i] = "deleted" /\ UNCHANGED <<cutShort, numaTroubles>>
       /\ tracks' = [tracks EXCEPT ![h] = @ \ {i}]
       /\ cellUse' = IF tracked /\ ~raises
                     THEN [cellUse EXCEPT ![h] = Used(h, @, topology[i], -1)] ELSE cellUse
       /\ \/ raises /\ UNCHANGED <<building, onHost, topology, tried>>
          \/ ~raises /\ RowGoes(i)

\* update_available_resource: the usage is counted anew from the rows.
Counted(h) == {i \in NumaGuests : onHost[i] = h /\ building[i] # "deleted"}
Total(f) == MapThenSumSet(LAMBDA x : f[x], DOMAIN f)
CountAnew(h, S) ==
    [c \in DOMAIN HostCells[h] |->
        LET share(i) == Share(h, topology[i], c)
        IN [memory |-> Total([i \in S |-> share(i).memory]),
            cpus |-> Total([i \in S |-> share(i).cpus]),
            pinned |-> UNION {share(i).pinned : i \in S},
            used |-> [s \in DOMAIN HostCells[h][c].pages |->
                         Total([i \in S |-> share(i).used[s]])]]]
\* Where two rows name the same CPUs (one of them of a build that was aborted and
\* not taken off the host yet), the audit raises at the second, which is tracked
\* then and not counted; the rows that come after it are neither.
Apart(h, S) ==
    \A i, j \in S : \A c \in DOMAIN HostCells[h] :
        i # j => Share(h, topology[i], c).pinned \cap Share(h, topology[j], c).pinned = {}
NumaAudit(h) ==
    /\ \E S, T \in SUBSET Counted(h) :
          /\ tracks' = [tracks EXCEPT ![h] = T]
          /\ cellUse' = [cellUse EXCEPT ![h] = CountAnew(h, S)]
          /\ \/ Apart(h, Counted(h)) /\ S = Counted(h) /\ T = S /\ UNCHANGED cutShort
             \/ /\ Apart(h, S) /\ \E i \in T \ S : T = S \cup {i} /\ ~Apart(h, T)
                /\ cutShort' = cutShort \cup {h}
    /\ UNCHANGED <<building, onHost, topology, tried, numaTroubles>>
-----------------------------------------------------------------------------
NumaNext ==
    \/ \E i \in NumaGuests :
          \/ \E h \in NumaHosts : NumaClaim(i, h)
          \/ GuestBuilt(i) \/ NumaAbort(i) \/ NumaReschedule(i)
          \/ NumaDelete(i) \/ NumaUpdateUsage(i)
    \/ \E h \in NumaHosts : NumaAudit(h)
NumaSpec == NumaInit /\ [][NumaNext]_numa
-----------------------------------------------------------------------------
\* The guests of a host that hold a CPU or a page of cell c.
Holds(i, h) == onHost[i] = h /\ building[i] \in {"claimed", "running"}
CellOf(i, c) == {k \in DOMAIN topology[i] : topology[i][k].id = c}
\* Every CPU of a pinned guest has a host CPU of its cell for itself alone, and
\* memory and pages of a cell are not promised twice: in every order of claims,
\* aborts, deletes and audits, and when the fitting starts from what another
\* permutation of the cells, or another host, left in the topology.  Excepted are
\* a guest that a failed clean-up left behind, and a host an audit of which was
\* cut short: the CPUs of the guests it did not count are given to others.
PinnedApart ==
    \A h \in NumaHosts \ cutShort : \A c \in DOMAIN HostCells[h] :
        LET here == {g \in NumaGuests \X (1..Len(HostCells[h])) :
                        Holds(g[1], h) /\ g[2] \in CellOf(g[1], c)}
            cell(g) == topology[g[1]][g[2]]
            pinned == {g \in here : g[1] \in Dedicated}
            pages(g, s) == IF cell(g).pagesize = s THEN cell(g).memory \div s ELSE 0
        IN /\ Total([g \in here |-> cell(g).memory]) <= HostCells[h][c].memory * Ratio
           /\ \A g \in pinned : /\ DOMAIN cell(g).pin = cell(g).cpus
                                /\ IsInjective(cell(g).pin)
                                /\ Pins(cell(g)) \subseteq HostCells[h][c].cpus
           /\ \A g, f \in pinned : g # f => Pins(cell(g)) \cap Pins(cell(f)) = {}
           /\ \A s \in DOMAIN HostCells[h][c].pages :
                 Total([g \in here |-> pages(g, s)]) <= HostCells[h][c].pages[s]
=============================================================================
