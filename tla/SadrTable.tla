------------------------------ MODULE SadrTable ------------------------------
(***************************************************************************)
(* The routing table of sadr/table.go: routes from (source, destination)   *)
(* prefixes to values, in a path-compressed binary trie of destinations    *)
(* whose nodes hold their sources in order, longest first.                 *)
(*                                                                         *)
(* An address is a sequence of Width bits, one family.  A prefix is [addr, *)
(* len]; the bits of addr past len do not count, and a source is masked    *)
(* before it is stored.  A node is a record and nil is <<>>: published     *)
(* nodes are never changed, so a root is a value and a reader's snapshot   *)
(* is the root it loaded.                                                  *)
(***************************************************************************)
EXTENDS Integers, Sequences, FiniteSets, FiniteSetsExt

CONSTANTS
    Width,           \* bits of an address; 128 in the code
    Sources,         \* source prefixes to set, AnySource among them
    Destinations,    \* destination prefixes to set, masked or not
    Values,
    IndexThreshold,
    None,            \* no value
    MaxRoutes        \* bound

SadrAssumption == Width \in Nat \ {0} /\ IndexThreshold \in Nat \ {0}

VARIABLES
    root,    \* the published root
    routes   \* for the properties: the routes asked for, [src, dst, value]

vars == <<root, routes>>

Addresses == [1..Width -> {0, 1}]
AnySource == [addr |-> <<>>, len |-> -1]
nil == <<>>

Masked(p) == [addr |-> [i \in 1..Width |-> IF i <= p.len THEN p.addr[i] ELSE 0], len |-> p.len]
Contains(p, a) == \A i \in 1..p.len : p.addr[i] = a[i]

\* The bit after the first n.
branch(a, n) == a[n + 1] + 1

commonBits(a, b) ==
    LET differ == {i \in 1..Width : a[i] # b[i]}
    IN IF differ = {} THEN Width ELSE Min(differ) - 1

newTrieNode(a, len, srcs) == [addr |-> a, len |-> len, srcs |-> srcs, child |-> <<nil, nil>>]

\* Mutant: a node that lost its routes is dropped with the child it still has.
compactAll(n) == IF n.srcs = <<>> /\ (n.child[1] = nil \/ n.child[2] = nil) THEN nil ELSE n

\* A node without routes and with one child or none is no node.
compact(n) ==
    IF n.srcs = <<>> /\ n.child[1] = nil THEN n.child[2]
    ELSE IF n.srcs = <<>> /\ n.child[2] = nil THEN n.child[1]
    ELSE n

\* Set's change to the sources of a node: the value is replaced, or the entry
\* inserted before the first whose source is no longer.
SetEntry(srcs, src, value) ==
    LET at == {i \in DOMAIN srcs : srcs[i].src = src}
        no_longer == {i \in DOMAIN srcs : srcs[i].src.len <= src.len}
        k == IF no_longer = {} THEN Len(srcs) + 1 ELSE Min(no_longer)
        entry == [src |-> src, value |-> value]
    IN IF at # {} THEN [srcs EXCEPT ![Min(at)] = entry]
       ELSE SubSeq(srcs, 1, k - 1) \o <<entry>> \o SubSeq(srcs, k, Len(srcs))

RemoveEntry(srcs, src) == SelectSeq(srcs, LAMBDA e : e.src # src)

\* The function edit is given: value is the one to set, or None to remove.
change(srcs, src, value) ==
    IF value = None THEN RemoveEntry(srcs, src) ELSE SetEntry(srcs, src, value)

\* edit: a new path to the destination, with change applied to its sources.
RECURSIVE edit(_, _, _, _)
edit(n, dst, src, value) ==
    LET fresh == change(<<>>, src, value)
    IN IF n = nil
       THEN IF fresh = <<>> THEN nil ELSE newTrieNode(dst.addr, dst.len, fresh)
       ELSE LET common == Min({commonBits(n.addr, dst.addr), n.len, dst.len})
                parent == [newTrieNode(dst.addr, common, <<>>)
                               EXCEPT !.child[branch(n.addr, common)] = n]
                bit == branch(dst.addr, n.len)
            IN IF common < n.len
               THEN IF fresh = <<>> THEN n
                    ELSE IF common = dst.len THEN [parent EXCEPT !.srcs = fresh]
                    ELSE [parent EXCEPT !.child[branch(dst.addr, common)] =
                                            newTrieNode(dst.addr, dst.len, fresh)]
               ELSE IF n.len = dst.len
               THEN compact([n EXCEPT !.srcs = change(@, src, value)])
               ELSE compact([n EXCEPT !.child[bit] = edit(@, dst, src, value)])

Without(src, dst) == {r \in routes : r.src # src \/ r.dst # Masked(dst)}

Set(src, dst, value) ==
    /\ root' = edit(root, dst, src, value)
    /\ routes' = Without(src, dst) \cup {[src |-> src, dst |-> Masked(dst), value |-> value]}

Remove(src, dst) ==
    /\ root' = edit(root, dst, src, None)
    /\ routes' = Without(src, dst)

RECURSIVE removeValue(_, _)
removeValue(n, value) ==
    IF n = nil THEN nil
    ELSE compact([n EXCEPT !.srcs = SelectSeq(@, LAMBDA e : e.value # value),
                           !.child = <<removeValue(@[1], value), removeValue(@[2], value)>>])

RemoveValue(value) ==
    /\ root' = removeValue(root, value)
    /\ routes' = {r \in routes : r.value # value}

----------------------------------------------------------------------------
(* Lookup. *)

\* index: whether the sources are looked up by length or walked.
Indexed(srcs) ==
    LET specific == {i \in DOMAIN srcs : srcs[i].src # AnySource}
        lengths == {srcs[i].src.len : i \in specific}
    IN lengths # {} /\ Cardinality(specific) >= Cardinality(lengths) * IndexThreshold

\* indexSrcs and the probe of byLen, longest first: the values found, at most one.
ByLength(srcs, a) ==
    LET lengths == {srcs[i].src.len : i \in DOMAIN srcs} \ {-1}
        found(len) == {srcs[i].value : i \in {i \in DOMAIN srcs :
                            srcs[i].src = Masked([addr |-> a, len |-> len])}}
        answering == {len \in lengths : found(len) # {}}
    IN IF answering = {} THEN {} ELSE found(Max(answering))

\* The walk: the first source that contains the address.
Scan(srcs, a) ==
    LET matching == {i \in DOMAIN srcs : srcs[i].src # AnySource /\ Contains(srcs[i].src, a)}
    IN IF matching = {} THEN {} ELSE {srcs[Min(matching)].value}

matchAllSource(srcs) == {srcs[i].value : i \in {i \in DOMAIN srcs : srcs[i].src = AnySource}}

\* What a node answers for a source.
At(srcs, a) ==
    LET matched == IF Indexed(srcs) THEN ByLength(srcs, a) ELSE Scan(srcs, a)
    IN IF matched # {} THEN matched ELSE matchAllSource(srcs)

\* Lookup below n, with what the nodes above answered.
RECURSIVE Descend(_, _, _, _)
Descend(n, src, dst, result) ==
    IF n = nil THEN result
    ELSE IF ~Contains(n, dst) THEN result
    ELSE LET here == IF At(n.srcs, src) # {} THEN At(n.srcs, src) ELSE result
         IN IF n.len = Width THEN here
            ELSE Descend(n.child[branch(dst, n.len)], src, dst, here)

Lookup(src, dst) == Descend(root, src, dst, {})

RECURSIVE walk(_)
walk(n) ==
    IF n = nil THEN {}
    ELSE {[src |-> n.srcs[i].src, dst |-> Masked([addr |-> n.addr, len |-> n.len]),
           value |-> n.srcs[i].value] : i \in DOMAIN n.srcs}
         \cup walk(n.child[1]) \cup walk(n.child[2])

\* All.
All == walk(root)

Init == root = nil /\ routes = {}

Next ==
    \/ \E s \in Sources, d \in Destinations, v \in Values :
        Cardinality(routes) < MaxRoutes /\ Set(s, d, v)
    \/ \E s \in Sources, d \in Destinations : Remove(s, d)
    \/ \E v \in Values : RemoveValue(v)

Spec == Init /\ [][Next]_vars

----------------------------------------------------------------------------
\* The trie holds exactly the routes it was asked to: every Set, Remove and
\* RemoveValue changes the one pair of prefixes, or the one value, it should,
\* wherever nodes have to be split, joined or reordered for it (edit, compact,
\* removeValue, All).
HoldsTheRoutes == All = routes

\* The route a packet should take: among those that match it, the longest
\* destination, and of these the longest source.
Best(src, dst) ==
    LET matching == {r \in routes : Contains(r.dst, dst) /\ Contains(r.src, src)}
    IN {r.value : r \in {r \in matching : \A q \in matching :
            q.dst.len < r.dst.len \/ (q.dst.len = r.dst.len /\ q.src.len <= r.src.len)}}

\* Lookup answers that, for every pair of addresses and whether a node's sources are
\* indexed or walked: a destination without a matching source falls back to a
\* shorter one that has one.
LookupIsBest == \A s, d \in Addresses : Lookup(s, d) = Best(s, d)
=============================================================================
