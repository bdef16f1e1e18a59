------------------------------ MODULE Listings ------------------------------
(* Paged listings: a client asks for one page after another, each with the  *)
(* token of the page before, while others write between two pages.          *)
(* Firestore lists documents (present, or present and missing) and          *)
(* collection ids, Pub/Sub the names of a project or of a topic and the     *)
(* revisions of a schema, Storage the objects under a prefix, and           *)
(* Authentication the accounts of a project or tenant.                      *)
(*                                                                          *)
(* A name is a sequence of numbers, ordered like the resource names it      *)
(* stands for.  An item has a value: for a document the field the listing   *)
(* is ordered by (0 when the document lacks it), for a subscription or      *)
(* snapshot the generation of its topic (0 when it is detached).            *)
EXTENDS Integers, Sequences, FiniteSets, SequencesExt

CONSTANTS Universe,     \* the names an item of each kind of listing can have
          Stores,       \* the items there are when a walk of each kind begins
          Values,       \* the values an item can be given
          Requests,     \* the requests for each kind of listing
          DefaultSize,  \* the page size when none is asked for
          LargestSize,  \* the largest page size served
          MaxChanges    \* bound on the writes between pages

VARIABLES kind,     \* what is listed
          request,  \* the request, the same for every page
          store,    \* the items that exist: name to value
          origin,   \* the items when the walk began
          token,    \* the token for the next page, <<>> for the first
          listed,   \* the names listed so far
          walk,     \* "walking", "done", "refused" or "failed"
          place,    \* the token's value when it was issued
          stable,   \* the listed items no write has touched since the walk began
          gone,     \* a page was asked for with a token whose item had moved
          changes

vars == <<kind, request, store, origin, token, listed, walk, place, stable, gone, changes>>

Kinds == DOMAIN Universe

-----------------------------------------------------------------------------
(* Firestore: documents.  A listed document is its key and its value, -1    *)
(* for a document that is missing but has documents below it.               *)

Sign(n) == IF n > 0 THEN 1 ELSE IF n < 0 THEN -1 ELSE 0

Smaller(a, b) == IF a < b THEN a ELSE b

\* Names by the first place where they differ, and a prefix before the rest.
CompareAt(a, b, differing) ==
  IF differing = {} THEN Sign(Len(a) - Len(b))
  ELSE LET first == CHOOSE i \in differing : \A j \in differing : i <= j IN Sign(a[first] - b[first])
Compare(a, b) == CompareAt(a, b, {i \in 1..Smaller(Len(a), Len(b)) : a[i] # b[i]})

Sorted(S) == SetToSortSeq(S, LAMBDA a, b : Compare(a, b) = -1)

Ascending == <<[path |-> "key", direction |-> 1]>>

parse_list_order(clauses) ==
  IF \E i \in DOMAIN clauses : clauses[i].path = "key"
  THEN clauses
  ELSE clauses \o <<[path |-> "key",
                     direction |-> IF clauses = <<>> THEN 1 ELSE Last(clauses).direction]>>

list_order_exists(order, document) == order.path = "key" \/ document.value > 0

Directed(n, direction) == IF n = 9 THEN 9 ELSE n * direction

\* Comparing by a field that one of the two lacks is a panic, written 9.
CompareBy(l, r, order) ==
  IF order.path = "key" THEN Compare(l.key, r.key)
  ELSE IF l.value < 1 \/ r.value < 1 THEN 9
  ELSE Sign(l.value - r.value)
compare_list_documents(l, r, orders) ==
  LET by(found, order) == IF found # 0 THEN found ELSE Directed(CompareBy(l, r, order), order.direction)
  IN FoldLeft(by, 0, orders)

direct_child_matches(path, parent, collection) ==
  /\ Len(path) = Len(parent) + 2
  /\ IsPrefix(parent, path)
  /\ collection = 0 \/ path[Len(parent) + 1] = collection

\* The direct child a deeper document makes appear, as a set of at most one.
missing_direct_child(path, parent, collection) ==
  IF /\ Len(path) > Len(parent) + 2
     /\ IsPrefix(parent, path)
     /\ collection = 0 \/ path[Len(parent) + 1] = collection
  THEN {SubSeq(path, 1, Len(parent) + 2)}
  ELSE {}

normalize_page_size(n) ==
  IF n <= 0 THEN DefaultSize ELSE IF n > LargestSize THEN LargestSize ELSE n

Page(items, next) == [items |-> items, next |-> next, failed |-> FALSE]
Failed == [items |-> <<>>, next |-> <<>>, failed |-> TRUE]

\* The documents up to the page size, and the last one's name when there are more.
PageOf(keys, size) ==
  IF Len(keys) > size THEN Page(SubSeq(keys, 1, size), keys[size]) ELSE Page(keys, <<>>)
FirestorePage(documents, size) == PageOf([i \in DOMAIN documents |-> documents[i].key], size)

\* What follows the token's document.
AfterToken(documents, at) ==
  IF token = <<>> THEN documents ELSE IF at = 0 THEN <<>> ELSE SubSeq(documents, at + 1, Len(documents))
PageAfter(documents, size) ==
  FirestorePage(AfterToken(documents, SelectInSeq(documents, LAMBDA d : d.key = token)), size)

InOrder(documents, orders) ==
  SetToSortSeq({d \in documents : \A i \in DOMAIN orders : list_order_exists(orders[i], d)},
               LAMBDA a, b : compare_list_documents(a, b, orders) = -1)

\* The documents there are, and those missing with documents below them.
DirectChildren(s, r) ==
  LET here == {p \in DOMAIN s : direct_child_matches(p, r.parent, r.collection)}
      implied == UNION {missing_direct_child(p, r.parent, r.collection) : p \in DOMAIN s}
  IN {[key |-> p, value |-> s[p]] : p \in here} \cup {[key |-> p, value |-> -1] : p \in implied \ here}

collect_list_documents(s, r) ==
  PageAfter(InOrder(DirectChildren(s, r), parse_list_order(r.orders)), normalize_page_size(r.size))

\* The scan: a candidate past the token is inserted where it belongs, the
\* last of more than a page and one is dropped, and a scan in the order of
\* the listing stops there.
Bounded(found, size) == IF Len(found) > size + 1 THEN Front(found) ELSE found
Insert(found, d, orders, size) ==
  Bounded(InsertAt(found,
                   Cardinality({i \in DOMAIN found : compare_list_documents(found[i], d, orders) = -1}) + 1,
                   d), size)
ScanOne(found, d, compared, r, orders, size) ==
  IF \/ ~direct_child_matches(d.key, r.parent, r.collection)
     \/ \E i \in DOMAIN orders : ~list_order_exists(orders[i], d)
     \/ r.collection # 0 /\ orders = Ascending /\ Len(found) > size
     \/ found = <<Failed>>
  THEN found
  ELSE CASE compared = 9 -> <<Failed>>
         [] compared = 1 -> Insert(found, d, orders, size)
         [] OTHER -> found
ScannedPage(found, size) == IF found = <<Failed>> THEN Failed ELSE FirestorePage(found, size)
ScanFrom(s, r, orders, size, from) ==
  LET compared(d) == IF token = <<>> THEN 1 ELSE compare_list_documents(d, from, orders)
      scan(found, p) ==
        LET d == [key |-> p, value |-> s[p]] IN ScanOne(found, d, compared(d), r, orders, size)
  IN ScannedPage(FoldLeft(scan, <<>>, Sorted(DOMAIN s)), size)
collect_present_list_documents(s, r) ==
  IF token # <<>> /\ token \notin DOMAIN s THEN Page(<<>>, <<>>)
  ELSE ScanFrom(s, r, parse_list_order(r.orders), normalize_page_size(r.size),
                [key |-> token, value |-> IF token = <<>> THEN -1 ELSE s[token]])

list_documents_refused(r) ==
  \/ r.missing /\ r.orders # <<>>
  \/ r.collection = 0 /\ parse_list_order(r.orders) # Ascending

list_documents(s, r) ==
  IF r.missing THEN collect_list_documents(s, r) ELSE collect_present_list_documents(s, r)

CollectionIds(s, parent, depth) ==
  {<<p[depth + 1]>> : p \in {q \in DOMAIN s : Len(q) >= depth + 2 /\ IsPrefix(parent, q)}}
list_collection_ids(s, r) ==
  PageOf(Sorted({i \in CollectionIds(s, r.parent, Len(r.parent)) : token = <<>> \/ Compare(i, token) = 1}),
         normalize_page_size(r.size))

-----------------------------------------------------------------------------
(* Pub/Sub: the token is the first name of the next page, and a token that  *)
(* names nothing starts over.                                               *)

AtOrFirst(at) == IF at = 0 THEN 1 ELSE at

PageFrom(names, start, end) ==
  Page(SubSeq(names, start, end), IF end < Len(names) THEN names[end + 1] ELSE <<>>)
StartAt(names, size, start) ==
  PageFrom(names, start, IF size > 0 THEN Smaller(start + size - 1, Len(names)) ELSE Len(names))
paginate(names, size, t) == StartAt(names, size, AtOrFirst(SelectInSeq(names, LAMBDA n : n = t)))

\* The names of a project.
list_topics(s, r) == paginate(Sorted({n \in DOMAIN s : n[1] = r.project}), r.size, token)
list_subscriptions(s, r) == list_topics(s, r)
list_snapshots(s, r) == list_topics(s, r)
list_schemas(s, r) == list_topics(s, r)

\* The names attached to a topic, of whatever project, by its generation.
list_topic_subscriptions(s, r) ==
  paginate(Sorted({n \in DOMAIN s : s[n] # 0 /\ s[n] = r.generation}), r.size, token)
list_topic_snapshots(s, r) == list_topic_subscriptions(s, r)

\* A revision is named by the time it was created, and they are in that order.
list_schema_revisions(s, r) == paginate(Sorted(DOMAIN s), r.size, token)

-----------------------------------------------------------------------------
(* Storage: an object whose name has the delimiter (0) past the prefix is   *)
(* listed as the prefix it falls under, on every page.                      *)

item_prefix(name, r) ==
  LET past == {i \in DOMAIN name : r.delimiter /\ i > Len(r.prefix) /\ name[i] = 0}
  IN IF past = {} THEN <<>> ELSE SubSeq(name, 1, CHOOSE i \in past : \A j \in past : i <= j)

PageOfObjects(started, size) ==
  IF Len(started) > size THEN Page(SubSeq(started, 1, size), started[size + 1]) ELSE Page(started, <<>>)
ObjectsFrom(items, size) ==
  PageOfObjects(SubSeq(items, AtOrFirst(SelectInSeq(items, LAMBDA n : n = token)), Len(items)), size)
list_objects(s, r) ==
  ObjectsFrom(Sorted({n \in DOMAIN s : IsPrefix(r.prefix, n) /\ item_prefix(n, r) = <<>>}), r.size)

-----------------------------------------------------------------------------
(* Authentication: the token is the last local id of the page, and a page   *)
(* that is full has one even when it is the last.                           *)

UsersPast(s, r) == Sorted({n \in DOMAIN s : n[1] = r.scope /\ (token = <<>> \/ Compare(n, token) = 1)})
query_users(s, r) ==
  IF r.descending THEN Reverse(UsersPast(s, r)) ELSE UsersPast(s, r)

MaxResults(n) == IF n = 0 THEN DefaultSize ELSE Smaller(n, LargestSize)
PageOfUsers(users, page, max_results) ==
  IF max_results >= 0 /\ Len(users) >= max_results
  THEN Page(page, IF page = <<>> THEN <<>> ELSE Last(page))
  ELSE Page(users, <<>>)
UpTo(users, max_results) == PageOfUsers(users, SubSeq(users, 1, max_results), max_results)
batch_get(s, r) == UpTo(query_users(s, r), MaxResults(r.size))

query_accounts(s, r) == Page(query_users(s, r), <<>>)

-----------------------------------------------------------------------------
(* The walk.                                                                *)

ProjectListing(s, r) ==
  CASE r.of = "topics" -> list_topics(s, r)
    [] r.of = "subscriptions" -> list_subscriptions(s, r)
    [] r.of = "snapshots" -> list_snapshots(s, r)
    [] r.of = "schemas" -> list_schemas(s, r)
TopicListing(s, r) ==
  CASE r.of = "subscriptions" -> list_topic_subscriptions(s, r)
    [] r.of = "snapshots" -> list_topic_snapshots(s, r)

Listing(s, r) ==
  CASE kind = "documents" -> list_documents(s, r)
    [] kind = "collections" -> list_collection_ids(s, r)
    [] kind = "project" -> ProjectListing(s, r)
    [] kind = "topic" -> TopicListing(s, r)
    [] kind = "revisions" -> list_schema_revisions(s, r)
    [] kind = "objects" -> list_objects(s, r)
    [] kind = "accounts" -> batch_get(s, r)
    [] kind = "query" -> query_accounts(s, r)

\* What a listing of a store is of, as its request reads.
Members(s, r) ==
  CASE kind = "documents" ->
         {p \in DOMAIN s \cup (IF r.missing THEN {SubSeq(q, 1, Len(r.parent) + 2) :
                                 q \in {d \in DOMAIN s : Len(d) > Len(r.parent) + 2}}
                               ELSE {}) :
            /\ IsPrefix(r.parent, p) /\ Len(p) = Len(r.parent) + 2
            /\ r.collection \in {0, p[Len(p) - 1]}
            /\ (\E i \in DOMAIN r.orders : r.orders[i].path = "field") => s[p] > 0}
    [] kind = "collections" ->
         {<<i>> : i \in {p[Len(r.parent) + 1] : p \in {q \in DOMAIN s : IsStrictPrefix(r.parent, q)}}}
    [] kind = "project" -> {n \in DOMAIN s : n[1] = r.project}
    [] kind = "topic" -> {n \in DOMAIN s : s[n] = r.generation}
    [] kind = "revisions" -> DOMAIN s
    [] kind = "objects" ->
         {n \in DOMAIN s : IsPrefix(r.prefix, n)
                           /\ (r.delimiter => 0 \notin Range(SubSeq(n, Len(r.prefix) + 1, Len(n))))}
    [] OTHER -> {n \in DOMAIN s : n[1] = r.scope}

\* The value an item is listed by, where it is listed by one.
Place(s, n) ==
  IF kind = "documents" /\ n \in DOMAIN s /\ request.orders # <<>> THEN s[n] ELSE 0

Init ==
  /\ kind \in Kinds
  /\ request \in Requests[kind]
  /\ store \in Stores[kind]
  /\ origin = store
  /\ token = <<>> /\ listed = <<>> /\ place = 0 /\ gone = FALSE /\ changes = 0
  /\ walk = IF kind = "documents" /\ list_documents_refused(request) THEN "refused" ELSE "walking"
  /\ stable = IF walk = "refused" THEN {} ELSE Members(store, request)

\* A page at a read time, or in a transaction, reads what the walk began with.
Read == IF kind \in {"documents", "collections"} /\ request.fixed THEN origin ELSE store

\* These listings find their place again by the item the token names.
ByItem == kind \notin {"collections", "accounts", "query"}

GiveItems(page) ==
  /\ listed' = listed \o page.items
  /\ token' = page.next
  /\ walk' = IF page.failed THEN "failed" ELSE IF page.next = <<>> THEN "done" ELSE "walking"
  /\ place' = IF page.next = <<>> THEN 0 ELSE Place(Read, page.next)
Moved(read) ==
  /\ ByItem /\ token # <<>>
  /\ token \notin Members(read, request) \/ Place(read, token) # place
NextPage ==
  /\ walk = "walking"
  /\ \E page \in {Listing(Read, request)} : GiveItems(page)
  /\ gone' = (gone \/ Moved(Read))
  /\ UNCHANGED <<kind, request, store, origin, stable, changes>>

\* Another client writes or deletes an item.  A revision is created later
\* than the others, and the last one cannot be deleted.
Write ==
  /\ walk = "walking" /\ changes < MaxChanges
  /\ \E n \in Universe[kind] :
       \/ \E v \in IF kind \in {"documents", "topic"} THEN Values ELSE {1} :
            /\ n \in DOMAIN store => store[n] # v
            /\ kind = "revisions" => \A m \in DOMAIN store : Compare(m, n) = -1
            /\ store' = [m \in DOMAIN store \cup {n} |-> IF m = n THEN v ELSE store[m]]
       \/ /\ n \in DOMAIN store
          /\ kind = "revisions" => Cardinality(DOMAIN store) > 1
          /\ store' = [m \in DOMAIN store \ {n} |-> store[m]]
  /\ changes' = changes + 1
  /\ stable' = IF Read = origin /\ kind \in {"documents", "collections"} /\ request.fixed THEN stable
               ELSE {n \in stable \cap Members(store', request) : Place(store', n) = Place(store, n)}
  /\ UNCHANGED <<kind, request, origin, token, listed, walk, place, gone>>

Next == NextPage \/ Write

Spec == Init /\ [][Next]_vars

-----------------------------------------------------------------------------
(* What listings promise.                                                   *)

\* Whether one item belongs before another in the order asked for.
Before(a, b) ==
  LET orders == IF kind = "documents" THEN request.orders ELSE <<>>
      byField == orders # <<>> /\ orders[1].path = "field"
      down == \/ orders # <<>> /\ orders[1].direction = -1
              \/ kind = "query" /\ request.descending
  IN IF byField /\ Read[a] # Read[b]
     THEN IF down THEN Read[a] > Read[b] ELSE Read[a] < Read[b]
     ELSE Compare(a, b) = IF down THEN 1 ELSE -1

\* A walk to the last page lists every item that was there, untouched, all
\* along exactly once and in order, whatever else was written between two
\* pages: list_documents, list_collection_ids, paginate, list_objects and
\* batch_get.  Excepted is a walk one of whose tokens named an item that had
\* gone or moved when the next page was asked for, where the listing finds
\* its place by that item: Firestore then ends the listing or panics, and
\* Pub/Sub and Storage start it over.  A listing of collection ids or of
\* accounts compares with its token, and one at a read time reads one
\* snapshot: these have no exception.
PagesExact ==
  /\ walk = "failed" => gone
  /\ walk = "done" /\ ~gone =>
       SelectSeq(listed, LAMBDA n : n \in stable) = SetToSortSeq(stable, Before)

=============================================================================
