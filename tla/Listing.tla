------------------------------ MODULE Listing ------------------------------
(***************************************************************************)
(* Reading a database page by page: ls, ls --all, find, search and query   *)
(* (internal/command/navigate.go, search.go and query.go over              *)
(* internal/couch/database.go, search.go and query.go).  A page ends with  *)
(* a hint of how to get the next one, which the operator follows; ls --all *)
(* follows it itself.  Other clients write meanwhile, or delete the        *)
(* database.                                                               *)
(*                                                                         *)
(* A document has the key that the view emits for it, and that the         *)
(* selector and the sort of find and the rank of search go by.  The ids    *)
(* are numbers and so are the keys.  The hint names no other flag of the   *)
(* command; the operator is taken to repeat those that say what is listed, *)
(* and not the limit.                                                      *)
(***************************************************************************)
EXTENDS Naturals, Sequences, FiniteSets

CONSTANTS
  Ids, Keys,
  Limits,      \* the limits that are given; 0 is none
  PageSize,    \* that of ls --all
  ServerLimit, \* that of the server for find and search without one
  MaxPages,    \* bound: pages the operator asks for
  MaxWrites    \* bound: writes by other clients

ASSUME ListingAssumption ==
  /\ IsFiniteSet(Ids) /\ Ids \subseteq Nat \ {0} /\ Keys \subseteq Nat \ {0}
  /\ Limits \subseteq Nat /\ PageSize \in Nat \ {0} /\ ServerLimit \in Nat \ {0}

VARIABLES
  rows,     \* rows[i]: the key of document i, or 0 if there is none
  dropped,  \* the database was deleted
  cmd,      \* what is listed: "ls", "all", "find", "search", "query" or "group"
  hint,     \* the row the next page is to start at or after, or NoRow
  listing,  \* "paging", "end", "cut" short without a hint, "failed", or "left"
  shown,    \* the rows that were shown
  bounds,   \* the keys the hints of query named
  still,    \* the documents nobody wrote to since the listing began
  pages, writes

listVars == <<rows, dropped, cmd, hint, listing, shown, bounds, still, pages, writes>>

NoRow == [key |-> 0, id |-> 0]
Commands == {"ls", "all", "find", "search", "query", "group"}
Bookmarked == cmd \in {"find", "search"}

ListInit ==
  /\ rows \in [Ids -> Keys \cup {0}] /\ dropped = FALSE
  /\ cmd \in Commands /\ hint = NoRow /\ listing = "paging"
  /\ shown = <<>> /\ bounds = {} /\ still = {i \in Ids : rows[i] # 0}
  /\ pages = 0 /\ writes = 0

-----------------------------------------------------------------------------
(* Other clients.                                                          *)

Put(i, k) ==
  /\ ~dropped /\ writes < MaxWrites /\ listing = "paging" /\ rows[i] # k
  /\ rows' = [rows EXCEPT ![i] = k]
  /\ still' = still \ {i}
  /\ writes' = writes + 1
  /\ UNCHANGED <<dropped, cmd, hint, listing, shown, bounds, pages>>

Drop ==
  /\ ~dropped /\ writes < MaxWrites /\ dropped' = TRUE /\ writes' = writes + 1
  /\ UNCHANGED <<rows, cmd, hint, listing, shown, bounds, still, pages>>

-----------------------------------------------------------------------------
(* The server's answer.                                                    *)

Row(k, i) == [key |-> k, id |-> i]
Live == {Row(rows[i], i) : i \in {i \in Ids : rows[i] # 0}}

(* A reduced view has a row for a key, and no ids. *)
Groups == {Row(r.key, 0) : r \in Live}

ByKey(r, s)  == r.key < s.key \/ (r.key = s.key /\ r.id < s.id)
Before(r, s) == IF cmd \in {"ls", "all"} THEN r.id < s.id ELSE ByKey(r, s)
Sorted(rs) ==
  CHOOSE s \in [1..Cardinality(rs) -> rs] : \A m, n \in DOMAIN s : m < n => Before(s[m], s[n])

(* _all_docs from an id on, an index past a bookmark, a view from a key on. *)
FromHint(r) == hint = NoRow \/ r.id >= hint.id
Begins(r) ==
  CASE cmd \in {"ls", "all"} -> FromHint(r)
    [] Bookmarked            -> hint = NoRow \/ ByKey(hint, r)
    [] OTHER                 -> r.key >= hint.key

Answer == Sorted({r \in IF cmd = "group" THEN Groups ELSE Live : Begins(r)})

Upto(s, n) == SubSeq(s, 1, IF n = 0 \/ n > Len(s) THEN Len(s) ELSE n)

-----------------------------------------------------------------------------
(* The commands.                                                           *)

(* AllDocs and Query ask for a row more than the page has: where the next page
   starts.  Find and search have only a full page to go by, and the server's
   bookmark. *)
NextLast(s, n) == IF n > 0 /\ Len(s) > n THEN s[n] ELSE NoRow     \* mutant
NextOf(s, n)   == IF n > 0 /\ Len(s) > n THEN s[n + 1] ELSE NoRow
Bookmark(s, n) == IF n > 0 /\ Len(s) >= n THEN s[n] ELSE NoRow

(* The hint of query gives the key alone, and only if the row has an id. *)
Hinted(s, n) ==
  CASE Bookmarked            -> Bookmark(s, n)
    [] cmd \in {"ls", "all"} -> NextOf(s, n)
    [] OTHER -> IF NextOf(s, n).id = 0 THEN NoRow ELSE NextOf(s, n)

(* The rows of a page.  A limit of 0 is not sent; find and search have the
   server's then. *)
Served(n) == Upto(Answer, IF Bookmarked /\ n = 0 THEN ServerLimit ELSE n)

Page(n) ==
  /\ listing = "paging" /\ ~dropped /\ pages < MaxPages
  /\ cmd = "all" => n = PageSize
  /\ pages' = pages + 1
  /\ shown' = shown \o Served(n)
  /\ hint' = Hinted(Answer, n)
  /\ listing' = IF hint' # NoRow THEN "paging"
                ELSE IF Len(Served(n)) < Len(Answer) THEN "cut" ELSE "end"
  /\ bounds' = IF cmd = "query" THEN bounds \cup {hint'.key} ELSE bounds
  /\ UNCHANGED <<rows, dropped, cmd, still, writes>>

Refused ==
  /\ listing = "paging" /\ dropped /\ listing' = "failed"
  /\ UNCHANGED <<rows, dropped, cmd, hint, shown, bounds, still, pages, writes>>

Leave ==
  /\ listing = "paging" /\ listing' = "left"
  /\ UNCHANGED <<rows, dropped, cmd, hint, shown, bounds, still, pages, writes>>

ListNext ==
  \/ \E i \in Ids, k \in Keys \cup {0} : Put(i, k)
  \/ Drop \/ Refused \/ Leave
  \/ \E n \in Limits \cup {PageSize} : Page(n)

-----------------------------------------------------------------------------
(* What must hold.                                                         *)

(* A listing that ends has shown every document that was there from its first
   page to its last, whatever came, went or moved in between and wherever the
   pages were cut; and none is listed twice by id, though others write to it,
   nor by key one that nobody wrote to (AllDocs, AllDocsStream, Find, Search, Query).
   The hint of a view has no id, so that a page starts with the first row of its
   key again. *)
ListedOnce ==
  /\ listing = "end" =>
       \A i \in still : \E n \in DOMAIN shown :
         IF cmd = "group" THEN shown[n].key = rows[i] ELSE shown[n].id = i
  /\ \A m, n \in DOMAIN shown :
       m < n =>
         \/ shown[m] # shown[n] /\ (cmd \in {"ls", "all"} => shown[m].id < shown[n].id)
         \/ cmd \in {"find", "search", "query"} /\ shown[m].id \notin still
         \/ cmd = "query" /\ shown[m].key \in bounds
=============================================================================
