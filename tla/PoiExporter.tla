------------------------------ MODULE PoiExporter ------------------------------
(***************************************************************************)
(* The export of the station table to Elasticsearch (PoiIndexExecutor,     *)
(* with the index operations of ElasticSearchClient).  Each POST to        *)
(* /data/index prepares the index and starts a thread that reads the table *)
(* page by page; all of them share one page counter, which is never reset. *)
(*                                                                         *)
(* A request to Elasticsearch may fail, applied or not, and so may the     *)
(* database.  Documents are left out: getIndexRequest throws for each.     *)
(***************************************************************************)
EXTENDS Integers

CONSTANTS Starts,       \* requests to start an export
          Pages,        \* pages of the table with rows
          MaxFaults     \* bound of the model: failures in all

ASSUME PagesAssumption == Pages \in Nat /\ MaxFaults \in Nat

VARIABLE exp

peVars == <<exp>>

\* Faulty variant, the counter of RedshiftIndexExecutor.
FirstPageOne == 1

\* pageNum before it is incremented for the first page.
FirstPage == 0

PeInit ==
  \E exists \in BOOLEAN :
    exp = [exists |-> exists,                   \* the index geo_location
           pageNum |-> FirstPage,
           at |-> [s \in Starts |-> "idle"],
           page |-> [s \in Starts |-> 0],       \* as the thread has read it
           \* observed: how often each page was read, the pages read in part or
           \* not at all, the exports that ran beside another, and those whose
           \* request let an export begin: it kept the index or lost the mapping
           read |-> [p \in 1..Pages |-> 0], failed |-> {}, beside |-> {},
           excused |-> {}, faults |-> 0]

Exporting == {"connect", "increment", "query"}

Faulty(e) == [e EXCEPT !.faults = @ + 1]

Goes(e, s, to) == [e EXCEPT !.at[s] = to]
-------------------------------------------------------------------------------
\* start, in the thread of the request.

Start(s) ==
  /\ exp.at[s] = "idle"
  /\ exp' = Goes(exp, s, "clear")

\* deleteIndex: whatever happens is logged, and start goes on.
Clear(s) ==
  /\ exp.at[s] = "clear"
  /\ \/ exp' = Goes([exp EXCEPT !.exists = FALSE], s, "mapping")
     \/ /\ exp.faults < MaxFaults
        /\ exp' = Goes(Faulty([exp EXCEPT !.excused = IF exp.exists THEN @ \cup {s} ELSE @]),
                        s, "mapping")

\* createIndexMapping: without an index the client throws past its handler, and
\* start ends; a lost request is logged only.
CreateIndexMapping(s) ==
  /\ exp.at[s] = "mapping"
  /\ \/ exp' = Goes(exp, s, IF exp.exists THEN "create" ELSE "skipped")
     \/ /\ exp.faults < MaxFaults
        /\ exp' = Goes(Faulty([exp EXCEPT !.excused = IF exp.exists THEN @ ELSE @ \cup {s}]),
                        s, "create")

\* createIndex logs every failure; then the export's thread starts.
CreateIndex(s) ==
  /\ exp.at[s] = "create"
  /\ \/ exp' = Goes([exp EXCEPT !.exists = TRUE], s, "connect")
     \/ exp.faults < MaxFaults /\ exp' = Goes(Faulty(exp), s, "connect")
-------------------------------------------------------------------------------
\* getDataFromDataBase, in the thread of the export.

\* Without a connection the list is empty, which is taken for the table's end.
Connect(s) ==
  /\ exp.at[s] = "connect"
  /\ \/ exp' = [Goes(exp, s, "increment") EXCEPT
                 !.page[s] = exp.pageNum,
                 !.beside = IF \E t \in Starts \ {s} : exp.at[t] \in Exporting
                            THEN @ \cup {s} ELSE @]
     \/ exp.faults < MaxFaults /\ exp' = Goes(Faulty(exp), s, "gave up")

\* ++pageNum is a read and a write.
Increment(s) ==
  /\ exp.at[s] = "increment"
  /\ exp' = [Goes(exp, s, "query") EXCEPT !.pageNum = exp.page[s] + 1,
                                          !.page[s] = @ + 1]

\* The offset is computed from the counter, which the thread reads again or
\* remembers.  An error leaves the rows there are: with some of them the page
\* is done, with none the table is.
Query(s) ==
  /\ exp.at[s] = "query"
  /\ \E p \in {exp.page[s], exp.pageNum} :
       \/ exp' = IF p \in 1..Pages THEN [Goes(exp, s, "connect") EXCEPT !.read[p] = @ + 1]
                 ELSE Goes(exp, s, "finished")
       \/ /\ exp.faults < MaxFaults
          /\ \E to \in {"connect", "gave up"} :
               exp' = Faulty([Goes(exp, s, to) EXCEPT !.failed = @ \cup {p}])

PeNext ==
  \E s \in Starts :
    \/ Start(s) \/ Clear(s) \/ CreateIndexMapping(s) \/ CreateIndex(s)
    \/ Connect(s) \/ Increment(s) \/ Query(s)

PeSpec == PeInit /\ [][PeNext]_peVars
-------------------------------------------------------------------------------
PeTypeOK ==
  /\ exp.exists \in BOOLEAN /\ exp.pageNum \in Nat
  /\ exp.at \in [Starts -> Exporting \cup {"idle", "clear", "mapping", "create", "skipped",
                                           "gave up", "finished"}]
  /\ exp.page \in [Starts -> Nat] /\ exp.read \in [1..Pages -> Nat]
  /\ exp.failed \subseteq Nat /\ exp.beside \subseteq Starts /\ exp.excused \subseteq Starts
  /\ exp.faults \in 0..MaxFaults

\* However many exports follow each other, no page is read twice and a thread
\* that comes to the table's end leaves no page out but those whose query
\* failed, unless two threads ran at once over the counter.  And an export does
\* not begin over an index that was cleared: createIndexMapping comes before
\* createIndex (PoiIndexExecutor.java:49-51), so that it takes a deletion or a
\* mapping whose request failed.
ExportsTable ==
  /\ exp.beside = {} =>
       /\ \A p \in 1..Pages : exp.read[p] <= 1
       /\ \A s \in Starts : exp.at[s] = "finished" =>
            \A p \in 1..Pages : exp.read[p] = 1 \/ p \in exp.failed
  /\ (\E s \in Starts : exp.at[s] \in Exporting) => exp.excused # {}
===============================================================================
