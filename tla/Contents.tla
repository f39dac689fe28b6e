------------------------------ MODULE Contents ------------------------------
(***************************************************************************)
(* The text of one site (sonotxt-api/src/routes/sites.rs, crawler.rs): its *)
(* rows in content and their history in content_versions.  A crawl changes *)
(* the text and then records it, an edit records it and then changes it;   *)
(* each statement is a transaction of its own.                             *)
(***************************************************************************)
EXTENDS Requests, FiniteSets

CONSTANTS Pages,       \* ids of content rows
          Texts        \* what a crawl finds or an edit sends

ASSUME ContentsAssumption == /\ Pages \subseteq Nat
                             /\ Nothing \notin Pages \cup Texts
                             /\ IsFiniteSet(Handlers)

VARIABLES text,        \* content.text_content, Nothing without a row
          saved,       \* the texts in the content_versions of a row
          newest,      \* the text of the newest of them
          crossed,     \* rows that two requests changed at once (history)
          unsaved      \* rows whose change was dropped half way (history)

contents == <<text, saved, newest, crossed, unsaved>>
contentVars == <<requests, contents>>

\* The site has been created and not been crawled.
ContentInit == /\ text = [p \in Pages |-> Nothing]
               /\ saved = [p \in Pages |-> {}]
               /\ newest = [p \in Pages |-> Nothing]
               /\ crossed = {} /\ unsaved = {}

Rows == {p \in Pages : text[p] # Nothing}

\* A change of row p to text t; a crawl knows its row only after the SELECT.
Change(p, t) == [page |-> p, text |-> t]
Changes == [page : Pages \cup {Nothing}, text : Texts]
Page(h) == local[h].page
Text(h) == local[h].text

ContentLocations == {"find_content", "insert_content", "update_content",
                     "save_version", "edit_version", "edit_content"}

\* Requests between the two statements that change row p.
Changing(p) == {h \in Handlers : pc[h] \in {"save_version", "edit_content"} /\ Page(h) = p}
-----------------------------------------------------------------------------
\* trigger_crawl: SELECT the site, then crawl_site, which may find nothing.
BeginCrawl(h, t) == Begin(h, "find_content", Change(Nothing, t)) /\ UNCHANGED contents

\* SELECT id FROM content WHERE site_id: any of the rows, if there are several.
FindContent(h) == /\ At(h, "find_content")
                  /\ \/ \E p \in Rows : Keep(h, "update_content", Change(p, Text(h)))
                     \/ Rows = {} /\ Goto(h, "insert_content")
                  /\ UNCHANGED contents

\* The row gets its text; the version is still to come.
SetText(h, p) == /\ text' = [text EXCEPT ![p] = Text(h)]
                 /\ crossed' = crossed \cup {q \in {p} : Changing(p) # {}}
                 /\ Keep(h, "save_version", Change(p, Text(h)))
                 /\ UNCHANGED <<saved, newest, unsaved>>

UpdateContent(h) == At(h, "update_content") /\ SetText(h, Page(h))

\* A serial id.
InsertContent(h, p) == /\ At(h, "insert_content")
                       /\ p \notin Rows /\ \A q \in Pages : q < p => q \in Rows
                       /\ SetText(h, p)

Record(h) == /\ saved' = [saved EXCEPT ![Page(h)] = @ \cup {Text(h)}]
             /\ newest' = [newest EXCEPT ![Page(h)] = Text(h)]

\* The crawl ends with sites.last_crawled_at, which only the list of sites reads.
SaveVersion(h) == /\ At(h, "save_version")
                  /\ Record(h)
                  /\ End(h)
                  /\ UNCHANGED <<text, crossed, unsaved>>

\* update_content is given the id of a row that exists, or its INSERT fails.
BeginEdit(h, p, t) == p \in Rows /\ Begin(h, "edit_version", Change(p, t)) /\ UNCHANGED contents

\* Mutant: the current text is replaced without a version of its own.
EditVersion_Skipped(h) == /\ At(h, "edit_version")
                          /\ Goto(h, "edit_content")
                          /\ UNCHANGED contents

EditVersion(h) == /\ At(h, "edit_version")
                  /\ Record(h)
                  /\ crossed' = crossed \cup {p \in {Page(h)} : Changing(p) # {}}
                  /\ Goto(h, "edit_content")
                  /\ UNCHANGED <<text, unsaved>>

EditContent(h) == /\ At(h, "edit_content")
                  /\ text' = [text EXCEPT ![Page(h)] = Text(h)]
                  /\ End(h)
                  /\ UNCHANGED <<saved, newest, crossed, unsaved>>

DropChange(h) == /\ Dropped(h)
                 /\ unsaved' = unsaved \cup {p \in Pages : h \in Changing(p)}
                 /\ UNCHANGED <<text, saved, newest, crossed>>

ContentNext == \E h \in Handlers :
    \/ \E t \in Texts : BeginCrawl(h, t) \/ \E p \in Pages : BeginEdit(h, p, t)
    \/ \E p \in Pages : InsertContent(h, p)
    \/ FindContent(h) \/ UpdateContent(h) \/ SaveVersion(h)
    \/ EditVersion(h) \/ EditContent(h) \/ DropChange(h)

ContentSpec == RequestsInit /\ ContentInit /\ [][ContentNext]_contentVars
-----------------------------------------------------------------------------
(* Type correctness.                                                       *)
ContentTypeOK ==
    /\ RequestsTypeOK(ContentLocations, Changes)
    /\ text \in [Pages -> Texts \cup {Nothing}]
    /\ saved \in [Pages -> SUBSET Texts]
    /\ newest \in [Pages -> Texts \cup {Nothing}]
    /\ crossed \subseteq Pages
    /\ unsaved \subseteq Pages

(* content_versions is the history of content: the current text of a row   *)
(* is one of its versions, or the crawl that has set it is about to add    *)
(* it; and it is the newest one, unless a change is under way or two       *)
(* changes crossed.  Only a request dropped between its two statements     *)
(* leaves a text without a version, or a version that never was the text.  *)
ContentHistory == \A p \in Rows \ unsaved :
    /\ text[p] \in saved[p] \/ \E h \in Changing(p) : At(h, "save_version") /\ Text(h) = text[p]
    /\ text[p] = newest[p] \/ p \in crossed \/ Changing(p) # {}

(* A crawl looks for the row of its site and inserts one if there is none: *)
(* a site has one row, and one more for each further crawl at that time.   *)
RowPerCrawl == Cardinality(Rows) <= Cardinality(Handlers)
=============================================================================
