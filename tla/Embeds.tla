------------------------------- MODULE Embeds -------------------------------
(***************************************************************************)
(* Requests of an embedding domain (embed_tts in                           *)
(* sonotxt-api/src/routes/embed.rs): a counter in redis for every day, the *)
(* totals of the domain's row, and the jobs it queues.  The three stores   *)
(* are written one after the other, and errors of the first two ignored.   *)
(* The key of a day is kept for two; no request lives that long.           *)
(***************************************************************************)
EXTENDS Requests, FiniteSets, FiniteSetsExt

CONSTANTS Lengths,     \* of texts
          MaxLength,   \* 5000
          DailyLimit,  \* daily_char_limit, or embed_daily_limit
          LastDay      \* bound on the days

ASSUME EmbedsAssumption == /\ Lengths \subseteq 1..MaxLength
                           /\ MaxLength \in Nat /\ DailyLimit \in Nat /\ LastDay \in Nat
                           /\ IsFiniteSet(Handlers) /\ Handlers # {}

VARIABLES day,
          usage,       \* embed:<domain>:<day>
          total,       \* embed_sites.total_chars
          embedded,    \* characters in the jobs, by the day they count for
          misread,     \* by day, failed GETs (history)
          uncounted,   \* by day, characters of failed INCRBYs (history)
          unstated     \* characters of failed updates of the row (history)

embeds == <<day, usage, total, embedded, misread, uncounted, unstated>>
embedVars == <<requests, embeds>>

Days == 0..LastDay
EmbedLocations == {"get_usage", "incrby", "stats", "insert_job"}

EmbedsInit == /\ day = 0
              /\ usage = [d \in Days |-> 0] /\ embedded = [d \in Days |-> 0]
              /\ misread = [d \in Days |-> 0] /\ uncounted = [d \in Days |-> 0]
              /\ total = 0 /\ unstated = 0

Embedding(n, d) == [length |-> n, day |-> d]
Embeddings == [length : Lengths, day : Days]
Length(h) == local[h].length
KeyDay(h) == local[h].day
-----------------------------------------------------------------------------
\* Signature and length are checked, and the row upserted; the key is
\* computed once.
BeginEmbed(h, n) == /\ n \in Lengths
                    /\ Begin(h, "get_usage", Embedding(n, day))
                    /\ UNCHANGED embeds

UnderLimit(h, current) == current + Length(h) <= DailyLimit

GetUsage(h) == /\ At(h, "get_usage")
               /\ IF UnderLimit(h, usage[KeyDay(h)]) THEN Goto(h, "incrby") ELSE End(h)
               /\ UNCHANGED embeds

\* An error of GET reads as no usage.
MisreadUsage(h) == /\ At(h, "get_usage")
                   /\ Fault
                   /\ misread' = [misread EXCEPT ![KeyDay(h)] = @ + 1]
                   /\ IF UnderLimit(h, 0) THEN Moved(h, "incrby", local[h]) ELSE Leave(h)
                   /\ UNCHANGED <<day, usage, total, embedded, uncounted, unstated>>

\* Mutant: the counter of today is incremented, not the one that was read.
IncrBy_Today(h) == /\ At(h, "incrby")
                   /\ usage' = [usage EXCEPT ![day] = @ + Length(h)]
                   /\ Goto(h, "stats")
                   /\ UNCHANGED <<day, total, embedded, misread, uncounted, unstated>>

IncrBy(h) == /\ At(h, "incrby")
             /\ usage' = [usage EXCEPT ![KeyDay(h)] = @ + Length(h)]
             /\ Goto(h, "stats")
             /\ UNCHANGED <<day, total, embedded, misread, uncounted, unstated>>

IncrByFails(h) == /\ At(h, "incrby")
                  /\ Fault
                  /\ uncounted' = [uncounted EXCEPT ![KeyDay(h)] = @ + Length(h)]
                  /\ Moved(h, "stats", local[h])
                  /\ UNCHANGED <<day, usage, total, embedded, misread, unstated>>

UpdateStats(h) == /\ At(h, "stats")
                  /\ total' = total + Length(h)
                  /\ Goto(h, "insert_job")
                  /\ UNCHANGED <<day, usage, embedded, misread, uncounted, unstated>>

StatsFail(h) == /\ At(h, "stats")
                /\ Fault
                /\ unstated' = unstated + Length(h)
                /\ Moved(h, "insert_job", local[h])
                /\ UNCHANGED <<day, usage, total, embedded, misread, uncounted>>

InsertEmbedJob(h) == /\ At(h, "insert_job")
                     /\ embedded' = [embedded EXCEPT ![KeyDay(h)] = @ + Length(h)]
                     /\ End(h)
                     /\ UNCHANGED <<day, usage, total, misread, uncounted, unstated>>

\* What was counted stays so without a job.
DropEmbed(h) == Dropped(h) /\ UNCHANGED embeds

Midnight == /\ day < LastDay
            /\ day' = day + 1
            /\ UNCHANGED <<requests, usage, total, embedded, misread, uncounted, unstated>>

EmbedsNext == \/ \E h \in Handlers :
                   \/ \E n \in Lengths : BeginEmbed(h, n)
                   \/ GetUsage(h) \/ MisreadUsage(h) \/ IncrBy(h) \/ IncrByFails(h)
                   \/ UpdateStats(h) \/ StatsFail(h) \/ InsertEmbedJob(h) \/ DropEmbed(h)
              \/ Midnight

EmbedsSpec == RequestsInit /\ EmbedsInit /\ [][EmbedsNext]_embedVars
-----------------------------------------------------------------------------
(* Type correctness.                                                       *)
EmbedsTypeOK == /\ RequestsTypeOK(EmbedLocations, Embeddings)
                /\ day \in Days
                /\ usage \in [Days -> Nat] /\ embedded \in [Days -> Nat]
                /\ misread \in [Days -> Nat] /\ uncounted \in [Days -> Nat]
                /\ total \in Nat /\ unstated \in Nat

(* Whatever is queued for a day has been counted for that day, also by a   *)
(* request that midnight passes; and the limit is exceeded by one text for *)
(* each further request at that time and for each GET that failed.  The    *)
(* row of the domain counts every job it was told of.                      *)
EmbedCounted ==
    /\ SumFunctionOnSet(embedded, Days) <= total + unstated
    /\ \A d \in Days :
         /\ embedded[d] <= usage[d] + uncounted[d]
         /\ usage[d] <= DailyLimit + (Cardinality(Handlers) - 1 + misread[d]) * MaxLength
=============================================================================
