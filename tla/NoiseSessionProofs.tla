------------------------- MODULE NoiseSessionProofs -------------------------
(***************************************************************************)
(* Proofs about NoiseSession for any set of requests and any lengths.      *)
(***************************************************************************)
EXTENDS NoiseSession, TLAPS

(* Both directions are the same: messages take blocks of nonces, end to    *)
(* end, from a counter, and the other side follows with a cursor.          *)

\* The messages of D occupy [f[r], f[r] + n[r]), disjoint and without gaps.
Blocks(D, f, n, top) ==
    /\ top \in Nat
    /\ \A r \in D : f[r] \in Nat /\ f[r] + n[r] <= top
    /\ \A r, q \in D : r # q => f[r] + n[r] <= f[q] \/ f[q] + n[q] <= f[r]
    /\ \A r \in D : f[r] + n[r] = top \/ \E q \in D : f[q] = f[r] + n[r]

\* The cursor is behind the messages taken and at the first of the others.
Cursor(D, f, n, top, taken, cur) ==
    /\ cur \in Nat /\ cur <= top
    /\ \A r \in D : IF r \in taken THEN f[r] + n[r] <= cur ELSE cur <= f[r]
    /\ cur = top \/ \E q \in D : f[q] = cur

\* Encrypting one more message.
LEMMA Append ==
    ASSUME NEW D, NEW f, NEW g, NEW n, NEW top, NEW taken, NEW cur, NEW r,
           r \notin D, r \notin taken, \A q \in D : n[q] \in Nat \ {0}, n[r] \in Nat \ {0},
           \A q \in D : g[q] = f[q], g[r] = top,
           Blocks(D, f, n, top), Cursor(D, f, n, top, taken, cur)
    PROVE  /\ Blocks(D \cup {r}, g, n, top + n[r])
           /\ Cursor(D \cup {r}, g, n, top + n[r], taken, cur)
<1>1. top + n[r] \in Nat /\ top < top + n[r]
  BY DEF Blocks
<1>2. \A q \in D \cup {r} : g[q] \in Nat /\ g[q] + n[q] <= top + n[r]
  BY DEF Blocks
<1>3. \A p, q \in D \cup {r} : p # q => g[p] + n[p] <= g[q] \/ g[q] + n[q] <= g[p]
  BY DEF Blocks
<1>4. \A p \in D \cup {r} : g[p] + n[p] = top + n[r] \/ \E q \in D \cup {r} : g[q] = g[p] + n[p]
  BY DEF Blocks
<1>5. \A q \in D \cup {r} : IF q \in taken THEN g[q] + n[q] <= cur ELSE cur <= g[q]
  BY DEF Blocks, Cursor
<1>6. \E q \in D \cup {r} : g[q] = cur
  BY DEF Cursor
<1>7. QED
  BY <1>1, <1>2, <1>3, <1>4, <1>5, <1>6 DEF Blocks, Cursor

\* Taking the message the cursor is at.
LEMMA Take ==
    ASSUME NEW D, NEW f, NEW n, NEW top, NEW taken, NEW cur, NEW r \in D,
           r \notin taken, \A q \in D : n[q] \in Nat \ {0}, f[r] = cur,
           Blocks(D, f, n, top), Cursor(D, f, n, top, taken, cur)
    PROVE  Cursor(D, f, n, top, taken \cup {r}, cur + n[r])
<1>1. \A q \in D : q # r /\ q \notin taken => cur + n[r] <= f[q]
  BY DEF Blocks, Cursor
<1>2. QED
  BY <1>1 DEF Blocks, Cursor
-----------------------------------------------------------------------------
Oks == {r \in Requests : At(r, "ok")}

\* What the locations of a request and of its stream say of each other.
Shape == \A r \in Requests :
    /\ At(r, "new") <=> nonce[r] = -1
    /\ stream[r] # "none" => pc[r] \notin {"new", "encrypted"}
    /\ Kind[r] = "notify" => stream[r] \notin {"running", "answered"}
    /\ At(r, "ok") => stream[r] = "answered"
    /\ reply[r] >= 0 <=> stream[r] = "answered"

\* The two directions.
Up == /\ Blocks(Encrypted, nonce, Chunks, sent)
      /\ Cursor(Encrypted, nonce, Chunks, sent, Understood, expected)
Down == /\ Blocks(Answered, reply, ReplyChunks, replied)
        /\ Cursor(Answered, reply, ReplyChunks, replied, Oks, awaited)

Inv == TypeOK /\ Shape /\ Up /\ Down

USE NoiseSessionAssumption

\* Types and locations are kept by every step.
LEMMA ShapeStep == TypeOK /\ Shape /\ Next => TypeOK' /\ Shape'
<1> SUFFICES ASSUME TypeOK, Shape, Next PROVE TypeOK' /\ Shape'
  OBVIOUS
<1> USE DEF TypeOK, Shape, At, Goto, Turn, InHand, up, down
<1>1. ASSUME NEW r \in Requests, Encrypt(r) PROVE TypeOK' /\ Shape'
  <2>1. sent \in Nat /\ Chunks[r] \in Nat
    OBVIOUS
  <2>2. crowded' \subseteq Requests
    BY <1>1 DEF Encrypt
  <2>3. QED
    BY <1>1, <2>1, <2>2 DEF Encrypt
<1>2. ASSUME NEW r \in Requests, Api(r) PROVE TypeOK' /\ Shape'
  <2>1. CASE Write(r)
    BY <2>1 DEF Write
  <2>2. CASE TakeReply(r)
    BY <2>2 DEF TakeReply
  <2>3. CASE RefuseReply(r)
    BY <2>3 DEF RefuseReply
  <2>4. CASE NoReply(r)
    BY <2>4 DEF NoReply
  <2>5. CASE LinkFails(r)
    BY <2>5 DEF LinkFails
  <2>6. QED
    BY <1>2, <2>1, <2>2, <2>3, <2>4, <2>5 DEF Api
<1>3. ASSUME NEW r \in Requests, Drop(r) PROVE TypeOK' /\ Shape'
  BY <1>3 DEF Drop
<1>4. ASSUME NEW r \in Requests, Worker(r) PROVE TypeOK' /\ Shape'
  <2>1. CASE Understand(r)
    BY <2>1 DEF Understand
  <2>2. CASE Refuse(r)
    BY <2>2 DEF Refuse
  <2>3. CASE Ignore(r)
    BY <2>3 DEF Ignore
  <2>4. CASE Answer(r)
    BY <2>4 DEF Answer
  <2>5. QED
    BY <1>4, <2>1, <2>2, <2>3, <2>4 DEF Worker
<1>5. CASE Disconnect
  BY <1>5 DEF Disconnect
<1>6. QED
  BY <1>1, <1>2, <1>3, <1>4, <1>5 DEF Next

\* The worker's counter follows the messages.
LEMMA UpStep == Inv /\ Next => Up'
<1> SUFFICES ASSUME Inv, Next PROVE Up'
  OBVIOUS
<1> USE DEF Inv, TypeOK, Shape, Up, At, Goto, Turn, up, down
<1>1. ASSUME NEW r \in Requests, Encrypt(r) PROVE Up'
  <2>1. Encrypted' = Encrypted \cup {r} /\ r \notin Encrypted
    BY <1>1 DEF Encrypt, Encrypted
  <2>2. Understood' = Understood /\ r \notin Understood
    BY <1>1 DEF Encrypt, Understood
  <2>3. (\A q \in Encrypted : nonce'[q] = nonce[q]) /\ nonce'[r] = sent
    BY <1>1, <2>1 DEF Encrypt, Encrypted
  <2>4. sent' = sent + Chunks[r] /\ expected' = expected
    BY <1>1 DEF Encrypt
  <2>5. \A q \in Encrypted : Chunks[q] \in Nat \ {0}
    BY DEF Encrypted
  <2>6. /\ Blocks(Encrypted \cup {r}, nonce', Chunks, sent + Chunks[r])
        /\ Cursor(Encrypted \cup {r}, nonce', Chunks, sent + Chunks[r], Understood, expected)
    BY <2>1, <2>2, <2>3, <2>5, Append DEF Up
  <2>7. QED
    BY <2>1, <2>2, <2>4, <2>6
<1>2. ASSUME NEW r \in Requests, Understand(r) PROVE Up'
  <2>1. Encrypted' = Encrypted /\ r \in Encrypted
    BY <1>2 DEF Understand, Encrypted
  <2>2. Understood' = Understood \cup {r} /\ r \notin Understood
    BY <1>2 DEF Understand, Understood
  <2>3. nonce' = nonce /\ sent' = sent /\ nonce[r] = expected /\ expected' = expected + Chunks[r]
    BY <1>2 DEF Understand
  <2>4. \A q \in Encrypted : Chunks[q] \in Nat \ {0}
    BY DEF Encrypted
  <2>5. Cursor(Encrypted, nonce, Chunks, sent, Understood \cup {r}, expected + Chunks[r])
    BY <2>1, <2>2, <2>3, <2>4, Take
  <2>6. QED
    BY <2>1, <2>2, <2>3, <2>5
<1>3. ASSUME NEW r \in Requests, Api(r) \/ Drop(r) \/ Refuse(r) \/ Ignore(r) \/ Answer(r)
      PROVE  Up'
  <2>1. UNCHANGED <<sent, expected, nonce>>
    BY <1>3 DEF Api, Drop, Write, TakeReply, RefuseReply, NoReply, LinkFails, Refuse, Ignore, Answer
  <2>2. Understood' = Understood
    <3>1. CASE Write(r)
      BY <3>1 DEF Write, Understood
    <3>2. CASE Refuse(r) \/ Ignore(r)
      BY <3>2 DEF Refuse, Ignore, Understood
    <3>3. CASE Answer(r)
      BY <3>3 DEF Answer, Understood
    <3>4. CASE TakeReply(r) \/ RefuseReply(r) \/ NoReply(r) \/ LinkFails(r) \/ Drop(r)
      BY <3>4 DEF TakeReply, RefuseReply, NoReply, LinkFails, Drop, Understood
    <3>5. QED
      BY <1>3, <3>1, <3>2, <3>3, <3>4 DEF Api
  <2>3. Encrypted' = Encrypted
    BY <2>1 DEF Encrypted
  <2>4. QED
    BY <2>1, <2>2, <2>3
<1>4. CASE Disconnect
  BY <1>4 DEF Disconnect, Encrypted, Understood
<1>5. QED
  BY <1>1, <1>2, <1>3, <1>4 DEF Next, Worker

\* The API's counter follows the replies.
LEMMA DownStep == Inv /\ Next => Down'
<1> SUFFICES ASSUME Inv, Next PROVE Down'
  OBVIOUS
<1> USE DEF Inv, TypeOK, Shape, Down, At, Goto, Turn, up, down
<1>1. ASSUME NEW r \in Requests, Answer(r) PROVE Down'
  <2>1. Answered' = Answered \cup {r} /\ r \notin Answered
    BY <1>1 DEF Answer, Answered
  <2>2. Oks' = Oks /\ r \notin Oks
    BY <1>1 DEF Answer, Oks
  <2>3. (\A q \in Answered : reply'[q] = reply[q]) /\ reply'[r] = replied
    BY <1>1, <2>1 DEF Answer, Answered
  <2>4. replied' = replied + ReplyChunks[r] /\ awaited' = awaited
    BY <1>1 DEF Answer
  <2>5. \A q \in Answered : ReplyChunks[q] \in Nat \ {0}
    BY DEF Answered
  <2>6. /\ Blocks(Answered \cup {r}, reply', ReplyChunks, replied + ReplyChunks[r])
        /\ Cursor(Answered \cup {r}, reply', ReplyChunks, replied + ReplyChunks[r], Oks, awaited)
    BY <2>1, <2>2, <2>3, <2>5, Append
  <2>7. QED
    BY <2>1, <2>2, <2>4, <2>6
<1>2. ASSUME NEW r \in Requests, TakeReply(r) PROVE Down'
  <2>1. Answered' = Answered /\ r \in Answered
    BY <1>2 DEF TakeReply, Answered
  <2>2. Oks' = Oks \cup {r} /\ r \notin Oks
    BY <1>2 DEF TakeReply, Oks
  <2>3. reply' = reply /\ replied' = replied /\ reply[r] = awaited /\ awaited' = awaited + ReplyChunks[r]
    BY <1>2 DEF TakeReply
  <2>4. \A q \in Answered : ReplyChunks[q] \in Nat \ {0}
    BY DEF Answered
  <2>5. Cursor(Answered, reply, ReplyChunks, replied, Oks \cup {r}, awaited + ReplyChunks[r])
    BY <2>1, <2>2, <2>3, <2>4, Take
  <2>6. QED
    BY <2>1, <2>2, <2>3, <2>5
<1>3. ASSUME NEW r \in Requests, Encrypt(r) \/ Write(r) \/ RefuseReply(r) \/ NoReply(r) \/ LinkFails(r)
                                 \/ Drop(r) \/ Understand(r) \/ Refuse(r) \/ Ignore(r)
      PROVE  Down'
  <2>1. UNCHANGED <<replied, awaited, reply>>
    BY <1>3 DEF Encrypt, Write, RefuseReply, NoReply, LinkFails, Drop, Understand, Refuse, Ignore
  <2>2. Oks' = Oks
    <3>1. CASE Encrypt(r) \/ Write(r)
      BY <3>1 DEF Encrypt, Write, Oks
    <3>2. CASE RefuseReply(r) \/ NoReply(r)
      BY <3>2 DEF RefuseReply, NoReply, Oks
    <3>3. CASE LinkFails(r) \/ Drop(r)
      BY <3>3 DEF LinkFails, Drop, Oks, InHand
    <3>4. CASE Understand(r) \/ Refuse(r) \/ Ignore(r)
      BY <3>4 DEF Understand, Refuse, Ignore, Oks
    <3>5. QED
      BY <1>3, <3>1, <3>2, <3>3, <3>4
  <2>3. Answered' = Answered
    BY <2>1 DEF Answered
  <2>4. QED
    BY <2>1, <2>2, <2>3
<1>4. CASE Disconnect
  BY <1>4 DEF Disconnect, Answered, Oks
<1>5. QED
  BY <1>1, <1>2, <1>3, <1>4 DEF Next, Api, Worker

\* The inductive invariant of a session: locations agree, and in both
\* directions the cursor follows the blocks of nonces.
THEOREM SessionInductive == Spec => []Inv
<1>1. Init => Inv
  BY DEF Init, Inv, TypeOK, Shape, Up, Down, At, Blocks, Cursor, Encrypted, Understood, Answered, Oks
<1>2. Inv /\ [Next]_vars => Inv'
  <2>1. Inv /\ Next => Inv'
    BY ShapeStep, UpStep, DownStep DEF Inv
  <2>2. Inv /\ UNCHANGED vars => Inv'
    BY DEF vars, Inv, TypeOK, Shape, Up, Down, At, Encrypted, Understood, Answered, Oks
  <2>3. QED
    BY <2>1, <2>2
<1>3. QED
  BY <1>1, <1>2, PTL DEF Spec

\* Type correctness.
THEOREM TypeCorrect == Spec => []TypeOK
<1>1. Inv => TypeOK
  BY DEF Inv
<1>2. QED
  BY <1>1, SessionInductive, PTL

\* The worker understands messages in the order of their encryption.
THEOREM WorkerKeepsOrder == Spec => []WorkerInOrder
<1>1. Inv => WorkerInOrder
  BY DEF Inv, TypeOK, Shape, Up, Blocks, Cursor, WorkerInOrder, Encrypted, Understood, At
<1>2. QED
  BY <1>1, SessionInductive, PTL

\* The API takes replies in the order of their encryption.
THEOREM ApiKeepsOrder == Spec => []ApiInOrder
<1>1. Inv => ApiInOrder
  BY DEF Inv, TypeOK, Shape, Down, Blocks, Cursor, ApiInOrder, Answered, Oks, At
<1>2. QED
  BY <1>1, SessionInductive, PTL

\* Neither end decrypts out of order.
THEOREM MessagesKeepOrder == Spec => []InOrder
BY WorkerKeepsOrder, ApiKeepsOrder, PTL DEF InOrder

\* Once the next message is lost, nothing is understood any more.
THEOREM StuckStays == Spec => StuckForGood
<1>1. Inv /\ [Next]_vars => [Stuck => Stuck' /\ UNCHANGED expected]_vars
  <2> SUFFICES ASSUME Inv, Next, Stuck PROVE Stuck' /\ UNCHANGED expected
    BY DEF vars
  <2> PICK q \in Encrypted : nonce[q] = expected /\ ~Coming(q)
    BY DEF Stuck
  <2>1. q \in Requests /\ pc[q] # "new" /\ nonce[q] \in Nat
    BY DEF Encrypted, Inv, TypeOK, Shape, At
  <2>2. ASSUME NEW r \in Requests, Understand(r) PROVE FALSE
    <3>1. r # q /\ r \in Encrypted /\ nonce[r] = nonce[q]
      BY <2>2 DEF Understand, Coming, Encrypted, Inv, TypeOK
    <3>2. nonce[r] + Chunks[r] <= nonce[q] \/ nonce[q] + Chunks[q] <= nonce[r]
      BY <2>1, <3>1 DEF Inv, Up, Blocks
    <3>3. QED
      BY <2>1, <3>1, <3>2
  <2>3. ASSUME NEW r \in Requests, Encrypt(r) PROVE Stuck' /\ UNCHANGED expected
    <3>1. r # q
      BY <2>1, <2>3 DEF Encrypt, At
    <3>2. UNCHANGED <<expected, stream, pc[q], nonce[q]>>
      BY <2>1, <2>3, <3>1 DEF Encrypt, Goto, Inv, TypeOK
    <3>3. QED
      BY <2>1, <3>2 DEF Stuck, Coming, Encrypted, At
  <2>4. ASSUME NEW r \in Requests, Api(r) \/ Drop(r) \/ Refuse(r) \/ Ignore(r) \/ Answer(r)
        PROVE  Stuck' /\ UNCHANGED expected
    <3>1. UNCHANGED <<expected, nonce>>
      BY <2>4 DEF Api, Drop, Write, TakeReply, RefuseReply, NoReply, LinkFails, Refuse, Ignore,
                  Answer, up
    <3>2. ~Coming(q)'
      <4> USE <2>1 DEF Coming, At, Goto, Turn, Inv, TypeOK
      <4>1. CASE Write(r)
        BY <4>1 DEF Write
      <4>2. CASE TakeReply(r) \/ RefuseReply(r) \/ NoReply(r)
        BY <4>2 DEF TakeReply, RefuseReply, NoReply
      <4>3. CASE LinkFails(r) \/ Drop(r)
        BY <4>3 DEF LinkFails, Drop
      <4>4. CASE Refuse(r) \/ Ignore(r) \/ Answer(r)
        BY <4>4 DEF Refuse, Ignore, Answer
      <4>5. QED
        BY <2>4, <4>1, <4>2, <4>3, <4>4 DEF Api
    <3>3. QED
      BY <3>1, <3>2 DEF Stuck, Encrypted
  <2>5. CASE Disconnect
    BY <2>5 DEF Disconnect, Stuck, Coming, Encrypted, At, up
  <2>6. QED
    BY <2>2, <2>3, <2>4, <2>5 DEF Next, Worker
<1>2. QED
  BY <1>1, SessionInductive, PTL DEF Spec, StuckForGood
-----------------------------------------------------------------------------
(* Why a request fails                                                     *)

Cause(r) == \E q \in Encrypted : nonce[q] <= nonce[r] /\ Disturbs(q)

\* Requests in hand with an overtaker, or behind one in hand, are crowded; on
\* an open connection a stream that ends without an answer has a cause.
Causes ==
    /\ \A r \in InHand, q \in Encrypted : nonce[r] < nonce[q] => r \in crowded
    /\ \A r \in Encrypted, q \in InHand : nonce[q] < nonce[r] => r \in crowded
    /\ \A r \in Requests : open /\ Kind[r] = "asr" /\ stream[r] = "closed" => Cause(r)
    /\ FailureHasCause

\* A request without a cause has no request before it that is still open.
LEMMA EarlierEnded ==
    ASSUME Inv, Causes, open, NEW r \in Encrypted, ~Cause(r),
           NEW q \in Encrypted, nonce[q] < nonce[r]
    PROVE  At(q, "ok")
<1> USE DEF Inv, TypeOK, Shape, Encrypted, Cause, Disturbs, At
<1>1. nonce[r] \in Nat /\ nonce[q] \in Nat /\ nonce[r] <= nonce[r] /\ nonce[q] <= nonce[r]
  OBVIOUS
<1>2. r \notin crowded /\ ~Disturbs(q)
  BY <1>1
<1>3. q \notin InHand
  BY <1>2 DEF Causes
<1>4. pc[q] # "failed"
  <2>1. ASSUME pc[q] = "failed" PROVE FALSE
    <3>1. Kind[q] = "asr"
      BY <1>2
    <3>2. Cause(q)
      BY <2>1, <3>1 DEF Causes, FailureHasCause
    <3>3. PICK p \in Encrypted : nonce[p] <= nonce[q] /\ Disturbs(p)
      BY <3>2
    <3>4. nonce[p] <= nonce[r]
      BY <1>1, <3>3
    <3>5. QED
      BY <3>3, <3>4
  <2>2. QED
    BY <2>1
<1>5. QED
  BY <1>1, <1>2, <1>3, <1>4 DEF InHand

\* A message the worker cannot decrypt has a cause.
LEMMA RefusedHasCause ==
    ASSUME Inv, Causes, NEW r \in Requests, Refuse(r)
    PROVE  Cause(r)
<1> USE DEF Inv, TypeOK, Shape, At
<1>1. r \in Encrypted /\ r \notin Understood /\ nonce[r] # expected /\ open
  BY DEF Refuse, Encrypted, Understood
<1>2. PICK q \in Encrypted : nonce[q] = expected /\ nonce[q] < nonce[r]
  BY <1>1 DEF Up, Blocks, Cursor, Encrypted
<1>3. q \notin Understood
  BY <1>2 DEF Up, Cursor, Encrypted
<1>4. ~At(q, "ok")
  BY <1>3 DEF Understood, Encrypted
<1>5. QED
  BY <1>1, <1>2, <1>4, EarlierEnded

\* So has a reply the API cannot decrypt.
LEMMA RefusedReplyHasCause ==
    ASSUME Inv, Causes, open, NEW r \in Requests, RefuseReply(r)
    PROVE  Cause(r)
<1> USE DEF Inv, TypeOK, Shape, At
<1>1. r \in Encrypted /\ r \in Answered /\ r \notin Oks /\ reply[r] # awaited /\ r \in InHand
  BY DEF RefuseReply, Encrypted, Answered, Oks, InHand
<1>2. PICK q \in Answered : reply[q] = awaited /\ reply[q] < reply[r]
  BY <1>1 DEF Down, Blocks, Cursor, Answered
<1>3. q \notin Oks /\ q \in Encrypted /\ q # r
  BY <1>1, <1>2 DEF Down, Cursor, Answered, Oks, Encrypted
<1>4. ~At(q, "ok")
  BY <1>3 DEF Oks, Encrypted
<1>5. nonce[q] \in Nat /\ nonce[r] \in Nat /\ nonce[q] # nonce[r]
  BY <1>1, <1>3 DEF Encrypted, Up, Blocks
<1>6. CASE nonce[q] < nonce[r]
  BY <1>1, <1>3, <1>4, <1>6, EarlierEnded
<1>7. CASE nonce[r] < nonce[q]
  BY <1>1, <1>3, <1>5, <1>7 DEF Causes, Cause, Disturbs
<1>8. QED
  BY <1>5, <1>6, <1>7

\* A cause stays one.
LEMMA CauseStays ==
    ASSUME Inv, Next, NEW r \in Encrypted, Cause(r)
    PROVE  Cause(r)'
<1> USE DEF Inv, TypeOK, Shape, At, Goto, Turn, InHand, up, down
<1>1. PICK q \in Encrypted : nonce[q] <= nonce[r] /\ Disturbs(q)
  BY DEF Cause
<1>2. q \in Requests /\ r \in Requests /\ pc[q] # "new" /\ pc[r] # "new"
  BY DEF Encrypted
<1>3. nonce'[q] = nonce[q] /\ nonce'[r] = nonce[r]
  BY <1>2 DEF Next, Encrypt, Api, Write, TakeReply, RefuseReply, NoReply, LinkFails, Drop,
     Worker, Understand, Refuse, Ignore, Answer, Disconnect
<1>4. crowded \subseteq crowded'
  BY DEF Next, Encrypt, Api, Write, TakeReply, RefuseReply, NoReply, LinkFails, Drop,
     Worker, Understand, Refuse, Ignore, Answer, Disconnect
<1>5. pc[q] = "dropped" => pc'[q] = "dropped"
  BY <1>2 DEF Next, Encrypt, Api, Write, TakeReply, RefuseReply, NoReply, LinkFails, Drop,
     Worker, Understand, Refuse, Ignore, Answer, Disconnect
<1>6. Disturbs(q)'
  BY <1>1, <1>4, <1>5 DEF Disturbs
<1>7. q \in Encrypted'
  BY <1>2, <1>3 DEF Encrypted
<1>8. QED
  BY <1>1, <1>3, <1>6, <1>7 DEF Cause

\* Encrypting later crowds whatever is in hand.
LEMMA CrowdedStep ==
    ASSUME Inv, Causes, Next
    PROVE  /\ (\A r \in InHand, q \in Encrypted : nonce[r] < nonce[q] => r \in crowded)'
           /\ (\A r \in Encrypted, q \in InHand : nonce[q] < nonce[r] => r \in crowded)'
<1> DEFINE P == /\ \A r \in InHand, q \in Encrypted : nonce[r] < nonce[q] => r \in crowded
                /\ \A r \in Encrypted, q \in InHand : nonce[q] < nonce[r] => r \in crowded
<1> SUFFICES P'
  OBVIOUS
<1> USE DEF Inv, TypeOK, Shape, At, Goto, Turn, up, down
<1>1. P
  BY DEF Causes
<1>2. ASSUME NEW s \in Requests, Encrypt(s) PROVE P'
  <2>1. Encrypted' = Encrypted \cup {s} /\ InHand' = InHand \cup {s} /\ s \notin Encrypted
    BY <1>2 DEF Encrypt, Encrypted, InHand
  <2>2. nonce'[s] = sent /\ \A r \in Encrypted : nonce'[r] = nonce[r] /\ nonce[r] < sent
    BY <1>2, <2>1 DEF Encrypt, Up, Blocks, Encrypted
  <2>3. InHand \subseteq Encrypted
    BY DEF InHand, Encrypted
  <2>4. crowded \subseteq crowded' /\ (InHand # {} => InHand \cup {s} \subseteq crowded')
    BY <1>2 DEF Encrypt
  <2>5. sent \in Nat /\ \A r \in Encrypted : nonce[r] \in Nat
    BY DEF Encrypted
  <2>6. ASSUME NEW r \in InHand', NEW q \in Encrypted', nonce'[r] < nonce'[q]
        PROVE  r \in crowded'
    <3>1. r # s
      BY <2>1, <2>2, <2>5, <2>6
    <3>2. CASE q = s
      BY <2>1, <2>4, <3>1, <3>2
    <3>3. CASE q # s
      BY <1>1, <2>1, <2>2, <2>3, <2>4, <2>6, <3>1, <3>3
    <3>4. QED
      BY <3>2, <3>3
  <2>7. ASSUME NEW r \in Encrypted', NEW q \in InHand', nonce'[q] < nonce'[r]
        PROVE  r \in crowded'
    <3>1. q # s
      BY <2>1, <2>2, <2>5, <2>7
    <3>2. CASE r = s
      BY <2>1, <2>4, <3>1, <3>2
    <3>3. CASE r # s
      BY <1>1, <2>1, <2>2, <2>3, <2>4, <2>7, <3>1, <3>3
    <3>4. QED
      BY <3>2, <3>3
  <2>8. QED
    BY <2>6, <2>7
<1>3. ASSUME NEW s \in Requests, Api(s) \/ Drop(s) \/ Worker(s) PROVE P'
  <2>1. UNCHANGED <<nonce, crowded>>
    BY <1>3 DEF Api, Write, TakeReply, RefuseReply, NoReply, LinkFails, Drop,
                Worker, Understand, Refuse, Ignore, Answer
  <2>2. InHand' \subseteq InHand
    BY <1>3 DEF InHand, Api, Write, TakeReply, RefuseReply, NoReply, LinkFails, Drop,
                Worker, Understand, Refuse, Ignore, Answer
  <2>3. Encrypted' = Encrypted
    BY <2>1 DEF Encrypted
  <2>4. QED
    BY <1>1, <2>1, <2>2, <2>3
<1>4. CASE Disconnect
  BY <1>1, <1>4 DEF Disconnect, InHand, Encrypted
<1>5. QED
  BY <1>2, <1>3, <1>4 DEF Next

\* A stream that ends without an answer, and a request that fails, has a cause.
LEMMA CausesStep == Inv /\ Causes /\ Next => Causes'
<1> SUFFICES ASSUME Inv, Causes, Next PROVE Causes'
  OBVIOUS
<1> USE DEF Inv, TypeOK, Shape, At, Goto, Turn, up, down
<1>1. open' => open
  BY DEF Next, Encrypt, Api, Write, TakeReply, RefuseReply, NoReply, LinkFails, Drop,
         Worker, Understand, Refuse, Ignore, Answer, Disconnect
<1>2. ASSUME NEW r \in Requests, open', Kind[r] = "asr", stream'[r] = "closed" PROVE Cause(r)'
  <2>1. stream[r] = "closed" \/ Refuse(r)
    <3> SUFFICES ASSUME stream[r] # "closed" PROVE Refuse(r)
      OBVIOUS
    <3>1. PICK s \in Requests : Write(s) \/ Refuse(s) \/ Ignore(s) \/ Understand(s) \/ Answer(s)
      BY <1>2 DEF Next, Encrypt, Api, TakeReply, RefuseReply, NoReply, LinkFails, Drop,
                  Worker, Disconnect
    <3>2. ~(Write(s) \/ Understand(s) \/ Answer(s))
      BY <1>2 DEF Write, Understand, Answer
    <3>3. ~Ignore(s)
      BY <1>2 DEF Ignore
    <3>4. CASE Refuse(s)
      <4>1. s = r
        BY <1>2, <3>4 DEF Refuse
      <4>2. QED
        BY <3>4, <4>1
    <3>5. QED
      BY <3>1, <3>2, <3>3, <3>4
  <2>2. Cause(r)
    BY <1>1, <1>2, <2>1, RefusedHasCause DEF Causes
  <2>3. r \in Encrypted
    BY <2>1 DEF Refuse, Encrypted
  <2>4. QED
    BY <2>2, <2>3, CauseStays
<1>3. ASSUME NEW r \in Requests, open', Kind[r] = "asr", pc'[r] = "failed" PROVE Cause(r)'
  <2>1. pc[r] = "failed" \/ RefuseReply(r) \/ NoReply(r)
    BY <1>1, <1>3 DEF Next, Encrypt, Api, Write, TakeReply, RefuseReply, NoReply, LinkFails, Drop,
         Worker, Understand, Refuse, Ignore, Answer, Disconnect
  <2>2. Cause(r)
    <3>1. CASE pc[r] = "failed"
      BY <1>1, <1>3, <3>1 DEF Causes, FailureHasCause, Cause
    <3>2. CASE RefuseReply(r)
      BY <1>1, <1>3, <3>2, RefusedReplyHasCause
    <3>3. CASE NoReply(r)
      BY <1>1, <1>3, <3>3 DEF Causes, NoReply
    <3>4. QED
      BY <2>1, <3>1, <3>2, <3>3
  <2>3. r \in Encrypted
    BY <2>1 DEF RefuseReply, NoReply, Encrypted
  <2>4. QED
    BY <2>2, <2>3, CauseStays
<1>4. FailureHasCause'
  BY <1>3 DEF FailureHasCause, Cause
<1>5. QED
  BY <1>2, <1>4, CrowdedStep DEF Causes

\* A failed request is explained by a disturbance at or before it.
THEOREM FailuresExplained == Spec => []FailureHasCause
<1>1. Init => Causes
  BY DEF Init, Causes, FailureHasCause, InHand, Encrypted, At
<1>2. Inv /\ Causes /\ [Next]_vars => Causes'
  <2>1. Inv /\ Causes /\ UNCHANGED vars => Causes'
    BY DEF vars, Causes, FailureHasCause, InHand, Encrypted, Cause, Disturbs, At
  <2>2. QED
    BY <2>1, CausesStep
<1>3. Causes => FailureHasCause
  BY DEF Causes
<1>4. QED
  BY <1>1, <1>2, <1>3, SessionInductive, PTL DEF Spec
=============================================================================
