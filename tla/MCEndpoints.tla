---------------------------- MODULE MCEndpoints ----------------------------
(* Instance for TLC of the modules of the endpoints.  They share tables in *)
(* places, but no property is about two of them: each behaviour is one of  *)
(* one part, which Init chooses, and the others stand still.               *)
EXTENDS Logins, RequestAuth, Vault, Contents, Contacts, Embeds, Calls, PriceOracle,
        DepositAddresses, Passkeys, SplitCharge, ZcashScanner, JobWatch,
        ObjectStore, Sessions, PaymentSecrets, TLC

CONSTANTS recording, note, film,  \* three items of the vault
          paid1, paid2, paid3, \* three shielded payments
          book, page            \* two jobs

VARIABLE part

Parts == {"logins", "auth", "vault", "contents", "contacts", "embeds", "calls", "prices",
          "addresses", "passkeys", "split", "zcash", "watch",
          "store", "sessions", "secrets"}

accounts == <<kind, logins, auths, sessionRows>>
stores   == <<vault, contents, contacts, embeds, storeVars, secretVars>>
memory   == <<callVars, priceVars>>
others   == <<addressVars, zcashVars, watchVars>>
allVars  == <<part, requests, accounts, passkeys, splits, stores, memory, others>>

Init == /\ part \in Parts
        /\ RequestsInit
        /\ IF part = "logins" THEN LoginInit ELSE LoginInit /\ kind = "email"
        /\ AuthInit /\ VaultInit /\ ContentInit /\ ContactsInit /\ EmbedsInit /\ CallsInit
        /\ AddressesInit /\ SplitInit /\ SessionsInit /\ SecretsInit
        /\ IF part = "store" THEN StoreInit ELSE StoreInit /\ s3 /\ crustToken
        /\ IF part = "passkeys" THEN PasskeyInit ELSE PasskeyInit /\ enrolled
        /\ IF part = "zcash" THEN ZcashInit ELSE ZcashInit /\ payment = paid1
        /\ IF part = "watch" THEN WatchInit ELSE WatchInit /\ target = [w \in Watchers |-> book]
        /\ IF part = "prices" THEN PriceInit ELSE PriceInit /\ contract = 0

Logins  == part = "logins" /\ LoginNext
           /\ UNCHANGED <<part, auths, sessionRows, passkeys, splits, stores, memory, others>>
Auth    == part = "auth" /\ AuthNext
           /\ UNCHANGED <<part, kind, logins, sessionRows, passkeys, splits, stores, memory, others>>
Passkey == part = "passkeys" /\ PasskeyNext
           /\ UNCHANGED <<part, accounts, splits, stores, memory, others>>
Split   == part = "split" /\ SplitNext
           /\ UNCHANGED <<part, accounts, passkeys, stores, memory, others>>
Vaults  == part = "vault" /\ VaultNext
           /\ UNCHANGED <<part, accounts, passkeys, splits, contents, contacts, embeds, storeVars, secretVars,
                         memory, others>>
Content == part = "contents" /\ ContentNext
           /\ UNCHANGED <<part, accounts, passkeys, splits, vault, contacts, embeds, storeVars, secretVars,
                         memory, others>>
Contact == part = "contacts" /\ ContactsNext
           /\ UNCHANGED <<part, accounts, passkeys, splits, vault, contents, embeds, storeVars, secretVars,
                         memory, others>>
Embed   == part = "embeds" /\ EmbedsNext
           /\ UNCHANGED <<part, accounts, passkeys, splits, vault, contents, contacts, storeVars, secretVars,
                         memory, others>>
Session == part = "sessions" /\ SessionsNext
           /\ UNCHANGED <<part, kind, logins, auths, passkeys, splits, stores, memory, others>>
Bucket  == part = "store" /\ StoreNext
           /\ UNCHANGED <<part, accounts, passkeys, splits, vault, contents, contacts, embeds, secretVars,
                         memory, others>>
Secret  == part = "secrets" /\ SecretsNext
           /\ UNCHANGED <<part, accounts, passkeys, splits, vault, contents, contacts, embeds, storeVars,
                         memory, others>>

\* These have no handler of a request, or keep its state themselves.
Handlerless == UNCHANGED <<part, requests, accounts, passkeys, splits, stores>>

Call    == part = "calls" /\ CallsNext /\ Handlerless /\ UNCHANGED <<priceVars, others>>
Price   == part = "prices" /\ PriceNext /\ Handlerless /\ UNCHANGED <<callVars, others>>
Address == part = "addresses" /\ AddressesNext /\ Handlerless
           /\ UNCHANGED <<memory, zcashVars, watchVars>>
Zcash   == part = "zcash" /\ ZcashNext /\ Handlerless
           /\ UNCHANGED <<memory, addressVars, watchVars>>
Watch   == part = "watch" /\ WatchNext /\ Handlerless
           /\ UNCHANGED <<memory, addressVars, zcashVars>>

Next == \/ Logins \/ Auth \/ Passkey \/ Split \/ Vaults \/ Content \/ Contact \/ Embed
        \/ Call \/ Price \/ Address \/ Zcash \/ Watch
        \/ Session \/ Bucket \/ Secret

\* This asks nothing of the other parts: no step of a login is enabled in them.
Spec == Init /\ [][Next]_allVars /\ LoginFairness

MCKinds == AllKinds
MCCounted == {"login"}
MCSizes == [i \in Items |-> 1]
MCNewId(h) == h
MCLengths == {1, 2}
MCTxOf == (paid1 :> "first") @@ (paid2 :> "first") @@ (paid3 :> "second")
MCPrices == {0, 200, 201, 202}
=============================================================================
