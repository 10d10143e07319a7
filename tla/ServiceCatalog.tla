--------------------------- MODULE ServiceCatalog ---------------------------
(***************************************************************************)
(* A seller's standing on the marketplace's server: the Agent ID, the       *)
(* profile with its directory category, the x402 listing and the services.  *)
(* Several commands of one seller run side by side (t2 agent, t2 service,   *)
(* the SDK's CommerceClient).  A write is a challenge, a signature and a    *)
(* post, each an await of its own, and service create merges into a row it  *)
(* read some awaits earlier.  What the server does with a post is modelled  *)
(* from the client's side of it.                                            *)
(***************************************************************************)
EXTENDS Integers, Sequences

CONSTANTS
  Command,        \* commands under way at once
  Slug,
  Offer,          \* what every create names: texts, price, SLA, questions
  Listable,       \* the offers with a price and an SLA within the bounds
  Terms,          \* review window and reject split, which may be left out
  DefaultTerms,
  AGENT_CATEGORIES,
  Endpoint,
  Omitted,        \* undefined, and a row that is not there
  Tiers,          \* slugs of a package's tiers, Basic first
  Request,        \* the commands a seller may type
  InitialListings, InitialStanding

ASSUME CatalogAssumption ==
  /\ Listable \subseteq Offer /\ DefaultTerms \in Terms
  /\ Tiers \in Seq(Slug) /\ Tiers # <<>>
  /\ \A ask \in Request : ask.verb \in {"create", "upsert", "retire"} => ask.slug \in Slug
  /\ \A table \in InitialListings :
       DOMAIN table = Slug /\ \A s \in Slug : table[s] # Omitted => table[s].terms \in Terms
  /\ Omitted \notin Offer \union Terms \union AGENT_CATEGORIES \union Endpoint

VARIABLES
  listings,   \* the server's service rows of this seller
  standing,   \* the server's agent row: Agent ID, profile category, endpoint
  run         \* per command: how far it is, and what it goes by

catalogVars == <<listings, standing, run>>

Live(row) == row # Omitted /\ ~row.retired

NoAsk == [verb |-> "none", slug |-> Omitted, offer |-> Omitted, terms |-> Omitted,
          category |-> Omitted, endpoint |-> Omitted]

\* writes: signed posts still to make.  seen, before, got, history: the row
\* when the command read the catalog, just before its post and just after.
Fresh == [pc |-> "idle", ask |-> NoAsk, writes |-> <<>>,
          seen |-> Omitted, before |-> Omitted, got |-> Omitted]

CatalogInit ==
  /\ listings \in InitialListings
  /\ standing \in InitialStanding
  /\ run = [c \in Command |-> Fresh]

Becomes(c, pc) == run' = [run EXCEPT ![c].pc = pc]
Throws(c) == Becomes(c, "failed") /\ UNCHANGED <<listings, standing>>

ProfileWrite(category) == [to |-> "profile", category |-> category]
RetireWrite(slug) == [to |-> "retire", slug |-> slug]

\* The payload of an upsert.  The SDK names every field it sends: what was left
\* out gets the defaults, and a category is not among them.
ServiceUpsert(mode, slug, offer, terms, category) ==
  [to |-> "upsert", mode |-> mode, slug |-> slug, offer |-> offer, terms |-> terms,
   category |-> category]

serviceUpsertPayload(w) ==
  [w EXCEPT !.terms = IF @ = Omitted THEN DefaultTerms ELSE @, !.category = Omitted]

----------------------------------------------------------------------------
\* A command starts.  Arguments are checked before the wallet is loaded.
parseCategory(category) == category \in AGENT_CATEGORIES \union {Omitted}

planPackage(ask) ==
  [i \in DOMAIN Tiers |->
     serviceUpsertPayload(ServiceUpsert("create", Tiers[i], ask.offer, ask.terms, Omitted))]

\* The signed posts a command has settled on when it starts: none for those that
\* read first.  A category given to sell is written without a look at the profile.
FirstWrites(ask) ==
  CASE ask.verb = "upsert" ->
         <<serviceUpsertPayload(ServiceUpsert("update", ask.slug, ask.offer, ask.terms, Omitted))>>
    [] ask.verb = "package" -> planPackage(ask)
    [] ask.verb = "retire" -> <<RetireWrite(ask.slug)>>
    [] ask.verb = "profile" \/ (ask.verb = "sell" /\ ask.category # Omitted) ->
         <<ProfileWrite(ask.category)>>
    [] OTHER -> <<>>

Begin(c, verb, pc) ==
  /\ run[c].pc = "idle"
  /\ \E ask \in Request :
       /\ ask.verb = verb
       /\ parseCategory(ask.category)
       /\ run' = [run EXCEPT ![c] =
            [Fresh EXCEPT !.pc = pc, !.ask = ask, !.writes = FirstWrites(ask)]]
  /\ UNCHANGED <<listings, standing>>

service_create(c) ==
  /\ Begin(c, "create", "gate")
  /\ run'[c].ask.offer \in Listable

upsertService(c) == Begin(c, "upsert", "challenge")

createPackage(c) == Begin(c, "package", "challenge")

service_retire(c) == Begin(c, "retire", "challenge")

agent_profile(c) == Begin(c, "profile", "challenge")

agent_register(c) == Begin(c, "register", "register")

agent_create(c) == Begin(c, "agent create", "register")

agent_sell(c) ==
  \/ Begin(c, "remove", "endpoint")
  \/ Begin(c, "sell", "gate") /\ run'[c].ask.category = Omitted
  \/ Begin(c, "sell", "challenge") /\ run'[c].ask.category # Omitted

----------------------------------------------------------------------------
\* The sell gate: the profile's category, or none when the read fails.  With
\* none there, a category named on the command line is written to the profile.
ensureSellerCategory(c) ==
  /\ run[c].pc = "gate"
  /\ \E read \in BOOLEAN :
       LET ask == run[c].ask
           existing == IF read /\ standing.registered THEN standing.category ELSE Omitted
           next == IF ask.verb = "create" THEN "read" ELSE "endpoint"
       IN  run' = [run EXCEPT ![c] =
             CASE existing # Omitted -> [@ EXCEPT !.pc = next]
               [] existing = Omitted /\ ask.category # Omitted ->
                    [@ EXCEPT !.pc = "challenge", !.writes = <<ProfileWrite(ask.category)>>]
               [] OTHER -> [@ EXCEPT !.pc = "failed"]]
  /\ UNCHANGED <<listings, standing>>

\* Plausible bug: the defaults replace what is left out of an update, too.
mergeServiceUpsert_Defaults(ask, live) ==
  LET payload == ServiceUpsert("update", ask.slug, ask.offer,
                               IF ask.terms # Omitted THEN ask.terms ELSE DefaultTerms, ask.category)
  IN  [payload |-> payload, noop |-> FALSE]

\* What is left out keeps the live row's value.  Nothing is written when
\* nothing differs, unless the row is retired: then the write revives it.
mergeServiceUpsert(ask, live) ==
  LET terms == IF ask.terms # Omitted THEN ask.terms
               ELSE IF live # Omitted THEN live.terms ELSE DefaultTerms
      payload == ServiceUpsert("update", ask.slug, ask.offer, terms, ask.category)
  IN  [payload |-> payload,
       noop |-> /\ Live(live)
                /\ live.offer = ask.offer /\ live.terms = terms
                /\ ask.category \in {Omitted, live.category}]

\* The catalog is read and merged into; a read that fails signs nothing.
MergeInto(c) ==
  /\ run[c].pc = "read"
  /\ LET ask == run[c].ask
         merged == mergeServiceUpsert(ask, listings[ask.slug])
     IN  \/ Becomes(c, "failed")
         \/ run' = [run EXCEPT ![c] =
              IF merged.noop THEN [@ EXCEPT !.pc = "noop"]
              ELSE [@ EXCEPT !.pc = "challenge", !.seen = listings[ask.slug],
                             !.writes = <<serviceUpsertPayload(merged.payload)>>]]
  /\ UNCHANGED <<listings, standing>>

----------------------------------------------------------------------------
\* A nonce is fetched and signed over.
signChallenge(c) ==
  /\ run[c].pc = "challenge"
  /\ \/ Becomes(c, "post")
     \/ Becomes(c, "failed")
  /\ UNCHANGED <<listings, standing>>

\* External: mode "create" is refused a live slug, a category left out keeps the
\* row's own, and only a row that is there can be retired.
Accepts(w) ==
  CASE w.to = "profile" -> standing.registered
    [] w.to = "upsert"  -> w.mode = "create" => ~Live(listings[w.slug])
    [] w.to = "retire"  -> listings[w.slug] # Omitted

Stored(w) ==
  LET row == listings[w.slug]
  IN  IF w.to = "retire" THEN [row EXCEPT !.retired = TRUE]
      ELSE [offer |-> w.offer, terms |-> w.terms, retired |-> FALSE,
            category |-> IF w.category = Omitted /\ row # Omitted THEN row.category ELSE w.category]

\* Where a command goes once a write of it is answered.
AfterWrite(r) ==
  CASE Len(r.writes) > 1                                 -> "challenge"
    [] r.ask.verb = "create" /\ r.writes[1].to = "profile" -> "read"
    [] r.ask.verb = "sell"                                 -> "endpoint"
    [] OTHER                                               -> "done"

\* The post is refused or never arrives, or it takes effect and the answer
\* comes, or is lost on the way.
PostSigned(c) ==
  /\ run[c].pc = "post"
  /\ LET w == run[c].writes[1]
         after == [run[c] EXCEPT !.pc = AfterWrite(run[c]), !.writes = Tail(@)]
     IN  \/ Throws(c)
         \/ /\ Accepts(w)
            /\ \E answered \in BOOLEAN :
                 LET r == IF answered THEN after ELSE [after EXCEPT !.pc = "failed"]
                 IN  IF w.to = "profile"
                       THEN /\ standing' = [standing EXCEPT !.category =
                                            IF w.category = Omitted THEN @ ELSE w.category]
                            /\ run' = [run EXCEPT ![c] = r]
                            /\ UNCHANGED listings
                       ELSE /\ listings' = [listings EXCEPT ![w.slug] = Stored(w)]
                            /\ run' = [run EXCEPT ![c] =
                                 [r EXCEPT !.before = listings[w.slug], !.got = Stored(w)]]
                            /\ UNCHANGED standing

----------------------------------------------------------------------------
\* The sponsored registry writes: prepared, guarded, signed, submitted.  A
\* wallet that is registered signs nothing; agent create goes on to the profile.
registerAgent(c) ==
  /\ run[c].pc = "register"
  /\ \/ Throws(c)
     \/ /\ standing' = [standing EXCEPT !.registered = TRUE]
        /\ run' = [run EXCEPT ![c] =
             IF @.ask.verb = "register" THEN [@ EXCEPT !.pc = "done"]
             ELSE [@ EXCEPT !.pc = "challenge",
                            !.writes = <<ProfileWrite(run[c].ask.category)>>]]
        /\ UNCHANGED listings
     \/ /\ ~standing.registered
        /\ standing' = [standing EXCEPT !.registered = TRUE]
        /\ Becomes(c, "failed")
        /\ UNCHANGED listings

\* listEndpoint, removeEndpoint: the probe may refuse; only an Agent ID lists.
setEndpoint(c) ==
  /\ run[c].pc = "endpoint"
  /\ \/ Throws(c)
     \/ /\ standing.registered
        /\ standing' = [standing EXCEPT !.endpoint = run[c].ask.endpoint]
        /\ Becomes(c, "done") \/ Becomes(c, "failed")
        /\ UNCHANGED listings

CatalogNext ==
  \E c \in Command :
    \/ service_create(c) \/ upsertService(c) \/ createPackage(c) \/ service_retire(c)
    \/ agent_profile(c) \/ agent_register(c) \/ agent_create(c) \/ agent_sell(c)
    \/ ensureSellerCategory(c)
    \/ MergeInto(c)
    \/ signChallenge(c)
    \/ PostSigned(c)
    \/ registerAgent(c)
    \/ setEndpoint(c)

CatalogSpec == CatalogInit /\ [][CatalogNext]_catalogVars

----------------------------------------------------------------------------
\* A re-run of service create that changed only the price once reset the rest
\* of the listing: an update that no other command overtook since it read the
\* row keeps what it did not name, whatever fails on the way, and a package
\* replaces no live listing, whoever listed its slugs meanwhile.
ListingsChangeAsAsked ==
  \A c \in Command :
    LET r == run[c] IN
    r.got # Omitted =>
      /\ r.ask.verb = "package" => ~Live(r.before)
      /\ r.ask.verb = "create" /\ r.before # Omitted /\ r.before = r.seen =>
           /\ r.got.terms = IF r.ask.terms = Omitted THEN r.before.terms ELSE r.ask.terms
           /\ r.ask.category = Omitted => r.got.category = r.before.category

\* "--category is THIS listing's aisle (override)" (service.ts): a listing that
\* was created or updated with a category, and reported as listed, has it.
CategoryTakesEffect ==
  \A c \in Command :
    LET r == run[c] IN
    r.pc = "done" /\ r.ask.verb = "create" /\ r.ask.category # Omitted =>
      r.got.category = r.ask.category
=============================================================================
