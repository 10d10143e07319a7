-------------------------- MODULE MCServiceCatalog --------------------------
(* Instances of ServiceCatalog for TLC.                                     *)
EXTENDS ServiceCatalog, TLC

CONSTANTS basic, standard, premium, cheap, dear, short, long, home, field, api,
          cmd1, cmd2

MCTiers == <<basic, standard, premium>>

Asked(verb, slug, offer, terms, category) ==
  [NoAsk EXCEPT !.verb = verb, !.slug = slug, !.offer = offer, !.terms = terms,
                !.category = category]

\* A price no job may have is asked for too, and a category nobody knows.
MCRequest ==
  {Asked("create", basic, o, t, k) : o \in {cheap, dear, "too cheap"}, t \in {Omitted, long},
                                   k \in {Omitted, field, "unknown"}}
  \union {Asked("create", basic, cheap, short, Omitted), Asked("upsert", basic, dear, Omitted, Omitted),
          Asked("package", Omitted, cheap, Omitted, Omitted), Asked("retire", basic, Omitted, Omitted, Omitted),
          Asked("profile", Omitted, Omitted, Omitted, home), Asked("register", Omitted, Omitted, Omitted, Omitted),
          Asked("agent create", Omitted, Omitted, Omitted, home), Asked("remove", Omitted, Omitted, Omitted, Omitted)}
  \union {[NoAsk EXCEPT !.verb = "sell", !.category = k, !.endpoint = api] : k \in {Omitted, field}}

Row(offer, terms, category, retired) ==
  [offer |-> offer, terms |-> terms, category |-> category, retired |-> retired]

MCListings ==
  {[s \in Slug |-> IF s = basic THEN row ELSE Omitted] :
     row \in {Omitted, Row(cheap, long, home, FALSE), Row(cheap, short, Omitted, TRUE)}}

MCStanding == [registered: {TRUE}, category: {Omitted, home}, endpoint: {Omitted}]
            \union [registered: {FALSE}, category: {Omitted}, endpoint: {Omitted}]

CommandSymmetry == Permutations(Command)
=============================================================================
