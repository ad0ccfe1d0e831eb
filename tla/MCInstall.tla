------------------------------ MODULE MCInstall -------------------------------
(* A finite instance of Install: a quotation with an item table and a link to *)
(* a currency, in source trees where the tables and links form cycles, a file *)
(* is missing, a fieldtype is unknown or a field was added.                   *)
EXTENDS Install, TLC

CONSTANTS quotation, item, currency

MCDoctypes == {quotation, item, currency}
MCFieldNames == {"items", "currency", "party", "symbol"}

F(name, kind, options) == [name |-> name, kind |-> kind, options |-> options]

QuotationFields ==
    {F("items", "Table", item), F("party", "Dynamic Link", "symbol"),
     F("symbol", "Section Break", NoType)}
ItemFields == {F("items", "Table MultiSelect", quotation), F("currency", "Link", currency)}
CurrencyFields == {F("symbol", "Data", NoType)}

TreeOf(json, q, i, c) ==
    [json |-> json,
     fields |-> [d \in MCDoctypes |-> CASE d = quotation -> q [] d = item -> i [] OTHER -> c]]

Base == TreeOf(MCDoctypes, QuotationFields, ItemFields, CurrencyFields)
\* The currency is a Frappe-core doctype without a file.
NoCurrency == TreeOf({quotation, item}, QuotationFields, ItemFields, {})
\* The quotation's child table has no file, the currency an unknown fieldtype.
Broken ==
    TreeOf({quotation, currency}, QuotationFields, {},
           CurrencyFields \cup {F("party", "Nonsense", NoType)})
\* A later release: the currency links back and an item has a new field.
Later ==
    TreeOf(MCDoctypes, QuotationFields, ItemFields \cup {F("symbol", "Data", NoType)},
           CurrencyFields \cup {F("party", "Link", quotation)})
MCTrees == {Base, NoCurrency, Broken, Later}
MCOneTree == {Base}

C(mode, act, seed) == [mode |-> mode, act |-> act, seeds |-> {seed}]
MCCommands ==
    {C("stub-deps", "apply", quotation), C("stub-deps", "apply", currency),
     C("closure", "apply", item), C("no-closure", "apply", currency),
     C("stub-deps", "emit", item)}
MCApply == {C("stub-deps", "apply", quotation), C("stub-deps", "apply", currency)}

==============================================================================
