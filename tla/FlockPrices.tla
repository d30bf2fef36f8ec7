----------------------------- MODULE FlockPrices -----------------------------
(***************************************************************************)
(* Market prices (packages/sdk/src/prices.ts): one request, made again     *)
(* while it fails, and what is read out of the answer.  The keeper and the *)
(* command line fetch prices between reading the chain and acting on it.   *)
(*                                                                         *)
(* An answer gives each mint its price in FINE-ths of the fixed-point      *)
(* unit, 0 for a mint it does not price or prices unusably, and None where *)
(* the entry of the mint is null.                                          *)
(***************************************************************************)
EXTENDS FlockIndex

CONSTANTS
  MAX_ATTEMPTS,      \* attempts of getJson
  MarketChoices,     \* answers of the market API
  FINE               \* how finely an answer divides a fixed-point unit

ASSUME PricesAssumption ==
  /\ MAX_ATTEMPTS \in Nat \ {0}
  /\ FINE \in Nat \ {0}
  /\ MarketChoices \subseteq [Mints -> Nat \cup {None}]

VARIABLES
  attempt,           \* of the request that is being made
  market             \* what was fetched; 0 for a mint that is not priced

priceVars == <<attempt, market>>

NoPrices == [c \in Mints |-> 0]

\* Math.round of a number given in FINE-ths.
Rounded(x) == (2 * x + FINE) \div (2 * FINE)

\* A real price never becomes zero.
toPriceE9(usd) == IF Rounded(usd) = 0 THEN 1 ELSE Rounded(usd)

\* parsePriceResponse reads a field of every entry: one that is null throws,
\* outside the loop that retries.
Readable(answer) == \A c \in Mints : answer[c] # None
parsePriceResponse(answer) ==
  [c \in Mints |-> IF answer[c] = 0 THEN 0 ELSE toPriceE9(answer[c])]

FetchPrices(answer) ==
  /\ Readable(answer)
  /\ market' = parsePriceResponse(answer)
  /\ attempt' = 0

\* getJson, attempts left: whatever went wrong is caught, waited out and
\* tried again.  A status that says the request itself is wrong is thrown
\* inside the try that catches it, and is tried again too.
RetryRequest ==
  /\ attempt + 1 < MAX_ATTEMPTS
  /\ attempt' = attempt + 1
  /\ UNCHANGED market

\* No attempt left, or an answer that cannot be read: an exception.
FetchThrows ==
  \/ attempt + 1 = MAX_ATTEMPTS
  \/ \E answer \in MarketChoices : ~Readable(answer)

\* What the caller is left with: nothing.
NothingFetched == attempt' = 0 /\ market' = NoPrices
==============================================================================
