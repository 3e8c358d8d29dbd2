-------------------------------- MODULE Browsing --------------------------------
(***************************************************************************)
(* The product listing.  The filters live twice, in the page's address and *)
(* in the Redux store: one effect copies a new address to the store, one   *)
(* copies new filters to the address.  The store is rendered at once; the  *)
(* router commits an address later, in a transition, and what is done in   *)
(* between still sees the old one.                                         *)
(*                                                                         *)
(* Categories, colours, sizes, brands, food types and the rating are one   *)
(* set of choices; a price is "unset" (the store's initial range), "all"   *)
(* (the span of the catalogue) or a narrower range.  The page stays open.  *)
(*                                                                         *)
(* Sources: client/src/pages/Products/ProductsPage.tsx,                    *)
(* components/ProductFilters/, features/products/productSlice.ts,          *)
(* filterUtils.ts, hooks/useProducts.ts, hooks/useDebounce.ts,             *)
(* components/Layout/Header.tsx.                                           *)
(***************************************************************************)
EXTENDS Naturals, Sequences

CONSTANTS
  Facets,  \* what the filters can pick
  Sorts, Newest, \* the orders of the list, and the one it opens with
  MaxMoves, \* bound: what the shopper does
  None

VARIABLES
  address, \* the URL as rendered: [lists, price, search, sort, page]
  entries, here, \* the browser's history, and where it stands
  moving,  \* the history is ahead of what is rendered
  filters, \* Redux: [lists, price, search, sort]
  catalog, \* the span of the catalogue is known
  debouncedPrice, \* the price the query asks for, behind by 400 ms
  moves,
  wanted   \* what should be picked: the choices last asked for, or None when they
           \* met a change that had not reached the address yet

browsingVars ==
  <<address, entries, here, moving, filters, catalog, debouncedPrice, moves, wanted>>

Ranges == {"low"}
Active(p) == p \in Ranges

Bare == [lists |-> {}, price |-> None, search |-> "", sort |-> Newest, page |-> FALSE]

Init ==
  /\ address = Bare /\ entries = <<Bare>> /\ here = 1 /\ moving = FALSE
  /\ filters = [lists |-> {}, price |-> "unset", search |-> "", sort |-> Newest]
  /\ catalog = FALSE /\ debouncedPrice = "unset"
  /\ moves = 0 /\ wanted = {}

-----------------------------------------------------------------------------
\* Mutant: it takes the lists from the address before this one.
FromUrlBefore(u) ==
  [lists |-> address.lists, price |-> IF u.price = None THEN filters.price ELSE u.price,
   search |-> u.search, sort |-> u.sort]

\* The effect on the address: what the store takes from it.  The price stays when the
\* address names none.
FromUrl(u) ==
  [lists |-> u.lists, price |-> IF u.price = None THEN filters.price ELSE u.price,
   search |-> u.search, sort |-> u.sort]

\* Mutant: lists are only added to the address, and a search it has is kept.
TowardAppending(f, u) ==
  [lists |-> u.lists \union f.lists, price |-> IF Active(f.price) THEN f.price ELSE None,
   search |-> IF f.search = "" THEN u.search ELSE f.search,
   sort |-> u.sort, page |-> TRUE]

\* The effect on the filters: the address they make of u.  A search can be set there,
\* never removed.
Toward(f, u) ==
  [lists |-> f.lists, price |-> IF Active(f.price) THEN f.price ELSE None,
   search |-> IF f.search = "" THEN u.search ELSE f.search,
   sort |-> u.sort, page |-> TRUE]

\* An event that dispatches the filters f while u is rendered, after sending the
\* history h where it wants: the store renders, and the effect follows it when the
\* filters have changed.
Pushed(h, u) == Append(h, u)
Dispatch(f, u, h, going) ==
  /\ filters' = f
  /\ IF f # filters
     THEN entries' = Pushed(h, Toward(f, u)) /\ moving' = TRUE
     ELSE entries' = h /\ moving' = going
  /\ here' = Len(entries')

Kept == SubSeq(entries, 1, here)
ShopperMoves == moves < MaxMoves /\ moves' = moves + 1
Wants(s) == wanted' = IF moving THEN None ELSE s

-----------------------------------------------------------------------------
\* ProductFilters: the store alone is told.
Toggle(c) ==
  /\ ShopperMoves /\ catalog
  /\ LET s == IF c \in filters.lists THEN filters.lists \ {c} ELSE filters.lists \union {c}
     IN Dispatch([filters EXCEPT !.lists = s], address, Kept, moving) /\ Wants(s)
  /\ UNCHANGED <<address, catalog, debouncedPrice>>
SlidePrice(p) ==
  /\ ShopperMoves /\ catalog
  /\ Dispatch([filters EXCEPT !.price = p], address, Kept, moving)
  /\ Wants(wanted)
  /\ UNCHANGED <<address, catalog, debouncedPrice>>
Cleared ==
  [lists |-> {}, price |-> IF catalog THEN "all" ELSE "unset", search |-> "", sort |-> Newest]
Filtered == filters.lists # {} \/ Active(filters.price)
ClearPanel ==
  /\ ShopperMoves /\ catalog /\ (Filtered \/ filters.search # "")
  /\ Dispatch(Cleared, address, Kept, moving) /\ Wants({})
  /\ UNCHANGED <<address, catalog, debouncedPrice>>

\* AppliedFilters and the page's own buttons: the store is told, and the address sent
\* on from the one rendered.
Both(f, u) ==
  /\ ShopperMoves
  /\ Dispatch(f, address, Pushed(Kept, u), TRUE)
  /\ UNCHANGED <<address, catalog, debouncedPrice>>
RemoveChoice(c) ==
  /\ c \in filters.lists
  /\ LET s == address.lists \ {c} IN
     Both([filters EXCEPT !.lists = s], [address EXCEPT !.lists = s, !.page = TRUE])
  /\ Wants(filters.lists \ {c})
RemovePrice ==
  /\ Active(filters.price)
  /\ Both([filters EXCEPT !.price = "all"], [address EXCEPT !.price = None, !.page = TRUE])
  /\ Wants(wanted)
ClearSearch ==
  /\ address.search # ""
  /\ Both([filters EXCEPT !.search = ""], [address EXCEPT !.search = "", !.page = TRUE])
  /\ Wants(wanted)
ClearAll ==
  /\ Filtered \/ address.search # ""
  /\ Both(Cleared, Bare) /\ Wants({})

\* handleSortChange: the address alone.
HandleSortChange(s) ==
  /\ ShopperMoves /\ s # address.sort
  /\ entries' = Pushed(Kept, [address EXCEPT !.sort = s, !.page = TRUE])
  /\ here' = Len(entries') /\ moving' = TRUE /\ Wants(address.lists)
  /\ UNCHANGED <<address, filters, catalog, debouncedPrice>>

\* The header's categories and its search box; the browser's back and forward.  These
\* come once the last address is rendered (simplification).
FollowLink(u) ==
  /\ ~moving /\ ShopperMoves
  /\ entries' = Pushed(Kept, u) /\ here' = Len(entries') /\ moving' = TRUE
  /\ Wants(u.lists)
  /\ UNCHANGED <<address, filters, catalog, debouncedPrice>>
Links == {[Bare EXCEPT !.lists = {c}] : c \in Facets} \union {[Bare EXCEPT !.search = "x"]}
Travel(to) ==
  /\ ~moving /\ ShopperMoves /\ to \in DOMAIN entries \ {here}
  /\ here' = to /\ moving' = TRUE /\ Wants(entries[to].lists)
  /\ UNCHANGED <<address, entries, filters, catalog, debouncedPrice>>

-----------------------------------------------------------------------------
\* The router commits the address it stands at; a new one sets the first effect off.
AddressRendered ==
  /\ moving
  /\ address' = entries[here]
  /\ IF address' = address
     THEN moving' = FALSE /\ UNCHANGED <<entries, here, filters>>
     ELSE LET f == FromUrl(entries[here]) IN
          /\ filters' = f
          /\ IF f # filters
             THEN /\ entries' = Pushed(Kept, Toward(f, entries[here]))
                  /\ here' = Len(entries') /\ moving' = TRUE
             ELSE moving' = FALSE /\ UNCHANGED <<entries, here>>
  /\ UNCHANGED <<catalog, debouncedPrice, moves, wanted>>
\* The first answer brings the span of the catalogue; a price never set follows it.
CatalogArrives ==
  /\ ~catalog /\ catalog' = TRUE
  /\ IF address.price = None /\ filters.price = "unset"
     THEN Dispatch([filters EXCEPT !.price = "all"], address, Kept, moving)
     ELSE UNCHANGED <<filters, entries, here, moving>>
  /\ Wants(wanted)
  /\ UNCHANGED <<address, debouncedPrice, moves>>
Debounced ==
  /\ debouncedPrice # filters.price
  /\ debouncedPrice' = filters.price
  /\ UNCHANGED <<address, entries, here, moving, filters, catalog, moves, wanted>>

Next ==
  \/ \E c \in Facets : Toggle(c) \/ RemoveChoice(c)
  \/ \E p \in Ranges \union {"all"} : SlidePrice(p)
  \/ ClearPanel \/ RemovePrice \/ ClearSearch \/ ClearAll
  \/ \E s \in Sorts : HandleSortChange(s)
  \/ \E u \in Links : FollowLink(u)
  \/ \E to \in DOMAIN entries : Travel(to)
  \/ AddressRendered \/ CatalogArrives \/ Debounced

Spec == Init /\ [][Next]_browsingVars

-----------------------------------------------------------------------------
\* What useProducts asks the server for: lists of the address, or the store's when the
\* address has none.
Asked ==
  [lists |-> IF address.lists # {} THEN address.lists ELSE filters.lists,
   price |-> IF Active(debouncedPrice) THEN debouncedPrice ELSE None,
   search |-> address.search, sort |-> address.sort]

Quiet == ~moving /\ debouncedPrice = filters.price

\* Once the page is quiet, the choices shown as picked, those of the address and those
\* the products were asked for are the ones last wanted, and a price the address
\* names is the one asked for.
PickedAsWanted ==
  Quiet =>
    /\ address.lists = filters.lists /\ Asked.lists = filters.lists
    /\ wanted \in {None, filters.lists}
    /\ address.price \in {None, Asked.price}

\* The two copies stop following each other: nothing the shopper does adds more than
\* three addresses to the history, and opening the page no more than one.
CopiesSettle == Len(entries) <= 2 + 3 * moves

\* The filters of the catalogue end as they were picked, and their copies come to rest.
CatalogueSettles == PickedAsWanted /\ CopiesSettle
=============================================================================
