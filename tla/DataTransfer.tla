--------------------------- MODULE DataTransfer ---------------------------
(***************************************************************************)
(* What becomes of data on its way through the clipboard or a drag         *)
(* (HaikuDataDeviceManager.cpp): HaikuDataSource::ToMessage reads what a   *)
(* client offers and makes a BMessage of it for the applications of Haiku; *)
(* HaikuDataOffer::Create makes an offer to a client of a BMessage, be it  *)
(* one of these or one that an application wrote.                          *)
(*                                                                         *)
(* A message has, for each type of data, the values added to it in order;  *)
(* an empty value is not added.  What a source wrote for a type is named   *)
(* after the type; what the server makes of a link, of files and of a      *)
(* picture is named "link", "files", "picture".                            *)
(***************************************************************************)
EXTENDS Sequences

CONSTANTS
    Mime,     \* the types of data, of those below and others
    Untyped   \* names of string fields that are no types of data

Utf8 == "text/plain;charset=utf-8"
Utf8String == "UTF8_STRING"
Plain == "text/plain"
Uris == "text/uri-list"
Png == "image/png"
MozUrl == "text/x-moz-url"
Netscape == "_NETSCAPE_URL"
Html == "text/html"

Command == {"DELETE", "SAVE_TARGETS"}
Link == {Plain, Utf8, Uris, Netscape, MozUrl}
Unlinked == {"STRING", Netscape, MozUrl, Html, "application/x-moz-custom-clipdata", Uris}

ASSUME MimeAssumption == Link \cup {Png} \subseteq Mime /\ Untyped \cap Mime = {}

VARIABLES
    fMimeTypes, \* of the source
    message,    \* in the clipboard or dragged, or Nothing
    offer       \* made to a client, or Nothing

transferVars == <<fMimeTypes, message, offer>>

Nothing == <<>>
NoData == [m \in Mime |-> <<>>]

Has(data, m) == data[m] # <<>>
AddData(data, types, value) ==
    [m \in Mime |-> IF m \in types THEN Append(data[m], value) ELSE data[m]]

InitTransfer == fMimeTypes = {} /\ message = Nothing /\ offer = Nothing

CreateSource == fMimeTypes' = {} /\ message' = Nothing /\ offer' = Nothing

HandleOffer(m) ==
    /\ message = Nothing
    /\ fMimeTypes' = fMimeTypes \cup {m}
    /\ UNCHANGED <<message, offer>>
-----------------------------------------------------------------------------
(* From a client.  read: the types for which the source wrote something in  *)
(* time; link: its texts are the address of a page.                         *)

HasUrl(read, link) ==
    \/ read \cap {MozUrl, Netscape} # {}
    \/ link /\ read \cap {Utf8, Plain, Uris} # {}

(* The text for applications. *)
PlainText(read) ==
    CASE Utf8 \in read -> <<Utf8>>
      [] Utf8 \notin read /\ Utf8String \in read -> <<Utf8String>>
      [] read \cap {Utf8, Utf8String} = {} /\ Plain \in read -> <<Plain>>
      [] OTHER -> <<>>

(* Types that become a field of the same name. *)
Passed(read, link) ==
    read \ ({Utf8, Plain, Utf8String, Uris, Png} \cup
            (IF HasUrl(read, link) THEN Unlinked ELSE {}))

(* ConvertToHaikuMessage. *)
Converted(read, link) ==
    [raw |-> [m \in Mime |-> IF m \in read THEN <<m>> ELSE <<>>],
     data |-> [m \in Mime |-> CASE m = Plain -> PlainText(read)
                                [] m \in Passed(read, link) -> <<m>>
                                [] OTHER -> <<>>],
     strings |-> IF HasUrl(read, link) THEN Untyped ELSE {},
     also |-> (IF HasUrl(read, link) THEN {"originator", "META"} ELSE {}) \cup
              (IF Uris \in read /\ ~HasUrl(read, link) THEN {"refs"} ELSE {}) \cup
              (IF Png \in read THEN {"bitmap"} ELSE {})]

ToMessage(read, link) ==
    /\ message = Nothing /\ read \subseteq fMimeTypes \ Command
    /\ message' = [of |-> "client", offered |-> fMimeTypes, content |-> Converted(read, link)]
    /\ UNCHANGED <<fMimeTypes, offer>>

(* An application's message: data of some types, and more than that.  No    *)
(* source has a part in it.                                                 *)
CopyTypes(types, strings, also) ==
    /\ message = Nothing /\ fMimeTypes = {}
    /\ message' = [of |-> "application", offered |-> {},
                   content |-> [raw |-> NoData, data |-> AddData(NoData, types, "own"),
                                strings |-> strings, also |-> also]]
    /\ UNCHANGED <<fMimeTypes, offer>>
-----------------------------------------------------------------------------
(* To a client *)

(* An offer with data added for those of the types that have none. *)
Completed(o, types, value) ==
    LET missing == {m \in types : ~Has(o.fData, m)}
    IN  [types |-> o.types \cup missing, fData |-> AddData(o.fData, missing, value)]

Extended(o, types, value) ==
    [types |-> o.types \cup types, fData |-> AddData(o.fData, types, value)]

(* Faulty: data that applications do not read is not kept for the client. *)
OfferOfConverted(m) == [types |-> m.offered, fData |-> m.content.data]

(* A client's message keeps what the source wrote. *)
OfferOfClient(m) ==
    [types |-> m.offered, fData |-> [t \in Mime |-> m.content.data[t] \o m.content.raw[t]]]

OfferOfFields(content) ==
    LET types == {m \in Mime : Has(content.data, m)}
    IN  [types |-> types \cup content.strings \cup (IF Plain \in types THEN {Utf8} ELSE {}),
         fData |-> content.data]

OfferOfApplication(content) ==
    LET o1 == OfferOfFields(content)
        o2 == IF "originator" \in content.also THEN Extended(o1, Link, "link") ELSE o1
        o3 == IF "META" \in content.also THEN Completed(o2, Link, "link") ELSE o2
        o4 == IF {"refs", "bookmark"} \subseteq content.also THEN Completed(o3, Link, "link")
              ELSE o3
        o5 == IF "refs" \in content.also
              THEN Completed(Extended(o4, {Uris}, "files"), {Plain, Utf8}, "files") ELSE o4
    IN  IF "bitmap" \in content.also THEN Extended(o5, {Png}, "picture") ELSE o5

Create ==
    /\ message # Nothing /\ offer = Nothing
    /\ offer' = IF message.of = "client" THEN OfferOfClient(message)
                ELSE OfferOfApplication(message.content)
    /\ UNCHANGED <<fMimeTypes, message>>

(* Faulty: plain text is not taken for its own UTF-8 variant. *)
FoundExactly(fData, m) == m

(* The field HandleReceive looks for. *)
Found(fData, m) == IF m = Utf8 /\ ~Has(fData, Utf8) THEN Plain ELSE m

(* What HandleReceive writes. *)
Received(o, m) == IF Has(o.fData, Found(o.fData, m)) THEN Head(o.fData[Found(o.fData, m)])
                  ELSE "nothing"

NextTransfer ==
    \/ CreateSource
    \/ \E m \in Mime : HandleOffer(m)
    \/ \E read \in SUBSET fMimeTypes, link \in BOOLEAN : ToMessage(read, link)
    \/ \E types \in SUBSET (Mime \ Command), strings \in SUBSET Untyped,
          also \in SUBSET {"originator", "META", "refs", "bookmark", "bitmap"} :
             CopyTypes(types, strings, also)
    \/ Create

SpecTransfer == InitTransfer /\ [][NextTransfer]_transferVars
-----------------------------------------------------------------------------
(* Properties *)

Text == {Utf8, Utf8String, Plain}

(* What a client put there a client gets back, unchanged by the conversions *)
(* that are made for applications; plain text may come as one of its other  *)
(* variants.                                                                *)
OwnDataComesBack ==
    offer # Nothing /\ message.of = "client" =>
        \A m \in Mime : Has(message.content.raw, m) =>
            IF m = Plain THEN Received(offer, m) \in Text ELSE Received(offer, m) = m

(* A type that is offered for an application's message can be received,     *)
(* unless the name is that of a string field.                               *)
OfferedIsReceivable ==
    offer # Nothing /\ message.of = "application" =>
        \A m \in offer.types \ Untyped : Received(offer, m) # "nothing"
=============================================================================
