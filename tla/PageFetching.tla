---------------------------- MODULE PageFetching ----------------------------
(***************************************************************************)
(* One call of HttpxPageFetcher (crawler/http_fetcher.py): the status and   *)
(* the headers of the answer are judged, then the body is read chunk by     *)
(* chunk.  The server decides what it declares and what it sends; httpx     *)
(* hands over decoded bytes, so a compressed body may be longer than its    *)
(* declared length.                                                          *)
(***************************************************************************)
EXTENDS Naturals

CONSTANTS
  MaxResponseBytes,   \* WORKER_MAX_RESPONSE_BYTES
  ChunkSizes,         \* sizes of the chunks httpx hands over
  DeclaredLengths,    \* content-length headers that are numbers
  NoLength,           \* no content-length, or one that is not a number
  MaxArrived          \* bound on the bytes a server sends

ASSUME FetchAssumption ==
  /\ MaxResponseBytes \in Nat \ {0} /\ MaxArrived \in Nat
  /\ ChunkSizes \subseteq Nat /\ DeclaredLengths \subseteq Nat
  /\ NoLength \notin Nat

VARIABLES
  fetching, \* "request", "body", "returned" or "failed"
  fetched,  \* fetched_bytes
  body,     \* bytes in body_chunks
  arrived   \* history: bytes handed over before the body ended

fetchVars == <<fetching, fetched, body, arrived>>

FetchInit == fetching = "request" /\ fetched = 0 /\ body = 0 /\ arrived = 0

FailureKinds == {"redirect", "status", "content type"}

\* A length that is not a number is no length.
DeclaredTooLarge(length) == length # NoLength /\ length > MaxResponseBytes

\* Redirects are not followed, and only successful HTML or XHTML is read.
Headers ==
  /\ fetching = "request"
  /\ \E length \in DeclaredLengths \cup {NoLength}, flaw \in FailureKinds \cup {"none"} :
       fetching' = IF flaw # "none" \/ DeclaredTooLarge(length) THEN "failed" ELSE "body"
  /\ UNCHANGED <<fetched, body, arrived>>

\* Mutated form of TooLarge: the declared length has been checked.
TrustedLength(n) == FALSE

TooLarge(n) == n > MaxResponseBytes

\* The chunk is counted before it is kept.
Chunk(n) ==
  /\ fetching = "body" /\ arrived + n <= MaxArrived
  /\ arrived' = arrived + n
  /\ fetched' = fetched + n
  /\ IF TooLarge(fetched + n)
     THEN fetching' = "failed" /\ UNCHANGED body
     ELSE body' = body + n /\ UNCHANGED fetching

\* HTTP_TIMEOUT or HTTP_REQUEST_ERROR.
RequestFails ==
  /\ fetching \in {"request", "body"}
  /\ fetching' = "failed"
  /\ UNCHANGED <<fetched, body, arrived>>

\* The body ended as the server framed it.
BodyEnds ==
  /\ fetching = "body"
  /\ fetching' = "returned"
  /\ UNCHANGED <<fetched, body, arrived>>

FetchNext ==
  \/ Headers
  \/ \E n \in ChunkSizes : Chunk(n)
  \/ RequestFails
  \/ BodyEnds

FetchSpec == FetchInit /\ [][FetchNext]_fetchVars

-----------------------------------------------------------------------------
(* Property *)

\* Whatever was declared, a fetch never holds more than the limit, and a page
\* it returns is not one it cut off: all that was handed over is in it and
\* is what it reports as fetched_bytes.
PageIsWholeAndBounded ==
  /\ body <= MaxResponseBytes
  /\ fetching = "returned" => body = arrived /\ fetched = arrived

=============================================================================
