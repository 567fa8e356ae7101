------------------------------- MODULE Records -------------------------------
(***************************************************************************)
(* A job as text: what the client sends, what a master forwards to a node, *)
(* what the primary replicates, and how each end takes fields out of it    *)
(* again (client.cpp, master/jobs, compute/jobs, and the helpers at the    *)
(* top of master.cpp and backup.cpp).                                      *)
(*                                                                         *)
(* No end has a JSON parser.  A field is looked for by the first place in  *)
(* the text where its name stands in quotes, whatever is meant by it.      *)
(*                                                                         *)
(* A text is a sequence of tokens: the characters the code tells apart and *)
(* whole words for the rest, field names among them.  Of the fields whose  *)
(* handling is the same, one stands for all: min_cores for the numbers,    *)
(* sender for the columns the program fills itself.                        *)
(***************************************************************************)
EXTENDS Integers, SequencesExt, FiniteSetsExt

Q == "quote"
BS == "backslash"
NL == "newline"
Comma == "comma"
Colon == "colon"
Open == "open"
Close == "close"

\* `key' is missing.
Missing == <<"missing">>

-----------------------------------------------------------------------------
(***************************************************************************)
(* Helpers                                                                 *)
(***************************************************************************)

\* Mutant of EscapeOf: quotes only.
EscapeOfQuoteOnly(token) ==
  CASE token = Q  -> <<BS, Q>>
    [] token = NL -> <<BS, "n">>
    [] OTHER      -> <<token>>

EscapeOf(token) ==
  CASE token = BS -> <<BS, BS>>
    [] token = Q  -> <<BS, Q>>
    [] token = NL -> <<BS, "n">>
    [] OTHER      -> <<token>>

json_escape(text) == FlattenSeq([i \in DOMAIN text |-> EscapeOf(text[i])])

json_unescape(text) ==
  LET Meant(token) == IF token = "n" THEN NL ELSE token
      From[i \in 1..(Len(text) + 1)] ==
        IF i > Len(text) THEN <<>>
        ELSE IF text[i] # BS \/ i = Len(text) THEN <<text[i]>> \o From[i + 1]
        ELSE <<Meant(text[i + 1])>> \o From[i + 2]
  IN  From[1]

\* string::find: the first position from `from' on, 0 for npos.
Find(text, pattern, from) ==
  LET places == {i \in from..(Len(text) - Len(pattern) + 1) :
                   \A k \in DOMAIN pattern : text[i + k - 1] = pattern[k]}
  IN  IF from = 0 \/ places = {} THEN 0 ELSE Min(places)

\* Behind the colon that follows the first "key", 0 if there is none.
ValueOf(text, key) ==
  LET name  == Find(text, <<Q, key, Q>>, 1)
      colon == Find(text, <<Colon>>, IF name = 0 THEN 0 ELSE name + 3)
  IN  IF colon = 0 THEN 0 ELSE colon + 1

\* Mutant of EndOfString: a backslash is like any other character.
EndOfStringRaw(text, from) ==
  LET quote == Find(text, <<Q>>, from)
  IN  IF quote = 0 THEN Len(text) + 1 ELSE quote

\* The quote that ends a string; a backslash hides the character behind it.
EndOfString(text, from) ==
  LET End[i \in 1..(Len(text) + 2)] ==
        IF i > Len(text) \/ text[i] = Q THEN i
        ELSE IF text[i] = BS THEN End[i + 2] ELSE End[i + 1]
  IN  End[from]

\* extract_optional_string, extract_string, get_string: the raw text between
\* the quotes.
ExtractString(text, key, fallback) ==
  LET quote == Find(text, <<Q>>, ValueOf(text, key))
      end   == EndOfString(text, quote + 1)
  IN  IF quote = 0 \/ end > Len(text) THEN fallback
      ELSE SubSeq(text, quote + 1, end - 1)

Numbers == {"1001", "2"}

\* extract_optional_int and its like.
ExtractInt(text, key, fallback) ==
  LET value == ValueOf(text, key)
  IN  IF value = 0 \/ value > Len(text) THEN fallback
      ELSE IF text[value] \in Numbers THEN <<text[value]>> ELSE fallback

Object(fields) ==
  <<Open>> \o FlattenSeq([i \in DOMAIN fields |->
                           IF i = 1 THEN fields[i] ELSE <<Comma>> \o fields[i]]) \o <<Close>>

StringField(key, text) == <<Q, key, Q, Colon, Q>> \o text \o <<Q>>
IntField(key, number) == <<Q, key, Q, Colon>> \o number

-----------------------------------------------------------------------------
(***************************************************************************)
(* The client                                                              *)
(***************************************************************************)

\* attach_port, attach_address, attach_upload: the fields go in front of the
\* last closing brace.
Attach(payload, fields) ==
  LET brace == Max({i \in DOMAIN payload : payload[i] = Close})
  IN  SubSeq(payload, 1, brace - 1)
        \o FlattenSeq([i \in DOMAIN fields |-> <<Comma>> \o fields[i]])
        \o SubSeq(payload, brace, Len(payload))

JobFile(name) == Object(<<StringField("name", name),
                          StringField("executable", <<"path">>),
                          IntField("min_cores", <<"2">>)>>)

\* `uploaded' is FALSE if the executable cannot be read: the client says so
\* and submits the job without it.  It is FALSE of an empty file too, whose
\* encoding is empty: an empty executable_b64 is to every reader what none is
\* (job.cpp:86, compute.cpp:326).
ClientPayload(name, uploaded) ==
  Attach(JobFile(name),
         <<StringField("client_callback_address", <<"address">>)>>
           \o IF uploaded THEN <<StringField("executable_b64", <<"code">>)>> ELSE <<>>)

-----------------------------------------------------------------------------
(***************************************************************************)
(* The masters                                                             *)
(***************************************************************************)

\* receive_job_from_client, and the callback address; Missing where the
\* parser throws.
ReceivedJob(payload) ==
  [name       |-> ExtractString(payload, "name", Missing),
   executable |-> ExtractString(payload, "executable", Missing),
   code       |-> ExtractString(payload, "executable_b64", <<>>),
   min_cores  |-> ExtractInt(payload, "min_cores", Missing),
   callback   |-> ExtractString(payload, "client_callback_address", <<"peer">>)]

Parses(job) == \A field \in DOMAIN job : job[field] # Missing

\* to_forward_payload: the texts go in as they were taken out.
ForwardPayload(job) ==
  Object(<<IntField("submission_id", <<"1001">>),
           StringField("sender", <<"sender">>),
           StringField("name", job.name),
           StringField("username", <<"host">>),
           StringField("executable", job.executable)>>
         \o (IF job.code = <<>> THEN <<>> ELSE <<StringField("executable_b64", job.code)>>)
         \o <<IntField("min_cores", job.min_cores)>>)

\* insert_job_log's replicate request, of a row that is PENDING.
InsertMessage(row) ==
  Object(<<StringField("request", <<"replicate">>),
           StringField("action", <<"insert">>),
           IntField("submission_id", <<"1001">>),
           StringField("job_name", json_escape(row.name)),
           StringField("sender", json_escape(<<"client-tcp">>)),
           StringField("response_status", json_escape(<<"PENDING">>)),
           StringField("client_callback_address", json_escape(row.callback)),
           StringField("forward_payload", json_escape(row.payload))>>)

\* The row of a replicate request, in handle_client of the backup.
ReplicatedRow(message) ==
  LET Text(key) == json_unescape(ExtractString(message, key, <<>>))
  IN  [name     |-> Text("job_name"),
       response |-> Text("response_status"),
       callback |-> Text("client_callback_address"),
       payload  |-> Text("forward_payload")]

-----------------------------------------------------------------------------
(***************************************************************************)
(* The compute node                                                        *)
(***************************************************************************)

\* receive_forwarded_job
ForwardedJob(payload) ==
  [sid        |-> ExtractInt(payload, "submission_id", Missing),
   name       |-> ExtractString(payload, "name", Missing),
   executable |-> ExtractString(payload, "executable", Missing),
   code       |-> ExtractString(payload, "executable_b64", <<>>),
   min_cores  |-> ExtractInt(payload, "min_cores", Missing)]
=============================================================================
