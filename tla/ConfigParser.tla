----------------------------- MODULE ConfigParser -----------------------------
(***************************************************************************)
(* parse_configuration() of ntrip2nats.cpp and of nats2ntrip.cpp: the same *)
(* parser with other sections.  A file is made up as it is read: each step *)
(* reads one of Lines, and the file may end anywhere.                      *)
(*                                                                         *)
(* A line is what the parsers tell apart after trimming, a record whose    *)
(* kind is                                                                 *)
(*   "blank"    an empty line or a comment;                                *)
(*   "section"  "[name]", or anything else that starts with '[' (then the  *)
(*              name is "malformed");                                      *)
(*   "option"   key=value;                                                 *)
(*   "url"      nats://host:port;                                          *)
(*   "account"  user:pass host:port, with "/" and a name, which may be     *)
(*              empty, unless the name is NoName;                          *)
(*   "word"     a single word without '=', '/' or ':'.                     *)
(* A value or port is what std::stoi makes of the text (NotANumber if it   *)
(* throws or stops before the end).                                        *)
(*                                                                         *)
(* Its names differ from those of BridgeMain, so that a module can speak   *)
(* of both.                                                                *)
(***************************************************************************)
EXTENDS Integers, Sequences

CONSTANTS Lines,        \* the lines that a file may have
          MaxLines      \* bound: the lines of a file

VARIABLES program,      \* whose parser it is
          file, section, configuration, outcome

parserVars == <<program, file, section, configuration, outcome>>

NoName == "no name"
NotANumber == -1

IntOptions == {"read_buffer_bytes", "reconnect_min_sec", "reconnect_max_sec"}

\* The defaults; the throughput is in units of 1024 bytes.
DefaultOptions == [read_buffer_bytes |-> 4096, reconnect_min_sec |-> 2,
                   reconnect_max_sec |-> 32, throughput_log_every_bytes |-> 100]

\* The sections of each program and what parses their lines.
Ntrip2NatsSections == [options |-> "options", nats_destinations |-> "servers",
                       ntrip_sources |-> "sources"]

Nats2NtripSections == [options |-> "options", nats_sources |-> "servers",
                       nats_mountpoints |-> "mountpoints",
                       ntrip_sources |-> "mountpoints",
                       ntrip_destinations |-> "destination"]

Sections == IF program = "ntrip2nats" THEN Ntrip2NatsSections ELSE Nats2NtripSections

\* The lists of a configuration; a destination is a list of at most one.
ListNames == {Sections[n] : n \in DOMAIN Sections} \ {"options"}

ParserInit ==
    /\ program \in {"ntrip2nats", "nats2ntrip"}
    /\ file = <<>>
    /\ section = "options"
    /\ configuration = [options |-> DefaultOptions,
                        lists |-> [n \in ListNames |-> <<>>]]
    /\ outcome = "reading"

------------------------------------------------------------------------------
(* The parsers of a line.  Nothing reads a configuration that was rejected.  *)

Reject == outcome' = "rejected" /\ UNCHANGED <<section, configuration>>

Keep(c) == configuration' = c /\ UNCHANGED <<section, outcome>>

\* parse_positive_int()
Positive(v) == v > 0

parse_section_header(l) ==
    IF l.name \in DOMAIN Sections
    THEN section' = Sections[l.name] /\ UNCHANGED <<configuration, outcome>>
    ELSE Reject

\* Faulty: one bit is lost.
Times1024Narrow(v) == ((v + 2^20) % 2^21) - 2^20

\* int * 1024U, stored back into a 32-bit int.  In units of 1024 bytes, which
\* is exact because every product is a multiple of them.
Times1024(v) == ((v + 2^21) % 2^22) - 2^21

parse_options_body_line(l) ==
    IF ~(l.kind = "option" /\ Positive(l.value)) THEN Reject
    ELSE IF l.key \in IntOptions
    THEN Keep([configuration EXCEPT !.options[l.key] = l.value])
    ELSE IF l.key = "throughput_log_kb"
    THEN Keep([configuration EXCEPT !.options.throughput_log_every_bytes =
                   Times1024(l.value)])
    ELSE Reject

\* What the parser of a list takes.  A mountpoint is a plain name: "key=value"
\* is one, a server or an account is not.
Fits(l) == CASE section = "servers" -> l.kind = "url" /\ Positive(l.port)
             [] section = "sources" ->
                    l.kind = "account" /\ l.name # NoName /\ Positive(l.port)
             [] section = "mountpoints" -> l.kind \in {"word", "option"}
             [] section = "destination" ->
                    l.kind = "account" /\ l.name = NoName /\ Positive(l.port)

\* Faulty: the latest entry replaces the others.
AddedReplacing(list, l) == <<l>>

\* The one destination is overwritten.
Added(list, l) == IF section = "destination" THEN <<l>> ELSE Append(list, l)

parse_list_line(l) ==
    IF Fits(l) THEN Keep([configuration EXCEPT !.lists[section] = Added(@, l)])
    ELSE Reject

------------------------------------------------------------------------------
ReadLine(l) ==
    /\ outcome = "reading"
    /\ Len(file) < MaxLines
    /\ file' = Append(file, l)
    /\ CASE l.kind = "blank" -> UNCHANGED <<section, configuration, outcome>>
         [] l.kind = "section" -> parse_section_header(l)
         [] OTHER -> IF section = "options" THEN parse_options_body_line(l)
                     ELSE parse_list_line(l)
    /\ UNCHANGED program

\* Faulty: the delays are not compared.
UsableWithAnyDelays == \A n \in ListNames : configuration.lists[n] # <<>>

\* The conditions on the configuration as a whole.
Usable == /\ configuration.options.reconnect_min_sec
                <= configuration.options.reconnect_max_sec
          /\ \A n \in ListNames : configuration.lists[n] # <<>>

EndOfFile ==
    /\ outcome = "reading"
    /\ outcome' = IF Usable THEN "accepted" ELSE "rejected"
    /\ UNCHANGED <<program, file, section, configuration>>

ParserNext == (\E l \in Lines : ReadLine(l)) \/ EndOfFile

ParserSpec == ParserInit /\ [][ParserNext]_parserVars

------------------------------------------------------------------------------
(* Properties.  They look at the file as a whole. *)

\* The names of the sections that fill a list.
Names(list) == CASE list = "options" -> {"options"}
                 [] list = "servers" -> {"nats_destinations", "nats_sources"}
                 [] list = "sources" -> {"ntrip_sources"}
                 [] list = "mountpoints" -> {"nats_mountpoints", "ntrip_sources"}
                 [] list = "destination" -> {"ntrip_destinations"}

\* The latest of some lines.
Latest(S) == CHOOSE m \in S : \A k \in S : k <= m

\* The name of the section that line n of the file f is in.
NameAt(f, n) ==
    LET opened == Latest({m \in 1..n : f[m].kind = "section"} \cup {0})
    IN  IF opened = 0 THEN "options" ELSE f[opened].name

\* The lines of f that are entries of sections with one of the names.
EntryLines(f, names) ==
    {n \in DOMAIN f : f[n].kind \notin {"blank", "section"} /\ NameAt(f, n) \in names}

\* The list s has the lines S of f, in their order, and no other.
InOrder(s, f, S) ==
    \E at \in [DOMAIN s -> S] :
        /\ \A j, k \in DOMAIN s : j < k => at[j] < at[k]
        /\ \A n \in S : \E k \in DOMAIN s : at[k] = n
        /\ \A k \in DOMAIN s : s[k] = f[at[k]]

\* The value of an option in f: that of its last line, or its default.
LastValue(f, key, default) ==
    LET set == {n \in EntryLines(f, {"options"}) : f[n].key = key}
    IN  IF set = {} THEN default ELSE f[Latest(set)].value

\* The thresholds of the progress log, in KB, whose bytes are less than 2^31.
Fitting == 0..(2^21 - 1)

\* The value f gives to throughput_log_kb.
ThroughputIn(f) == LastValue(f, "throughput_log_kb",
                             DefaultOptions.throughput_log_every_bytes)

\* An accepted configuration is what the file says.  The size of the read buffer
\* and the two delays have the value of their last line in whatever options
\* section, and so has the threshold of the progress log if its bytes fit an int
\* (ThroughputAsConfigured is about those that do not); the lists are the
\* entries of all the sections of their names, in the order of the file; and the
\* destination of nats2ntrip is the last one.
AsWritten ==
    outcome = "accepted" =>
        /\ \A k \in IntOptions :
               configuration.options[k] = LastValue(file, k, DefaultOptions[k])
        /\ ThroughputIn(file) \in Fitting =>
               configuration.options.throughput_log_every_bytes = ThroughputIn(file)
        /\ \A n \in ListNames :
               LET e == EntryLines(file, Names(n))
               IN  IF n = "destination" THEN configuration.lists[n] = <<file[Latest(e)]>>
                   ELSE InOrder(configuration.lists[n], file, e)

\* What the sessions and connections rely on: the back-off starts within its
\* limits, the read buffer is not empty, and there is something to bridge.
AcceptedIsUsable ==
    outcome = "accepted" =>
        LET o == configuration.options
        IN  /\ 0 < o.reconnect_min_sec /\ o.reconnect_min_sec <= o.reconnect_max_sec
            /\ 0 < o.read_buffer_bytes
            /\ \A n \in ListNames : EntryLines(file, Names(n)) # {}

\* "throughput_log_kb=<positive integer>": the progress of a session is logged
\* every so many KB, for every value that is accepted.
ThroughputAsConfigured ==
    outcome = "accepted" =>
        configuration.options.throughput_log_every_bytes = ThroughputIn(file)
==============================================================================
