--------------------------- MODULE MCConfigParser ---------------------------
(* ConfigParser on files of a few lines. *)
EXTENDS ConfigParser

Section(name) == [kind |-> "section", name |-> name]
Option(key, value) == [kind |-> "option", key |-> key, value |-> value]
Url(port) == [kind |-> "url", port |-> port]
Account(name, port) == [kind |-> "account", name |-> name, port |-> port]

\* Lines of both programs, some of them wrong in either.
MCLines == { [kind |-> "blank"],
             Section("options"), Section("nats_destinations"), Section("nats_sources"),
             Section("nats_mountpoints"), Section("ntrip_sources"),
             Section("ntrip_destinations"),
             Option("reconnect_min_sec", 5), Option("reconnect_min_sec", 40),
             Option("read_buffer_bytes", 0),
             Option("throughput_log_kb", 2^21 - 1),
             Url(4222), Url(0),
             Account("", 2101), Account("ABAN3M", 0),
             Account(NoName, 2101), Account(NoName, 2102),
             [kind |-> "word", name |-> "ABAN3M"] }

\* Values of throughput_log_kb up to the largest power of two.
ThroughputLines == { Section("nats_destinations"), Section("ntrip_sources"),
                     Url(4222), Account("ABAN3M", 2101) }
                   \cup { Option("throughput_log_kb", v) :
                              v \in {1, 2^21 - 1, 2^21, 2^22, 2^30} }

\* The file that the README shows; "keep-alive" is not a number.
ReadmeFile == << Section("options"), Option("connection_header", NotANumber),
                 Option("read_buffer_bytes", 4096), Option("throughput_log_kb", 100),
                 Option("reconnect_min_sec", 1), Option("reconnect_max_sec", 30),
                 [kind |-> "blank"],
                 Section("nats_destinations"), Url(4222), Url(4223),
                 [kind |-> "blank"],
                 Section("ntrip_sources"), [kind |-> "blank"], Account("mountpoint", 2101) >>

\* ntrip2nats reading that file.
ReadmeInit == ParserInit /\ program = "ntrip2nats"

ReadmeNext == IF Len(file) < Len(ReadmeFile) THEN ReadLine(ReadmeFile[Len(file) + 1])
              ELSE EndOfFile

ReadmeSpec == ReadmeInit /\ [][ReadmeNext]_parserVars

\* The configuration file that the README gives as its example is accepted:
\* parse_configuration() finds no fault in it.
ReadmeAccepted == outcome # "rejected"
==============================================================================
