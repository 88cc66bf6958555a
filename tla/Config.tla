------------------------------- MODULE Config -------------------------------
(***************************************************************************)
(* The configuration file (config.rs) and the list of nodes to connect to  *)
(* (network.rs).                                                           *)
(*                                                                         *)
(* A line is [comment, fields]: its pieces between '='.  A value is tagged *)
(* with what its text parses as: [t |-> "number"], "bool" or "text"; the   *)
(* text of a list is the sequence of its pieces between commas.            *)
(***************************************************************************)
EXTENDS Integers, Sequences, SequencesExt

CONSTANTS
    Ips,            \* the addresses in Ipv4 format
    MaxU8           \* the largest u8, 255

ASSUME ConfigAssumption == MaxU8 \in Nat

Unsigned == {"NUMBER_OF_NODES", "N_THREADS", "CONNECT_TIMEOUT", "BLOCKS_DOWNLOAD_PER_NODE",
             "AMOUNT_OF_HEADERS_TO_STORE_IN_DISK", "HEIGHT_FIRST_BLOCK_TO_DOWNLOAD"}
Signed == {"START_STRING", "PROTOCOL_VERSION"}
Bools == {"CONNECT_TO_DNS_NODES", "READ_HEADERS_FROM_DISK", "DOWNLOAD_FULL_BLOCKCHAIN_FROM_SINGLE_NODE"}
Texts == {"DNS_SEED", "CUSTOM_NODES_IPS", "USER_AGENT", "ERROR_LOG_PATH", "INFO_LOG_PATH",
          "MESSAGE_LOG_PATH", "DATE_FIRST_BLOCK_TO_DOWNLOAD", "DATE_FORMAT", "HEADERS_FILE", "LOGS_FOLDER"}
Settings == Unsigned \cup Signed \cup Bools \cup Texts \cup {"NET_PORT", "MAX_CONNECTIONS"}
AMOUNT_OF_ATTRIBUTES == 23

\* from_str of the setting's type; no text of a file is beyond 32 bits.
Parses(name, value) ==
    \/ name \in Texts
    \/ name \in Bools /\ value.t = "bool"
    \/ value.t = "number" /\ \/ name \in Signed
                             \/ name \in Unsigned /\ value.v \in Nat
                             \/ name = "NET_PORT" /\ value.v \in 0 .. 65535
                             \/ name = "MAX_CONNECTIONS" /\ value.v \in 0 .. MaxU8

Default == [name \in Settings |-> IF name \in Texts THEN <<>>
                                  ELSE IF name \in Bools THEN name = "CONNECT_TO_DNS_NODES"
                                  ELSE 0]

\* An empty list of nodes leaves the earlier value.
load_setting(read, name, value) ==
    IF name \in Settings /\ Parses(name, value)
    THEN [read EXCEPT !.loaded = @ + 1,
                      !.config = IF name = "CUSTOM_NODES_IPS" /\ value.v = <<>>
                                 THEN @ ELSE [@ EXCEPT ![name] = value.v]]
    ELSE [read EXCEPT !.ok = FALSE]

ReadLine(read, line) ==
    IF ~read.ok \/ line.comment THEN read
    ELSE IF Len(line.fields) # 2 THEN [read EXCEPT !.ok = FALSE]
    ELSE load_setting(read, line.fields[1], line.fields[2])

check_number_of_attributes(loaded) == loaded = AMOUNT_OF_ATTRIBUTES

\* What has been read after each line.
ReadLines(lines) ==
    LET read[n \in 0 .. Len(lines)] == IF n = 0 THEN [ok |-> TRUE, loaded |-> 0, config |-> Default]
                                       ELSE ReadLine(read[n - 1], lines[n])
    IN  read

from_reader(lines) ==
    LET read == ReadLines(lines)[Len(lines)]
    IN  [ok |-> read.ok /\ check_number_of_attributes(read.loaded), config |-> read.config]

\* Config::from with the number of arguments and the file they name.
from(argc, file) ==
    IF argc = 2 /\ file.found THEN from_reader(file.lines) ELSE [ok |-> FALSE, config |-> Default]

-----------------------------------------------------------------------------
\* answer is the resolver's: [ok, addrs], each address [v4, ip].
get_nodes_from_dns_seed(answer) ==
    LET Ipv4(a) == IF a.v4 THEN <<a.ip>> ELSE <<>>
    IN  [ok |-> answer.ok, ips |-> FlattenSeq([i \in DOMAIN answer.addrs |-> Ipv4(answer.addrs[i])])]

\* The pieces of a list that parse as an address.
Addresses(list) == FlattenSeq([i \in DOMAIN list |-> IF list[i] \in Ips THEN <<list[i]>> ELSE <<>>])

\* The nodes of the seed, then the entered ones that parse.
get_active_nodes_from_dns_seed(config, answer) ==
    LET seed == IF config["CONNECT_TO_DNS_NODES"] THEN get_nodes_from_dns_seed(answer)
                ELSE [ok |-> TRUE, ips |-> <<>>]
    IN  [seed EXCEPT !.ips = @ \o Addresses(config["CUSTOM_NODES_IPS"])]
=============================================================================
