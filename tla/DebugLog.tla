------------------------------ MODULE DebugLog ------------------------------
(***************************************************************************)
(* The log policy of src/src/Debug.cc: which files log at which level, the   *)
(* cache of that decision, which any thread that logs fills, and the text    *)
(* form of a policy.  Every function takes the one mutex, so each is a step. *)
(*                                                                          *)
(* A text is the sequence of its pieces between commas, and a piece that of  *)
(* its parts between "@" signs; the empty text has one piece with one empty  *)
(* part.  A pattern is a text.                                               *)
(***************************************************************************)
EXTENDS Integers, Sequences, SequencesExt

CONSTANTS
  LogFileName,
  LogPattern,           \* patterns, EmptyPattern among them
  PatternMatches,       \* the files that start or end with each pattern
  LogLevels,            \* the levels the rules of a policy name
  MaxRules              \* bound: rules in a policy

EmptyString == ""
EmptyPattern == << <<EmptyString>> >>

ASSUME PatternAssumption ==
  /\ EmptyPattern \in LogPattern
  /\ PatternMatches[EmptyPattern] = LogFileName
  /\ LogPattern \subseteq Seq(Seq(STRING) \ {<<>>}) \ {<<>>}
  /\ LogLevels \subseteq STRING \ {EmptyString}

Verbosity == [SILENT |-> 0, ERROR |-> 1, WARNING |-> 2, NOTICE |-> 3, VERBOSE |-> 4]

VARIABLES
  logPolicy,            \* a sequence of rules
  isLoggingCache,       \* level of each file, or "unknown"
  shown                 \* the last question of isLogging and its answer

debugVars == <<logPolicy, isLoggingCache, shown>>

LogRule == [pattern : LogPattern, level : LogLevels]

DebugInit ==
  /\ logPolicy = <<>>
  /\ isLoggingCache = [f \in LogFileName |-> "unknown"]
  /\ shown = [file |-> CHOOSE f \in LogFileName : TRUE, level |-> "ERROR", answer |-> TRUE]

(* getLogLevel: the first rule that matches, or NOTICE.                      *)
getLogLevel(policy, file) ==
  LET i == SelectInSeq(policy, LAMBDA r : file \in PatternMatches[r.pattern])
  IN  IF i = 0 THEN "NOTICE" ELSE policy[i].level

(* Mutant of setLogPolicy: the cache is kept.                                *)
setPolicyKeepCache(policy) == logPolicy' = policy /\ UNCHANGED <<isLoggingCache, shown>>

setLogPolicy(policy) ==
  /\ logPolicy' = policy
  /\ isLoggingCache' = [f \in LogFileName |-> "unknown"]
  /\ UNCHANGED shown

isLogging(level, file) ==
  LET verbosity == IF isLoggingCache[file] = "unknown"
                   THEN getLogLevel(logPolicy, file) ELSE isLoggingCache[file]
  IN
  /\ isLoggingCache' = [isLoggingCache EXCEPT ![file] = verbosity]
  /\ shown' = [file |-> file, level |-> level,
               answer |-> Verbosity[level] <= Verbosity[verbosity]]
  /\ UNCHANGED logPolicy

(* The text of a rule, in logPolicyToString: the pattern's last part is       *)
(* followed by "@" and the level.                                            *)
RuleText(r) ==
  IF r.pattern = EmptyPattern THEN << <<r.level>> >>
  ELSE Append(Front(r.pattern), Append(Last(r.pattern), r.level))

(* logPolicyToString: the texts of the rules with commas between them.       *)
logPolicyToString(policy) ==
  LET rules == FlattenSeq([i \in 1..Len(policy) |-> RuleText(policy[i])])
  IN  IF policy = <<>> THEN << <<"NOTICE">> >>
      ELSE IF Last(policy).pattern = EmptyPattern THEN rules
      ELSE Append(rules, <<"NOTICE">>)

(* StringUtil::split: there is no item after the last delimiter if nothing   *)
(* follows it, and none at all in the empty string.                          *)
Items(pieces, empty) == IF Last(pieces) = empty THEN Front(pieces) ELSE pieces

RuleFromParts(parts) ==
  [pattern |-> IF Len(parts) = 1 THEN EmptyPattern ELSE <<Front(parts)>>,
   level   |-> Last(parts)]

logPolicyFromString(text) ==
  LET rules == Items(text, <<EmptyString>>)
  IN  [i \in 1..Len(rules) |-> RuleFromParts(Items(rules[i], EmptyString))]

(* What logPolicyFromString asserts of every rule: it has a part.            *)
Readable(text) ==
  LET rules == Items(text, <<EmptyString>>)
  IN  \A i \in 1..Len(rules) : Len(Items(rules[i], EmptyString)) >= 1

DebugNext ==
  \/ \E n \in 0..MaxRules : \E policy \in [1..n -> LogRule] : setLogPolicy(policy)
  \/ \E f \in LogFileName, level \in {"ERROR", "VERBOSE"} : isLogging(level, f)

-----------------------------------------------------------------------------
(* What is cached for a file is what the policy says now, whichever threads   *)
(* logged before the policy was changed.                                      *)
CacheFresh ==
  \A f \in LogFileName :
    isLoggingCache[f] \in {"unknown", getLogLevel(logPolicy, f)}

(* No pattern of the policy holds a comma.                                   *)
CommaFree(policy) == \A i \in 1..Len(policy) : Len(policy[i].pattern) = 1

(* A policy that is written down and read back decides every file alike, with *)
(* patterns that hold an "@", rules that match everything in the middle, and  *)
(* no rules at all; the rule that is added for the rest is read back too.     *)
(* Only a comma in a pattern is not kept: it ends the rule, and the piece     *)
(* before it is taken for a level.                                            *)
PolicyRoundTrip ==
  CommaFree(logPolicy) =>
    LET text == logPolicyToString(logPolicy)
        back == logPolicyFromString(text)
    IN
    /\ Readable(text)
    /\ Last(back).pattern = EmptyPattern
    /\ \A f \in LogFileName : getLogLevel(back, f) = getLogLevel(logPolicy, f)
=============================================================================
