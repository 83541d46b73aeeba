----------------------------- MODULE MCDataset -----------------------------
(* Dataset with two or three keys and the commands to try on them.          *)
EXTENDS Dataset

MCPlaces == {<<0, "a">>, <<0, "b">>, <<1, "a">>}
MCElements == {"1", "2", "long"}
MCIntegers64 == <<"1", "2">>
MCLong == {"long"}
MCCollation == <<"1", "2", "long">>

A == <<0, "a">>
B == <<0, "b">>
C == <<1, "a">>
AB == {A, B}

Two == {<<A, B>>, <<B, A>>}

StringsCommands ==
  [op : {"SET", "SETNX", "GETSET", "APPEND"}, key : {A}, bytes : {<<1>>, <<2>>, <<1, 1>>}]
  \cup [op : {"SETRANGE"}, key : {A}, offset : 0..2, bytes : {<<>>, <<1>>, <<2>>}]
  \cup [op : {"SETBIT"}, key : {A}, offset : 0..2, on : {0, 1}]
  \cup [op : {"INCRBY"}, key : AB, incr : {-1, 1}]
  \cup [op : {"MSET", "MSETNX"},
        pairs : {<<[key |-> A, bytes |-> <<1>>], [key |-> B, bytes |-> <<2>>]>>}]
  \cup [op : {"DEL"}, keys : {{A}, AB}]

SetsCommands ==
  [op : {"SADD"}, key : {A}, members : {<<"1">>, <<"2">>, <<"long">>, <<"1", "long">>}]
  \cup [op : {"SADD"}, key : {B}, members : {<<"1">>}]
  \cup [op : {"SREM"}, key : {A}, members : {<<"1">>, <<"long", "2">>}]
  \cup [op : {"SMOVE"}, key : {A}, to : AB, member : {"1", "long"}]
  \cup [op : {"SPOP"}, key : {A}, member : MCElements]
  \cup [op : {"SINTERSTORE", "SDIFFSTORE"}, key : {A, B}, keys : {<<A, B>>}]
  \cup [op : {"SUNIONSTORE"}, key : {A}, keys : {<<A, B>>}]
  \cup [op : {"SET"}, key : {B}, bytes : {<<2>>}]

HashesCommands ==
  [op : {"HSET"}, key : {A},
   pairs : {<<[field |-> "1", value |-> "2"]>>, <<[field |-> "long", value |-> "1"]>>,
            <<[field |-> "1", value |-> "1"], [field |-> "2", value |-> "long"]>>}]
  \cup [op : {"HSETNX"}, key : {A}, field : {"1", "long"}, value : {"2"}]
  \cup [op : {"HINCRBY"}, key : AB, field : {"1", "long"}]
  \cup [op : {"HDEL"}, key : AB, members : {<<"1">>, <<"2", "long">>}]

ZsetsCommands ==
  [op : {"ZADD"}, key : {A},
   pairs : {<<[member |-> "1", score |-> 1]>>, <<[member |-> "long", score |-> -2]>>,
            <<[member |-> "1", score |-> 2], [member |-> "2", score |-> 0]>>}]
  \cup [op : {"SADD"}, key : {B}, members : {<<"1">>}]
  \cup [op : {"ZINCRBY"}, key : {A}, member : {"1"}, score : {-2}]
  \cup [op : {"ZREM"}, key : {A}, members : {<<"1">>, <<"long">>}]
  \cup [op : {"ZREMRANGEBYSCORE"}, key : {A},
        range : {[min |-> -2, max |-> 1, minex |-> TRUE, maxex |-> FALSE],
                 [min |-> 0, max |-> 2, minex |-> FALSE, maxex |-> TRUE]}]
  \cup [op : {"ZREMRANGEBYRANK"}, key : {A}, start : {-2, 0}, end : {-3, -1, 0}]
  \cup [op : {"ZUNIONSTORE", "ZINTERSTORE"}, key : {B}, keys : {<<A, B>>},
        weights : {<<0, -1>>}, aggregate : {"sum", "min", "max"}]

KeysCommands ==
  [op : {"SET"}, key : {A}, bytes : {<<2>>}]
  \cup [op : {"SETNX"}, key : {A}, bytes : {<<2>>}]
  \cup [op : {"SETRANGE"}, key : {A}, offset : {0}, bytes : {<<2, 2>>}]
  \cup [op : {"SETEX"}, key : {A}, seconds : {1}, bytes : {<<2>>}]
  \cup [op : {"DEL"}, keys : {AB}]
  \cup [op : {"FLUSHDB"}, db : {0}] \cup [op : {"FLUSHALL"}]
  \cup [op : {"EXISTS", "PERSIST"}, key : {A}]
  \cup [op : {"KEYS"}, db : {0}]
  \cup [op : {"RANDOMKEY"}, keys : {{}, AB}]
  \cup [op : {"RENAME"}, key : {A}, to : AB, nx : BOOLEAN]
  \cup [op : {"MOVE"}, key : {A}, to : {A, C}]
  \cup [op : {"EXPIRE"}, key : {A}, seconds : {0, 1}]
  \cup [op : {"EXPIREAT"}, key : {B}, when : {0, 1}]

SortCommands ==
  [op : {"RPUSH"}, key : {A}, value : {"1", "long"}]
  \cup [op : {"SADD"}, key : {A}, members : {<<"2">>, <<"1", "long">>}]
  \cup [op : {"ZADD"}, key : {A}, pairs : {<<[member |-> "2", score |-> 0]>>}]
  \cup [op : {"DEL"}, keys : {{A}}]
  \cup [op : {"SORT"}, key : {A}, to : AB, store : BOOLEAN, desc : BOOLEAN,
        nosort : (IF NoSortStored THEN BOOLEAN ELSE {FALSE}),
        start : {-1, 0, 1}, count : {-1, 1}]

MCCommands ==
  [strings |-> StringsCommands, sets |-> SetsCommands, hashes |-> HashesCommands,
   zsets |-> ZsetsCommands, keys |-> KeysCommands, sort |-> SortCommands]
=============================================================================
