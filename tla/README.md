# TLA+ models of reir

reir compiles a small query language into LLVM IR. It JIT-runs the result against
the FOEDUS masstree key-value engine. This directory holds TLA+ models of the parts
of the compiler and runtime whose behaviour TLC can check. It also holds the TLC
configurations that check them.

## The system

| Part | Source | What it does |
|---|---|---|
| Lexer | `exec/tokenize.hpp`, `exec/token.hpp` | A character state machine (INIT, NAME, NUMBER, STRING, OPERATOR) that produces tokens and reserved words. |
| Parser | `exec/parser.cpp`, `exec/ast_*_parser.cpp` | Recursive descent into the AST. Binary operators are right-associative with flat precedence. |
| Analysis | `analyze` in `exec/ast_expression.hpp` and `exec/ast_statement.hpp`, `exec/ast_node.cpp` | Resolves names and types. `operate` decides which operators a type allows. |
| Allocation pass | `alloca_stack` of every statement, driven by `Compiler::compile` over `Block::each_statement` | Creates schemas (`define`), stack buffers, and row-variable slots before any code is emitted. |
| Code generation | `exec/ast_statement_codegen.cpp`, `exec/ast_expression_codegen.cpp` | Lowers statements and expressions to basic blocks and calls of the backend interface. |
| Backend interface | `exec/db_interface.cpp`, `engine/foedus_interface.cpp` | The extern functions that generated code calls: begin/precommit, insert, cursor open, valid, next, copy key/value, destroy. |
| Key layout | `db/schema.hpp`, `db/attribute.hpp`, `db/attr_type.hpp` | Attribute sizes, the `name:` key prefix, and the split of a row into key and value. |
| Tuple codec | `Attribute`/`AttrType`/`Schema` encode/decode, `db/maybe_value.hpp`, `db/value.cpp` | The binary wire format of cells and tuples. |
| Catalog | `db/metadata.cpp`, `db/schema.cpp`, `serialize`/`deserialize` of `db/attribute.cpp` and `db/attr_type.cpp` | `define` creates the table in `MetaData`. The schema is serialised as text into a leveldb store that outlives the process, and cached in the `tables_` map. |
| Driver and engine | `Compiler::compile_and_exec`, `engine/foedus_runner.cpp`, `reirc.cpp` | Builds the engine, compiles, runs the function, prints `outputs_`. |

The parts interact as follows:
- Source text flows through the lexer, parser and analysis.
- `Compiler::compile` then runs the allocation pass and code generation, and ends the function with `ret true`.
- `compile_and_exec` calls the generated function once, on one thread, and prints the rows that `emit` appended to `CompilerContext::outputs_`.
- Insert and scan statements reach the store only through the backend interface. A key is laid out as the table name, `:`, then the key columns. A scan walks the byte range `[name:, name':)`, where `name'` is the name with its last byte incremented.

Nothing in reir runs concurrently. The hard behaviours are sequential:
- the order of the allocation pass against code generation;
- byte layouts that two pieces of code must agree on;
- key ranges over an ordered store;
- backend calls whose failures are dropped;
- control flow made of branches between basic blocks.

## Modules

| Module | Models | Source |
|---|---|---|
| `KeyLayout` | Attribute sizes, key prefix, fixed key/value lengths, the scan range end, the bytes `Insert::codegen` copies into key and value, and the columns `Scan::codegen` loads back. Masstree key order. | `db/schema.hpp`, `db/attribute.hpp`, `db/attr_type.hpp`, `exec/ast_statement_codegen.cpp` |
| `StorageCodegen` | The storage statements (define, insert, scan, emit, transaction). The allocation pass (`DefineAlloca`, `InsertAlloca`, `ScanAlloca`, `EmitAlloca` folded over the pre-order of `each_statement`). Their lowering to a flat instruction sequence with absolute branch targets (`GenSeq`, `GenStmt`, `ScanCode`). | `exec/ast_statement.hpp`, `exec/ast_statement_codegen.cpp`, `exec/compiler.cpp` |
| `StorageExec` | The compiled program run against the store. There is one action per instruction kind: `BeginXct`, `PrecommitXct`, `InsertRow`, `OpenCursor`, `CheckCursor`, `Fetch`, `EmitRow`, `CursorNext`, `Jump`, `DestroyCursor`, `Return`, plus `Compile`. | `engine/foedus_interface.cpp`, `exec/compiler.cpp` |
| `StorageTables` | The refinement mapping from `StorageExec` to `TableStore`. `contents` is the rows `Scan::codegen` rebuilds from each stored key of the table's cursor range (`StoredRow`, `TableRows`). `pending` is the program's inserts in statement order before compilation, and the insert instructions from `pc` on while running (`PendingInserts`). `out` is `outputs_`. `TableSpec` is `TableStore`'s `Spec` as a property. | `exec/ast_statement_codegen.cpp`, `db/schema.hpp` |
| `TableStore` | The abstract table semantics a program promises. Tables are sets of rows. Inserts take effect in program order, each adding its row (`Insert`) unless a row with the same key is there (`Refuse`). `Emit` yields a row in the scanned table. `Stop` ends the run, under weak fairness. | the spec's statement semantics |
| `MC_Storage` | Tables, attributes and the program sets the runs use. It extends `StorageTables`. | |
| `TupleCodec` | `AttrType`, `Attribute` and `Schema` encode, decode and the length functions, as operators over byte sequences. A throw is `Throw` or `ok = FALSE`. | `db/attr_type.cpp`, `db/attribute.cpp`, `db/schema.hpp`, `db/maybe_value.hpp` |
| `CodecExec` | The codec calls on one tuple, in any order: `EncodeTuple` (`Schema::encoded_length` + `encode`), `DecodeTuple`, `EncodeKeyValue` (`key_length`/`value_length` + `encode_key`/`encode_value`), `EncodeCell(i)` and `DecodeCell(i)` (`Attribute`). The spec's wire format serves as the reference encoding. The catalog's actions on the same schema: `CreateTable` (`MetaData::create_table`), `GetSchema` (`get_schema`) and `Restart` (a new `MetaData` over the same directory). | `db/schema.hpp`, `db/attribute.cpp`, `db/metadata.cpp` |
| `Catalog` | The catalog text format as operators. `SerializeSchema`, `SerializeAttr` and `SerializeAttrType` write it. `DeserializeSchema`, `DeserializeAttr` and `DeserializeAttrType` are the scanners that read it back: `SeekChar` is a `while (*it != c)` loop, `Text` is the text collected before the delimiter, and `StoLL` is `std::stoll`. | `db/schema.cpp`, `db/attribute.cpp`, `db/attr_type.cpp` |
| `MC_Codec` | The schemas and tuples the codec runs use. | |
| `Token` | The tables of `token.hpp`: character classes, reserved words and their case-insensitive match, `symbol_token`, `operator_token_list` and `operator_token`. A character is a one-character string. | `exec/token.hpp`, `exec/tokenize.hpp` |
| `Lexer` | `tokenize`, one action per branch of its loop body: `StringChar`, `CloseString`, `OpenString`, `Delimiter`, `Symbol`, `OperatorChar`, `Digit` and `Letter`, plus `Finish` for the switch after the loop. The locals `from`, `len`, `row` and `col` are variables. `RefLex` is a reference tokenizer written from spec §4.1: maximal runs by class, each token with the row it starts on. | `exec/tokenize.hpp` |
| `MC_Lexer` | The texts the lexer runs use: every text of up to 4 characters over `i f F 1 " \n ( = <`. | |
| `AST` | Constructors of the statement and expression nodes the control-flow and parser modules share: `Num`, `Var`, `Bin`, `Assign`, `Let`, `ExprStmt`, `If`, `For`, `Jump`. | `exec/ast_expression.hpp`, `exec/ast_statement.hpp` |
| `Analysis` | The analysis pass as recursive operators: `Operate` (`operate()`), `AnalyzeExpr`, `AnalyzeStmt`, `AnalyzeBlock` and `Analyze` over `variable_type_table_`. A `Let` with a declared `TupleType` and a row literal enters the type under the variable's name (`DeclareTuple`), with its attributes resolved as `TupleType::analyze` resolves them (`FieldType`). `MemberType` is `MemberReference::analyze`: the type of the first attribute of the member's name. `SpecTyped` holds the type rules of spec §4.3 and serves as the reference. | `exec/ast_node.cpp`, `exec/ast_expression.hpp`, `exec/ast_statement.hpp`, `exec/compiler.cpp` |
| `ControlFlow` | `Compiler::compile` for the control-flow subset. It runs `Analyze`, then the `alloca_stack` pass (`EachStatement`), then `Codegen` of `Let`, `ExprStatement`, `If`, `For`, `Jump` and `Emit`. `GetValue` lowers expressions, `GetConditionalValue` lowers the short-circuit `&&` and `||`, and `RowValue` lowers a row literal to a chain of `insertvalue`s, calling each element's `get_value` twice as `RowLiteral::get_value` does. `ArrayValue` lowers an array literal to an `insertvalue` chain of the LLVM array type `ArrTy(t, n)` of its first element, evaluating each element once. `IndexRef` is `ArrayReference::get_ref`: a load of the whole array, the index, and an inbounds GEP into the slot (`IGep`). `FieldRef` is `MemberReference::get_ref`: a GEP at the declared attribute's constant offset (`IFieldGep`) into the slot, whose struct type is the row literal's. `MemberTy` is `MemberReference::get_type`: `convert_type` of the declared attribute type. An element or member is read through its GEP (`ILoadPtr`). An assignment to one stores through it (`IStorePtr`) and reads it back. A struct type is named by its `get_type_signature` string (`TypeSignature`), and `Emit::codegen` reads the field types back off it (`FieldsOf`). `EmitRow` is `Emit::codegen`: a non-struct value throws, and the size passed to `__emit_func` is the sum of the elements' primitive sizes. The output is a list of basic blocks of instructions over numbered SSA temporaries. | `exec/ast_statement_codegen.cpp`, `exec/ast_expression_codegen.cpp`, `exec/compiler.cpp` |
| `CFGExec` | The compiled function run one instruction per step. There is one action per instruction kind: `ExecConst`, `ExecLoad`, `ExecBin`, `ExecNe0`, `ExecPhi`, `ExecStore`, `ExecInsertValue`, `ExecEmit`, `ExecLoadAggregate`, `ExecGep`, `ExecFieldGep`, `ExecLoadPtr`, `ExecStorePtr`, `ExecBr`, `ExecCondBr` and `ExecRet`. Stack memory `mem` is kept by cell, one per scalar slot and one per element or field of an array or struct slot. A load or store through a GEP outside its array has no step, which is undefined behaviour. `ExecInsertValue` and `ExecLoadAggregate` build struct and array values in `aggs`, kept apart from the integer temporaries in `temps`. `ExecEmit` appends to `outputs` the first `size` bytes of the row as LLVM lays out the struct (`StructBytes`), which is `CompilerContext::get_output`. `Ref` is a reference interpreter of the AST written from spec §4.5, whose emitted rows are their values as int64 bytes. | the JIT call in `exec/compiler.cpp`, `exec/compiler_context.cpp` |
| `MC_ControlFlow` | The programs: short circuits in `If` conditions, counted and nested loops (the counted loop emits `{i, x}`), the §8 loop emitting 0 to 4, an emit of a non-row, arrays filled through `a[i] = ...` in a loop, a declared row updated through `r.b = ...` in a loop, ill-typed programs, a `break`, and `0 && (x = 1)`. `MaxSteps = 48`. | |
| `Parser` | The recursive-descent parser as operators over a token sequence and a position. Covers `ParseExpr` and `ParsePostfix` (`parse_expr`), the type parsers (`ParseType`, `ParseAttrs`, `ParseRowType`), and `ParseStatement` with one operator per statement constructor. A parse returns `Ok(node, p)`, or `Fail` where the code throws. | `exec/ast_expression_parser.cpp`, `exec/ast_statement_parser.cpp`, `exec/ast_node_parser.cpp` |
| `ParseExec` | `parse()`'s loop, one iteration per step: `AddEntry`, `SkipNull` (a `nullptr` entry), `SyntaxError` and `Finish`. `PrintStmts` prints an AST as the tokens of the spec grammar and serves as the reference. | `exec/parser.cpp` |
| `MC_Parser` | The programs whose printed tokens are parsed, and the token texts the grammar rejects. | |

State of `StorageExec` and its code counterparts:
- **Compile state.** `code` is the generated function. `bind` is `variable_table_`'s row slots. `kbuf`, `vbuf` and `slot` are each scan's `key_stack_`, `value_stack_` and `tuple_stack_`. Bytes the program never wrote are `UNINIT`.
- **Backend state.** `store` is the masstree storage "db". `xct` is the thread's transaction. `cursor` holds the open cursors. `failures` counts backend calls that returned an error: the generated code drops every such error.
- **Output.** `outputs` is `outputs_`.
- **History variables** (`inserted`, `snap`, `fetched`, `scanLog`) record what was inserted and what each scan saw. They exist only for the properties.

The storage engine is outside the repository. Its behaviour is modelled from the backend contract of the spec, and these definitions are marked `spec_modelled` in the map:
- an insert needs a running transaction and a fresh key;
- a cursor over `[from, to)` visits the stored keys of that range in byte order;
- a transaction sees its own writes.

## Codec state

In `CodecExec`, each buffer is allocated fresh with the length the code's own length function returns, so its bytes start `UNINIT`. Writes past the end of a buffer are not kept; they set `overrun`. A decoder that tests an unwritten presence byte against 0 may see either outcome. `DecodeTuple` and `DecodeCell` choose that outcome with `\E`.

The catalog state is as follows:
- `catalog` is the leveldb store, which survives `Restart`. The key `table:global_schema:<name>` is abstracted to the name.
- `tables` is `tables_`, which `Restart` empties.
- `got` is the outcome of the last `get_schema`, with `expect` the schema of the last `create_table` before it.
- `latest` is that history: the schema the last `create_table` defined, from either of the two definitions an input carries for its name.

## Runs

All storage runs use `MC_Storage`. Each program runs from `Compile` to `Return`, so the runs say `CHECK_DEADLOCK FALSE`: the function really does stop.

| Run | Expect | Checks |
|---|---|---|
| `storage_pass` | pass | `TypeOK`, `ScanSound`, `ScanExact`, `KeyFitsBuffer`, `TxnBracket`, `Termination`, `TableSpec`. The programs are 72 two-insert transactions over tables `t` (key first) and `u` (key second), with the scans sequential or nested, plus two programs the allocation pass rejects. |
| `storage_overlap` | violation | `ScanSound`: a scan of `t` while table `ta` holds a row. |
| `storage_duplicate` | violation | `NoSilentFailure`: the same row inserted twice. |

The codec runs use `MC_Codec`. The calls stop once each one has been made, so these cfgs also say `CHECK_DEADLOCK FALSE`.

| Run | Expect | Checks |
|---|---|---|
| `codec_pass` | pass | `TypeOK`, `EncodeWithinBuffer`, `WireFormat`, `AttrRoundTrip`, `CatalogRoundTrip`. Inputs are one or two int attributes, each NONE, NULLABLE or KEY, with cells 0, 1 and -1, plus nulls where the attribute is not nullable. The columns are named `a` and `bc`. Each input also carries a redefinition of the table with NONE and KEY swapped, and the catalog actions (`create_table` with either definition, `get_schema`, restart) run in any order and any number of times. |
| `codec_string` | violation | `EncodeWithinBuffer`: the string cell "ab". |
| `codec_null` | violation | `AttrRoundTrip`: a null NULLABLE cell. |

The lexer runs use `MC_Lexer`. `tokenize` returns after its last character, so `CHECK_DEADLOCK FALSE`.

| Run | Expect | Checks |
|---|---|---|
| `lexer_pass` | pass | `TypeOK`, `TokensAsSpecified`. The inputs are 7,381 texts. |

The control-flow runs use `MC_ControlFlow`. A compiled function stops at `ret`, and a function the compiler rejects never starts, so these cfgs say `CHECK_DEADLOCK FALSE`.

| Run | Expect | Checks |
|---|---|---|
| `controlflow_pass` | pass | `TypeOK`, `WellFormedCFG`, `RunsAsSpecified`, `TypedAsSpecified`, `NoUndefinedBehaviour`, `Returns`. There are 16 short-circuit programs (`&&`/`||` on both levels, both truth values), counted loops of 0 to 3 iterations, two nested-loop programs, three ill-typed programs, the §8 loop `for let x = 0; x < 5; x = x + 1 { emit {x} }` and `emit x` of an integer (which compiles to a crash, as `Emit::codegen` throws). Two array programs set `a = [0, 0, 0]` element by element in a loop of 2 or 3 iterations, read `a[1]` into `y` and emit `{a[2], y}`. Two member programs declare `let <{int: a, int: b}> r = {1, 0}`, add `i` to `r.b` in a loop of 2 or 3 iterations, read `r.a` into `y`, and emit `r` and `{r.b, y}`. A fourth program reads a member `r.c` the declaration lacks, which both type systems reject. Uninitialised stack slots take the values 0 and 1. |
| `controlflow_break` | violation | `WellFormedCFG`: a `break` under an `If` in a loop. |
| `controlflow_and` | violation | `TypedAsSpecified`: `0 && (x = 1)` as a statement. |

The parser runs use `MC_Parser`. `parse()` returns or throws, so `CHECK_DEADLOCK FALSE`.

| Run | Expect | Checks |
|---|---|---|
| `parser_pass` | pass | `TypeOK`, `ParsesAsSpecified`. There are 338 binary expressions (every pair of the 13 operators, the compound operand on each side), the `if`/`for`/`break`/`continue` programs, the postfix and literal forms, and the storage programs: `define`, `tuple`, `insert`, `scan`, `emit`, `transaction` with and without isolation, and `let` with a primary, array or tuple type. There are also 10 rejected texts. |
| `parser_hang` | violation | `Terminates`: `let x = 0 }`. |

The properties:
- `TokensAsSpecified`: `tokenize` never aborts. It returns the reference's token types and texts for every text the reference accepts, and throws for every text the reference rejects.
- `EncodeWithinBuffer`: no encode writes past the buffer its caller sized with the matching length function.
- `WireFormat`: every finished encode holds exactly the spec's bytes (§6).
- `AttrRoundTrip`: `Attribute::decode` gives back what `Attribute::encode` was given, whatever the unwritten bytes hold (§8).
- `ScanSound`: every emitted row is the bytes of a row inserted into the scanned table.
- `ScanExact`: a finished scan loaded exactly the rows of its table, each once.
- `TxnBracket`: inserts and cursor opens written inside a transaction run inside one.
- `NoSilentFailure`: a function that returned true had no failed backend call.
- `Termination`: every program stops.
- `TableSpec`: the run refines `TableStore`. Each table's decoded key range changes only when the program's next insert adds its own row, or when that insert is refused because its key is taken. No stored row is ever changed or lost, and every emitted row is stored in the scanned table. `ScanSound` compares with the history of inserts. `TableSpec` compares with the store itself, so it also catches an insert that overwrites a row.
- `CatalogRoundTrip`: a `get_schema` after a `create_table`, in this process or an earlier one, finds the table and deserialises exactly the schema the last `create_table` of the name defined, though `tables_` keeps the first (spec §4.4, §6 and §8).
- `KeyFitsBuffer`: whenever a scan's cursor is on a record, the stored key and value fit the `key_stack_` and `value_stack_` that `Scan::alloca_stack` sized for the scanned table, so `copy_combined_key` and the payload copy stay inside them.
- `WellFormedCFG`: every block of a compiled function ends in exactly one terminator, every conditional branch tests an `i1`, every store writes its slot's type, and every `insertvalue` writes its field's type.
- `RunsAsSpecified`: when the compiled function returns, every variable holds what the reference semantics gives it, and `outputs_` holds exactly the rows the reference emits, in order and byte for byte.
- `NoUndefinedBehaviour`: no load or store through an element pointer falls outside its array. The length in the array type, the `insertvalue`s of the literal and the indices the program reaches agree, because `ArrayReference` emits no bounds check.
- `TypedAsSpecified`: `analyze` accepts exactly the programs the spec's type rules accept.
- `Returns`: every compiled function that runs reaches `ret`.
- `ParsesAsSpecified`: `parse()` returns exactly the AST a token sequence was printed from and never throws on it, and it returns no program for a text the grammar rejects. It does not claim that a rejected text throws: the stray `}` text never ends, which `parser_hang` shows. The postfix programs index variables only, because `parse_expr_postfix` drops any other parent of an index (see below).
- `Terminates`: `parse()` returns or throws on every token sequence.

What the violations show:
- The scan range `[t:, u:)` contains every key of a table whose name extends `t` with a byte above `:`.
- Row names resolve through `variable_table_`, where the last scan allocated under a name wins. The first of two scans named `r` emits the second scan's never-written row.
- `foedus_insert`'s result is dropped and the function returns true.
- `AttrType::encoded_length` of a string leaves out the 8-byte length that `encode` writes, so the encode overruns its buffer.
- A null nullable cell's presence byte is never written, so decode can return a present value.
- `Jump::codegen` leaves the insert point in the block that it terminated. The enclosing `If` then appends a second branch.
- `operate()` rejects `&&` and `||` on every type. The spec types them, and its §8 example `0 && (x = 1)` does not compile.
- `parse_statement` returns `nullptr` at `}` without consuming it, so `parse()` spins on a stray `}`.

Other disagreements found while modelling. No violation run is kept for these, because the runs are spent on the ones above:
- `Insert::codegen` copies `default_size` bytes per element, which is 9 for a nullable int, from a row whose fields are 8 bytes. `Scan::codegen` reads 8 bytes per column. A table with a nullable key column breaks `ScanSound`.
- A nested transaction's precommit ends the outer transaction, so the outer block's later inserts fail silently. This breaks `TxnBracket`.
- `property_ == NULLABLE` makes a NULLABLE|KEY attribute encode without its presence byte. This breaks `WireFormat`.
- `Insert::codegen` does not compare the row's arity with the schema's, where the spec asks for a SchemaError. A short row such as `insert t <1>` is stored without its value bytes, and a scan of `t` emits unwritten bytes, which breaks `ScanSound`.
- `RowLiteral::get_value` evaluates each element twice. `emit {x = x + 1}` from `x = 0` emits 2 and leaves `x` at 2, where the reference gives 1. This breaks `RunsAsSpecified`.
- `BinaryExpression::get_type` gives a comparison its operands' type, `i64`, while its value is an `i1`. `let b = x < 5` stores an `i1` into an `i64` slot, and `emit {x < 5, x}` inserts an `i1` into an `i64` field. The specification and `analyze` both accept these programs, and they break `WellFormedCFG`.
- `parse_expr_postfix` passes `dynamic_cast<VariableReference*>(ret)` to `ArrayReference`. An index of anything but a variable, such as `y = r.a[0]`, parses into a node with a null parent, which later passes dereference. The spec's `ArrayReference(parent, index)` takes any postfix parent, so this program breaks `ParsesAsSpecified`.
- `ArrayReference::get_ref` emits an inbounds GEP without a bounds check. `let a = [0, 0]; a[2] = 1` stores outside the array, which breaks `NoUndefinedBehaviour`.
- `ArrayReference::analyze` types `a[0]` as the array itself, so `let y = a[0] + 1` is rejected as an operator on an array. spec.md has no rule for element references; `TypedAsSpecified` takes the element type, and this program breaks it.
- `ArrayLiteral::analyze` analyses only the first element. `let a = [0, z]`, with `z` undefined, passes analysis and throws in codegen, which breaks `TypedAsSpecified`. `let a = [0, {1}]` is typed as an array of integers, and its `insertvalue` puts a struct into an `i64` field, which breaks `WellFormedCFG`.
- `Let::analyze` does not compare a declared tuple type with its row literal. The slot takes the row's struct type, while a member is typed and placed by the declaration. `let <{int: a}> r = {1 < 2}; let y = r.a` stores the loaded `i1` into `y`'s `i64` slot, which breaks `WellFormedCFG`. `let <{int: a, int: b}> r = {1}; let y = r.b` builds a GEP past the struct's one field, and the compile fails on a program both type systems accept.
- `Let::analyze` throws for a declared type on any value but a row or array literal. spec §4.3 says the declared type is recorded, so `let <{int: a}> r = 5` breaks `TypedAsSpecified`.
- `Schema::decode` reads the first cell from offset 0, over the `name:` prefix. `Schema::decode` has no caller; `DecodeTuple` models it.
- An identifier's row field holds the column counter, because `add_token` passes `col` where `Token` expects the row. A parse error therefore reports the wrong line.
- A lone `!` or `|` reaches `symbol_token`'s `abort()`, where the spec asks for an INVALID token.
- Two sequential scans that both call their row `r` share one `variable_table_` slot. The first scan emits the second scan's never-written row.
- `If::analyze` never analyses its condition, so an ill-typed condition compiles.
- `For::For` leaves `init_`, `cond_` and `every_` uninitialised when a part is left out. A `for` without a step fails to parse: the check at line 121 tests for `;`, so the `{` is read as a row literal.
- Statements have no separator. `(` after an expression statement continues it as a call.
- `define<int> t` parses, and `schema_` is a null `dynamic_cast` result. `let <INT> x = 1` is rejected, because `type_parse` only knows lower-case `int` while the lexer matches keywords in any case.

Bounds and fairness:
- **Bounds.** Rows use values 1 and 2. These give keys that differ in their first byte, and let two rows share a key. Two inserts and two scans per program are enough for sequential and nested cursors, for duplicates, and for both key positions. `MaxOutputs = 8` is above the 6 rows that the largest program emits. Reaching the bound blocks `EmitRow`, which `Termination` would report.
- **Codec bounds.** The values 0, 1 and -1 give an all-zero cell, a cell with only its low byte set, and a cell with every byte set. Two attributes are enough for one cell's offset to depend on another's length.
- **Lexer bounds.** Four characters are enough for:
  - a reserved word next to a name;
  - a number followed by a letter;
  - an empty string, an open string, or a string after a word;
  - a two-character operator, an unmatched operator, or an operator next to a number;
  - a token after a newline.
- **Control-flow bounds.** `MaxSteps = 48` branches is enough for every passing program to reach `ret`. A program that ran out would stop short of `ret`, and `Returns` would report it. Each operator of a short circuit is tried on both levels and with both truth values of its left operand. This covers every pairing of the phi's incoming blocks. Array lengths are bounded by `ArrayLens = 1..3`, and struct types by `RowLens = 0..3` fields of `i64` or `i1`. The array programs write every element of a three-element array or all but the last, so both a written element and the literal's initial value are read back.
- **Parser bounds.** Every binary operator appears on both sides of a compound operand, which fixes the associativity. Each statement form appears once with all its optional parts and once without them.
- **Refinement bounds.** The mapping of `pending` counts each insert instruction once, which holds because no program of the runs puts an insert inside a scan body. The two tables `t` and `u` have names where neither extends the other. `storage_overlap` shows what happens otherwise. The duplicate-key pairs among the 72 programs exercise `Refuse`.
- **Fairness.** Weak fairness on `Next` only says that the single thread keeps taking its next step. `TableStore` assumes weak fairness only of `Stop`, which `Termination` of the detailed run provides. For the JIT run that thread is running the generated function, which `compile_and_exec` does. For the parse it is running `parse()`, which the driver calls directly.
- **Evaluation.** The parser operators pass each sub-parse result to a small follow-on operator, such as `Wrap`, `Closed`, `LetNamed`, `IfElse` or `ForInit`, instead of reading a LET-bound result several times. This keeps TLC's coverage pass, which expands every use of a definition, linear in the size of the parser.

## Plan for the remaining parts

1. Storage programs taken from parsed texts, composing `Parser` with `StorageCodegen`.

## Not modelled

- **leveldb itself**: it is a map from key to value that survives a restart. `show_tables` only prints, and `drop_table` is empty.
- **The engine runner and `reirc`:** process setup.
- **The legacy paths** `insert_codegen`, `executor.cpp`, `storage.cpp`, `leveldb_compiler.cpp` and `db_handle.cpp`: no entry point reaches them.
- **`util/slide.hpp`**: a string-view helper.
- **Stack memory written past a buffer.** The model keeps only the bytes inside `key_stack_`; `KeyFitsBuffer` checks that the pass programs never write past it. A key of another table in the cursor range is longer than `key_stack_` when that table's name extends the scanned one's by two or more bytes (the `ta` of `storage_overlap` is one byte longer, and the trailing `+ 1` of `get_fixed_key_length` still holds its key); what such a write overwrites on the stack is not modelled.
- **Analysis of the storage statements.** `Define::analyze`, `Insert::analyze`, `Scan::analyze`, `Emit::analyze` and `RowLiteral::analyze` run in statement order over one unscoped `variable_type_table_`. The only throw they can reach for the modelled programs is `VariableReference::analyze`'s "undefined variable" for an emit of a name no earlier scan declared. `EmitAlloca` rejects exactly those programs in the same pre-order, with the same outcome, so no separate analysis step is modelled for them.
- **`PointerOf`, `FunctionCall`, string and double values.** `PointerOf::get_value` reinterprets a value as a `LoadInst`, and a call targets a runtime function. Strings and doubles are a runtime struct and a floating-point layout that the emitted bytes would have to model. `convert_type` is modelled only as far as a member's type needs it.
- **Declared types that are not a fresh `TupleType`.** A declared array type makes `Let::analyze` dereference a null pointer. An attribute type that names another tuple resolves, but `convert_type` throws on it. The models declare each tuple variable once, so the attributes the alloca pass records are the ones analysis resolved.
