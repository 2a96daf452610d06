# TLA+ models of the DPDK market-data gateway

This directory holds TLA+ models of the gateway in `src/`. The gateway has two halves:

- a DPDK dataplane. It bridges a physical NIC and the kernel, and duplicates venue traffic into an HFT ring;
- venue sessions. Each keeps a TLS WebSocket subscription to a venue, parses order-book messages and republishes them over UDP.

The models are checked with TLC. `PROJECT.json` lists every run, mutant, finding and hazard, and maps each definition to the source lines it translates.

## 1. Inventory of the system

| Part | Source | State it keeps | Operations | Interacts with |
|---|---|---|---|---|
| C1 Classifier | `modules/classifier/classifier.h` | none (pure) | `classify(mbuf)` | C2 |
| C2 Forwarding dataplane | `core/forwarding.cpp`, `core/init.c` | mbufs in flight; burst arrays; port ids | rx_burst phy → classify → refcnt+1 / ring enqueue → tx_burst virt → free refused; rx_burst virt → tx_burst phy → free refused | C1, C3, NICs, kernel |
| C3 HFT ring | `main.cpp` (`rte_ring_create`) | up to RING_SIZE−1 mbuf handles | sp_enqueue (producer C2); dequeue (external consumer) | C2 |
| C5 WebSocket session | `modules/network/boost_websocket_client.{h,cpp}` | `connected_`, `connection_state_`, `retry_count_`, `retry_timer_`, `ws_`, `incoming_queue_` (cap 10000), io thread | `connect`, `send`, `do_read`, `close`, `schedule_reconnect`, `attempt_reconnect_async`, `on_resolve/on_connect/on_ssl_handshake/on_handshake`, `simulate_network_failure` | C6, network, io thread |
| C6 Venue connection | `modules/exchange/okx_connection.cpp`, `bybit_connection.cpp` | `active_subscriptions_` | `connect`, `subscribe`, `resubscribe` (also the reconnect callback), `poll`/`process_message`, `send_heartbeat`, `send_order` | C5, C4, C7/C8 |
| C4 Venue adapters | `okx_adapter.cpp`, `unnamed/part_006` (bybit) | none | parse order-book JSON; subscribe and pong messages; ping and ack detection | C6 |
| C7 Order-book engine | `modules/common/aero_types.h` (order_book.cpp), `market_data/order_book.h` | per-venue, per-instrument bid/ask maps | `apply_snapshot`, `apply_update(s)`, `get_bbo`, `OrderBookManager::get_book` | C6 |
| C8 UDP publisher | `modules/network/websocket_framer.h` (udp_publisher.cpp) | socket and buffer | `init`, `publish`, `serialize_and_send` | C6 |
| C9 Orchestrator | `main.cpp` | `force_quit`, pool, ring, ports, connections | start-up sequence; signal handler | everything |
| Configuration | `config/config.c` | `app_config` | `config_load`, `parse_csv_symbols` | C5, C9 |

Threads:
- the forwarding lcore, which busy-polls;
- the main thread, which subscribes and connects and then runs the forwarding loop itself;
- one Boost.Asio io thread per session, which runs every completion handler and every posted send.

The NICs, the kernel behind the virtio-user port, the venues and the network act concurrently with all of them.

### Behaviours that make it hard

**Dataplane.**
- Reference counts are shared between the kernel path and the HFT ring.
- `tx_burst` may accept only part of a burst.
- The ring can be full.
- The ring's consumer frees its reference concurrently with the PMD.

**Sessions.**
- A session can fail at every async step.
- A write lambda and the read handler can both fail on one dead socket.
- The retry timer races with late completions.
- `close()` may run on the io thread itself.
- The reconnect callback runs on the io thread while the application subscribes.

### Correctness properties

- Every mbuf's refcount equals its holders: no leak, no double free.
- A FAST packet is on the ring and on the kernel path at most once.
- The classifier verdict matches spec §4.1/§8.
- At most one reconnection attempt is in progress at a time.
- The retry budget is respected, and giving up is final.
- The subscriptions are restored after every reconnect.
- The UDP feed's bytes are the format of spec 4.8, and a consumer that lost nothing holds the venue's book.
- Each server ping gets one pong, and nothing else does.
- The configured symbol list is the list that is subscribed.

## 2. Modules

| Module | Models | State ↔ code |
|---|---|---|
| `VenueConnection.tla` | C5 and C6 together: one session with its venue connection | see below |
| `MC_VenueConnection.tla` | Subs = {s1, s2} as model values, with a symmetry set | |
| `Forwarding.tla` | C2 and C3 with the NICs, the kernel and the ring consumer around them | see below |
| `Classifier.tla` | C1 as the operator `Classify`, applied to every packet in a bounded set | |
| `OrderBookSpec.tla` | what C7 promises (spec 4.7): one book, each message applied atomically, `get_bbo` = highest bid and lowest ask | |
| `OrderBook.tla` | C7: one `OrderBook` with writer threads in every entry of the manager and the book (`apply_update`, `apply_updates`, `apply_snapshot`, `clear`) and reader threads in `get_bbo` and `get_best_prices` | see below |
| `Shutdown.tla` | C9 and the system log: main, the signal handler, the worker lcore and the sessions' io threads, from the forwarding loop to the end of main | see below |
| `MC_Shutdown.tla` | the destruction order of the sessions (`bybit_conn`, then `okx_conn`) | |
| `MarketData.tla` | C4, C6's `process_message` and C8 end to end: venue → session queue → adapter → UDP datagram → consumer | see below |
| `Config.tla` | the symbol lists: `config_load`, `parse_csv_symbols`, and main's registration loop | see below |
| `MicroTcp.tla` | the vestigial DPDK TCP client (`micro_tcp.cpp`) against a correct server over a lossy link | see below |
| `MC_MicroTcp.tla` | initial sequence numbers just below the wrap | |
| `WsClient.tla` | the vestigial `WebSocketClient` (`websocket_client.cpp`) over MicroTcp's state and OpenSSL's handshake, against a cooperating server | see below |
| `MC_WsClient.tla` | two clients and one subscription key as model values | |
| `MC_Lanes.tla` | OrderBook, MarketData, MicroTcp and WsClient side by side (they share no state): the first step picks one lane and only that component moves | |
| `MC_Process.tla` | Forwarding (mbufs {b1, b2, b3}) and Shutdown side by side in the same way | |
| `Backoff.tla` | `config_load`'s `WS_RETRY_*` parsing and the delays of `schedule_reconnect` across consecutive failures, and the spec's formula and reference schedule | see below |
| `WsFrame.tla` | `WebSocketFramer::frame_message` (`websocket_framer.h`) and `WebSocketClient::process_websocket_frame` as pure operators over byte sequences, and RFC 6455's reading of a frame | see below |
| `NetUtils.tla` | the vestigial `NetworkUtils::get_gateway_mac` (`network_utils.cpp`): `get_gateway_ip`, `lookup_arp`, `ip_to_string`, over route and ARP tables as the kernel prints them | see below |
| `MC_Config.tla`, `MC_Pure.tla` | the default list; `MC_Pure` runs Classifier, Config, WsFrame, Backoff and NetUtils in five lanes (they share no state): the first state picks the lane, and the other lanes' variables stay at one value | |

### VenueConnection

| Variable | Code |
|---|---|
| `retry_enabled` | `retry_enabled_`, read once by the constructor; both values are initial states |
| `connection_state`, `connected`, `retry_count` | `connection_state_`, `connected_`, `retry_count_` |
| `retry_timer` | `"armed"` while an `async_wait` of `retry_timer_` is outstanding |
| `io_thread` | `io_thread_`: not started, running `ioc_.run()`, or ended |
| `sock` | the TCP socket of the current `ws_` |
| `pending` | a bag of the outstanding async operations: resolve, connect, ssl, ws, read |
| `posted` | the send lambdas queued on `ioc_` |
| `venue_subs` | what the venue holds on the current stream (environment) |
| `active_subscriptions` | `active_subscriptions_` |
| `incoming_queue`, `dropped` | `incoming_queue_` and the drop path of `do_read` |
| `app` | where the application thread is inside `subscribe` / `connect` |

Actions:
- application thread: `Subscribe`, `SubscribeSend`, `ConnectStart`, `ConnectFinish`, `ConnectResub`, `Poll`, `Heartbeat`;
- io thread: `TimerFire` (`attempt_reconnect_async`), `ResolveDone`, `ConnectDone`, `SslDone`, `WsDone`, `ReadError`, `ReadMessage`, `WriteRun`;
- network: `Break`.

`ScheduleReconnect`, `LinkError` (the error branch of the read and send lambdas) and `CloseOnIoThread` (`close()` called from a handler) are shared helpers. Each mirrors a whole function, so an action that calls them includes everything the call does. For example, giving up leaves a retry wait that is already armed outstanding, exactly as the code does.

Messages are abstracted to their kind and the subscription they concern. Backoff delays are not modelled here (Backoff.tla checks them on their own). Replacing `ws_` (`TimerFire`, `ConnectStart`) turns every operation still outstanding on the old stream into an aborted completion (`Abort`); `AbortedDone` runs its handler's error branch, and the io thread runs these before any completion of an operation started later (`AbortsDelivered`: asio queues them when the stream is destroyed). The constant `ErrorReapedFirst` names the one ordering assumption about the delays: the dead socket's error, which failed the write that armed the retry timer, has completed the outstanding read before the timer's expiry is handled. The code does not enforce it (`WS_RETRY_INITIAL_DELAY_MS=0` is accepted, and the reactor may report the write's failure before the read's); `venue_session` assumes it, and `venue_race` drops it and adds `AbortedDone` to the next-state relation (`RaceSpec`), which shows what the code then does (finding 4).

### Forwarding

| Variable | Code |
|---|---|
| `refcnt[m]` | the DPDK refcount of mbuf m; 0 means it is in the pool |
| `pkts`, `i`, `ktx` | `pkts_burst`, the loop index, `kernel_tx_burst` |
| `ring` | `hft_ring` |
| `held` | what the consumer has dequeued and not yet freed |
| `phy_rx`, `virt_tx`, `virt_rx`, `phy_tx` | the port queues |
| `has_virt` | `virt_port_id != RTE_MAX_ETHPORTS` |
| `cls` | the verdict of the classifier on the packet in each mbuf |

Loop steps:
- `RxPhy`;
- `Classify`, once per packet;
- `TxVirt`, which may accept any prefix of the batch and frees the rest;
- `Egress`.

Environment: `PhyArrive`, `KernelReceive`, `KernelSend`, `PhyTxDone`, `ConsumerDequeue`, `ConsumerFree`.

`RingCapacity` is `RING_SIZE − 1`. This is DPDK's capacity for a ring created without `RING_F_EXACT_SZ`.

### Classifier

`Encode` lays an IPv4 header out as 16-bit words. `Classify` reads them where the code reads bytes: the TCP ports are at `(version_ihl & 0xf) * 4`. `RefVerdict` is the spec's verdict.

### OrderBook

| Variable | Code |
|---|---|
| `bids`, `asks` | `bids_` (`std::map` ordered by `std::greater`) and `asks_` (`std::less`); a price the map does not hold is `NoLevel` |
| `lock` | `mutex_` held uniquely by a writer; readers take it shared, so `GetBbo` only needs no writer to hold it |
| `pc`, `updates`, `idx`, `snapshot` | a writer's position in `apply_snapshot`/`apply_updates`, the `std::vector<OrderBookUpdate>` built by the manager, the range-for index, and whether the call clears both sides first (`is_snapshot`, or `clear`) |
| `bbo` | what a reader's last `get_bbo` returned (`{}` for `false`) |

`ApplyUpdates` is a writer taking the book's unique lock with a vector of updates: the manager's `apply_updates`, or the book's `apply_snapshot`/`apply_updates` called directly; pre-parsed updates may carry `is_delete` on any quantity. `ApplyUpdate` is the manager building the updates first (bids then asks, `is_delete = size <= 0`), `ApplyUpdateOne` the book's `apply_update` (one update) and `ClearBook` its `clear` (the critical section of a snapshot of nothing). `GetBestPrices` is `get_bbo` on the book `get_book` returns; the cast of the prices to `double` is exact for them. `Clear` is the two `clear()` calls of `apply_snapshot`. `ApplyOne` is one `apply_update_internal`. `Unlock` is the end of the call. `GetBbo` reads `begin()` of each map under the map's own order.

The refinement mapping `AbsBook` is the maps when the lock is free. While a writer holds the lock, it is what the maps will be once the writer finishes its loop (`Finish`). Every writer's abstract step is therefore the call that takes the lock; its other steps are stutters. The model holds the one book `get_book` returns for a key: books of other keys share nothing but the `books_` map, whose insert is reached from one thread in this program.

### Shutdown

| Variable | Code |
|---|---|
| `force_quit` | `volatile bool force_quit`, set by `signal_handler` |
| `main_pc`, `dk` | main's position: start-up logging, `lcore_forward_loop`, `rte_eal_wait_lcore`, `close_ports`, `logging_shutdown`, `rte_eal_cleanup`, then for each session destructor (`dk`) the three steps of `close()` |
| `worker_pc` | `run_logger` on the worker lcore |
| `log_open` | `system_log_file.is_open()` |
| `lpc`, `sink`, `lines` | a thread inside `LOG_SYSTEM`, the stream `get_system_log_stream` returned, and how many lines it has begun |
| `lost` | a piece of a line was written into the closed ofstream |
| `connected`, `posted`, `stopped`, `io`, `frame_sent`, `closing` | `connected_`; the close lambda posted by `close()`; `ioc_.stop()` called; `run_io_context` returned; `ws_->close()` ran; `connected_` was true when `close()` ran |

`LOG_SYSTEM` is split into two steps: `LogBegin` (choosing the stream and writing the timestamp) and `LogEnd` (the rest of the line). The code writes between them and takes no lock. An io thread starts no new handler once `stopped`, and `run()` returns once no handler is running. A handler that was posted but never ran stays in the queue.

### MarketData

| Variable | Code |
|---|---|
| `inq` | each session's `incoming_queue_`, holding the venue's documents |
| `net` | the datagrams `sendto` queued, in order |
| `pongs` | pongs `process_message` sent |
| `vbook`, `cbook` | the venue's book per (exchange id, symbol bytes) (spec reading) and the book a consumer builds from the datagrams |
| `synced` | ghost: no datagram of that key was dropped since its last snapshot was sent |
| `pings`, `sent`, `drops` | counters: server pings, messages sent, datagrams dropped (each bounded) |

A JSON document is a record holding every key the adapters read, `Absent` for a missing one. A number string is `[digits, point]`, or `Junk`, on which `std::stod` throws. `OkxParse` and `BybitParse` are `parse_orderbook_message`: the channel or topic test, the snapshot flag (`books5` has no `action` and is a snapshot), the first data item only, and the price `round(stod * 1e8)`. `SerializeAndSend` lays out the 24-byte header and the 16-byte levels byte for byte, big-endian; counts are narrowed to 16 bits. `Publish` either queues the datagram or loses it (`EAGAIN`, ignored by the code). The consumer (`Valid`, `DecodeUpdates`, `Receive`) is the decoder of spec 4.8; nothing in the repository reads the feed. `ProcessMessage(v)` is one turn of `OkxConnection::poll` with `process_message`; `BybitProcessMessage` is `BybitConnection`'s, the same dispatch under `ExchangeId::BYBIT` (its `!pong.empty()` test always holds, the Bybit pong being a constant).

### Config

`env` is the value of `TRADING_SYMBOLS_OKX` (or `Unset`), a sequence of letters and commas. `ConfigLoad` is `config_load`'s symbol branch: the defaults when unset; nothing when empty (the early return); otherwise `parse_csv_symbols`, whose array has `1 + commas` entries of which only the `strtok` tokens are written (`Uninit` for the rest). `RegisterSymbols` is main's loop over `okx_symbol_count`. Reading an unwritten entry is undefined behaviour: the model lets it read as NULL (skipped) or as a stray pointer (`Garbage`, subscribed). The Bybit list goes through the same lines.

### MicroTcp

The client is the code; the server is the environment. `state`, `iss`, `snd_una`, `snd_nxt`, `rcv_nxt` and `rx_buffer` are the fields of `MicroTcp` (`state_`, `iss_`, `snd_una_`, `snd_nxt_`, `rcv_nxt_`, `rx_buffer_`); `app` is what `extract_rx_data` has handed out. A segment is a record of its flags, `sent_seq`, `recv_ack` and payload; a server byte is its position in the stream, so an out-of-order or repeated byte is visible. `Connect`, `SendData` and `CreatePacket` are `connect`, `send_data` and `create_tcp_packet` (the SYN carries `iss_` and ack 0, and consumes one number). `ProcessRx` is all of `process_rx` for the segment at the head of the link: the SYN-ACK test (`ack == iss_ + 1`), in-order data (`seq == rcv_nxt_`) with the buffer cap, the re-ACK of older data (unsigned `<`), the silent drop of newer data, the `snd_una_` update, the FIN, FIN_WAIT_2, and every ACK it builds, in order. The address, port, length and checksum filters pass: both ends are the configured ones.

The server answers the SYN, sends `StreamLen` one-byte segments and a FIN, acknowledges the client's data and retransmits its oldest unacknowledged segment on a timeout (go-back-N). Its timer fires only when the client's answers have reached it (a timeout longer than a round trip), which keeps the links bounded while still producing spurious duplicates. The server-to-client link may lose up to `MaxLoss` segments.

Sequence numbers are `uint32_t`. TLC's integers stop below 2^31, so the model takes them modulo 2^16; the code only adds to them and compares them with `==` and `<`, so with initial numbers at 2^16−1 (client) and 2^16−2 (server) every comparison crosses the wrap as it would at 2^32.

### Backoff

`retry_env` holds the five `WS_RETRY_*` variables, each `Unset` or the sequence of its characters. `params` is what `config_load` makes of them (`ConfigLoadRetry`: `get_optional_env` with the defaults, `strcasecmp`/`strcmp` for the switch (`IsTrue`), `atoi` for the integers, `strtod` for the multiplier) and the constructor copies into the `retry_*_` fields. `retry_count` and `bstate` are `retry_count_` and `connection_state_`; `delays` is the sequence of waits armed so far. `ScheduleReconnect` is one call after a failure, with nothing succeeding in between and retries enabled: the give-up test, the increment, then `RetryDelay` for the new count: the `double` loop `Grow`, the cap, and the `(long)` cast for `expires_after`. A `double` is an exact rational (`[num, den]`, in lowest terms); every multiplier parsed here is exact in binary. `SpecDelay` is spec 4.5's formula and `ReferenceDelays` spec 8's test vector 3.

### WsFrame

`FrameMessage(buflen, payload, opcode, mask, tsc)` is `frame_message` with the timer reading `tsc`: its result is the return value and the bytes written. `HeaderLen` is the size computation and the buffer check, `LenField` the second byte and the extended length, `HostBytes` the memory image of an integer on the little-endian host (what `memcpy` copies) and `CpuToBe` `rte_cpu_to_be_16/64`, which reverses that image. The masking key is the low 32 bits of the timer, copied the same way; the payload is XORed with it byte by byte. The check side reads the frame as RFC 6455 §5.2 says a server does (`Rfc6455Header`, `Rfc6455Payload`, with `NetworkOrder` for the extended lengths) and `IsFrameOf` states what it must find.

`ParseFrame` is the client's own reader, `WebSocketClient::process_websocket_frame` up to its opcode dispatch: the early returns (`NoMessage`) below two bytes, before the extended length and when the key or payload is incomplete (`FrameComplete`), the header (`FrameHead`, with `HostValue` of the swapped image for `rte_be_to_cpu_16/64`), and the unmasking loop. The JSON dispatch after it is not modelled; nothing in the program calls the function (`handle_tls_data` and `handle_tcp_data` above it are unreachable).

### NetUtils

`route_table` and `arp_table` are the kernel's routes and neighbours, an address being its four octets in network order; `route_open` and `arp_open` whether the two files open. `RouteLine` and `ArpLine` are what the kernel prints: a route's destination and gateway as `%08X` of the `__be32` read as a native (little-endian) integer, a neighbour's address as its dotted quad and its MAC as six two-digit hex fields. `GetGatewayIp` is `get_gateway_ip`: the first row whose destination text is `00000000`, its gateway text through `std::stoul(.., 16)` (`Stoul16`) and `ntohl` (`Ntohl`, a byte swap). `LookupArp` is `lookup_arp`: the first row whose address text equals `ip_to_string` (`IpToString`: `htonl`, then `inet_ntop` of the bytes in memory) and whose MAC text `sscanf` reads as six fields (`ScanMac`). `GetGatewayMac` is the whole of `get_gateway_mac`. `DefaultGateway` and `NeighbourHw` read the tables directly, as the kernel means them. Nothing in the program calls these functions.

### WsClient

`state`, `subscriptions` and `sni` are `state_`, the keys of `subscriptions_`, and whether `set_hostname` was called on the client's `tls_socket_`. `sni_set`, `client_hello_sent` and `error_with_data_count` are the function statics of `process_rx`: one value for the whole process, shared by every client and never reset. `tcp` is `tcp_client_.get_state()`; `hole` is whether `snd_nxt_` counts a segment that was never sent, after which the server discards everything (MicroTcp.tla models the numbers themselves). `tls` is the OpenSSL session: `DoHandshake` is `TlsSocket::do_handshake` (`boost_websocket_client.cpp:380`, the TlsSocket class is carried in that file): on a fresh session it writes the ClientHello and returns 0 (want read); with the server's flight fed it writes the Finished and returns 1; an alert fails it; a finished session returns 1 and writes nothing. `Encrypt` is `TlsSocket::encrypt`'s guard: it refuses (returns -1) until the handshake has finished, and `GenerateWebsocketFrame` sends nothing then.

`ProcessRx` is all of `process_rx` for one segment: MicroTcp first (`TcpRx`), `extract_rx_data`, then the switch, with the fallthrough from CONNECTING_TCP. `TlsPoll` is the TLS case: the first-hello branch, the feed loop with its upgrade on completion, the `do_handshake` after the loop with its own upgrade, and the error count. `Subscribe`, `Unsubscribe`, `SendTextMessage`, `Disconnect` and `Connect` are the public methods. `wire` is what has been transmitted since the last `connect()` and `frames` what the caller has asked for since then.

The server answers SYN, ClientHello, Finished and the upgrade request, swallows text frames, and fails the connection (FIN) on anything else. The caller's poll loop (`ProcessRx`) and the server are weakly fair; the caller's own calls are not. The private reconnect, heartbeat and frame-parsing methods (`initiate_reconnect`, `restore_subscriptions`, `handle_ping`, `generate_pong`, `parse_subscription_response`, `handle_tcp_data` and `handle_tls_data` below it) are reached from nowhere, so they are not actions.

## 3. Runs

Pure computations and configuration:

| Run | Result | Shows |
|---|---|---|
| `pure` (`MC_Pure.cfg`) | pass, 10,148 states | classify agrees with the spec on every well-formed first fragment, IHL 5 and 6; every symbol list without an empty field, up to 3 characters, is subscribed exactly and in order (`WellFormedListRegistered`); `frame_message` refuses exactly the buffers too small for the frame and otherwise writes the RFC 6455 frame of the payload: FIN, opcode, mask bit, shortest length form in network order, key, masked payload (`FrameMatchesRfc`); `process_websocket_frame` reads every such frame back to its opcode and payload and takes the frame one byte short for no message (`FrameRoundTrip`); for the parameters `config_load` parses from set, unset and malformed `WS_RETRY_*` values, `schedule_reconnect`'s k-th wait is min(initial·multiplier^(k−1), max) in whole milliseconds, it gives up after exactly `max_attempts` waits, and an unset environment gives spec 8's schedule (`BackoffMatchesSpec`); `get_gateway_mac` returns true exactly when the kernel lists a default route and a neighbour entry for its gateway, and returns the first such entry's MAC: the hex of `/proc/net/route`, `stoul`, `ntohl`, `htonl` and `inet_ntop` compose to the gateway's own dotted quad (`GatewayMacFromTables`) |
| `config_symbols` (`MC_Config.cfg`) | violation | the value `","` (or `"a,"`) leaves entries unwritten that main reads; a stray pointer is subscribed |

Order book, market data and the DPDK TCP and WebSocket clients (`MC_Lanes`, four independent lanes):

| Run | Result | Shows |
|---|---|---|
| `lanes` (`MC_Lanes.cfg`) | pass, 47,565 states | Order book: `SnapshotExact` (spec 8), a snapshot (or a clear) leaves exactly its positive, undeleted levels after any history of deltas through any entry point; `TypeOK` includes that no size-0 level is stored; `ObeysSpec`, the locked book implements `OrderBookSpec`, so no reader sees a half-applied message and `get_bbo` returns the highest bid and lowest ask. Market data: `WireFormat`, every datagram has the spec 4.8 layout; `FeedMatchesVenue`, a consumer that lost no datagram of a key since its last snapshot holds the venue's book; `PongPerPing`, one pong per server ping and none for Bybit's reply to our heartbeat. TCP: `HandshakeCompletes` across lost and retransmitted SYN-ACKs, and `DeliveredIsPrefix`, the bytes handed to the caller are exactly a prefix of the stream across loss, retransmission and the sequence wrap. WebSocket: `FirstAttemptEnds`, two clients sharing `process_rx`'s statics each end their first `connect()` connected or disconnected; the second client's ClientHello goes out through the `do_handshake` after the feed loop, since `client_hello_sent` is already set |
| `tcp_acked` (`MC_MicroTcp_Acked.cfg`) | violation | byte 2 is lost, the FIN arrives next, and `process_rx` consumes it anyway: `rcv_nxt_` acknowledges a byte that never arrived |
| `ws_wire` (`MC_WsClient_Wire.cfg`) | violation | `WireIsProtocol`: after connect, SYN-ACK, ClientHello and the server's flight, the feed loop completes the handshake and sends the upgrade request, and the `do_handshake` after the loop returns 1 again and sends a second one |

Dataplane, shutdown and logging (`MC_Process`, two independent lanes):

| Run | Result | Shows |
|---|---|---|
| `process` (`MC_Process.cfg`) | pass, 48,394 states | Dataplane: `RefcountExact`, `RingHoldsDuplicates` and `BuffersReturn` hold across partial bursts, a full ring and the consumer, with the virtual port present or absent. Shutdown: `ShutdownCompletes`, after a signal main returns; every `join` returns, because `close()` stops the io_context that the work guard keeps alive |
| `log_interleave` | violation | two threads are mid-line on the system log at once; the mutexes of `logging.cpp` are never taken |
| `log_lost` | violation | an io thread picks the log file, and main's `logging_shutdown` closes it before the line is finished; the sessions are closed only afterwards, in main's destructors |
| `close_frame` | violation | `close()` posts `ws_->close()` and stops the io_context; the io thread returns without running it |

Venue session:

| Run | Result | Shows |
|---|---|---|
| `venue_session` (`MC_VenueConnection.cfg`) | pass, 176,755 states | with `ErrorReapedFirst`, `OneAttemptAtATime`, `RetryBudget` and, with retries on, `SubscriptionsRestored` and `RecoveryEnds` (every dead socket or reconnection ends Connected on a live socket or Disconnected) hold under every interleaving of faults, writes, reads and the timer |
| `venue_give_up` (`MC_VenueConnection_GiveUp.cfg`) | violation | with max_attempts = 1, a write error and a read error on the same dead link call `schedule_reconnect` twice. The session gives up while a retry wait is still armed, then reconnects on its own |
| `venue_race` (`MC_VenueConnection_Race.cfg`) | violation | `OneAttemptAtATime` without `ErrorReapedFirst`: a write error on the dead link arms the timer, the timer fires before the read's error, `attempt_reconnect_async` destroys the old stream, and the aborted read's error branch calls `schedule_reconnect`: a retry wait is armed beside the resolve just started |

Every property of a passing run has a mutant in `PROJECT.json`: a plausible bug in the mapped code that TLC detects. Examples:
- a resubscribe callback that runs before `connected_` is set;
- a send lambda without its `connected_` recheck;
- a read error branch that never calls `schedule_reconnect`;
- no free of the duplicate when the ring is full;
- a fixed 20-byte IP header.

### Bounds and why they suffice

**VenueConnection.**
- Two subscriptions: one registered before connect and one registered during a session.
- `MaxAttempts` = 2, so a failed attempt can be followed by a successful one, and the give-up path is also reached.
- `QueueCap` = 2, so the drop path is reached.
- Three network faults: a break, a failed reconnect step, and a second break after recovery.
- One venue ping or application heartbeat.
- One `connect()`, as in `main.cpp`.
- `venue_race`: one fault (the break), `MaxAttempts` = 2 so the second `schedule_reconnect` still arms a wait; TLC reaches the violation at depth 9.

**Forwarding.**
- Three mbufs, bursts of 2 and RX queues of 2. With these, one mbuf can be recycled while two others are still held.
- A ring of 3, which is 2 usable slots, so the ring becomes full.

**OrderBook.**
- Two writers and one reader; the writers contend for the lock.
- Prices {1, 2}, so each side can have a best and a worse level.
- Sizes {0, 1}: 0 deletes, 1 sets.
- `MaxLevels` = 1 level per side per message, so a message has up to two updates. The abstract step quantifies over every message of that length, and a larger bound makes each refinement step too costly. The cases that matter are all reached:
  - a snapshot that must remove a level at the other price;
  - a delta that deletes the best level;
  - a read between `clear()` and the first level.

**Classifier.**
- IHL 0–6, so it covers malformed headers, the plain header and a header with options.
- Port and payload words from {80, 443, 8443}.
- Both fragment states, TCP and UDP, IPv4 and ARP.

**MarketData.**
- Both venues, one instrument, one level per side: both document formats and each snapshot rule are exercised.
- `MaxMsgs` = 2 venue messages, so a delta can follow a snapshot or a ping; with 3 the run takes about four minutes.
- One datagram may be lost (`MaxDrops` = 1), which is what makes `synced` false.
- A junk price text, so the `stod` exception path is taken.

**MicroTcp.**
- A stream of 2 bytes and a FIN, so a byte can be lost with another byte or the FIN behind it.
- Up to 2 losses: a lost SYN-ACK and a lost byte in one behaviour, or a retransmission lost again.
- At most 3 segments in flight to the client, and one `send_data`.
- `MAX_RX_BUFFER_SIZE` = 2, so the cap is present but not hit, as with the real 10 MB and a caller that drains after each segment.
- Initial numbers next to 2^16 (see above), so the SYN, the bytes and the FIN straddle the wrap.

**WsClient.**
- Two clients, because the statics are shared between instances; one subscription key.
- In `lanes`: one `connect()` per client and one frame per connection, which keeps the liveness check small; the branches of `TlsPoll` the cooperating server reaches are all taken: the first hello, completion inside the feed loop followed by the second `do_handshake`, and the second client's hello sent after the loop.
- In `ws_wire`: two frames per connection. With `MaxConnects` = 2 the same invariant also catches the reconnect without a SYN (disconnect leaves MicroTcp ESTABLISHED); the shortest trace is the double upgrade.
- `ServerNeedsSni` is FALSE: with TRUE the second client's ClientHello, sent without a server name, is refused, and the alert path and error count are reached.

**Config.**
- Letters {a, b} and commas, values up to 3 characters: every placement of an empty field (leading, trailing, doubled, alone) occurs.

**Backoff.**
- Each `WS_RETRY_*` variable unset or set: `TRUE` (in capitals) or `yes` (which `strcasecmp` does not take, so retries are off); `3` attempts or `ten` (which `atoi` reads as 0); an initial delay of 500; a cap of 4000; a multiplier of `1.5`, `0.5` or `x` (which `strtod` reads as 0). That is 144 environments: the unset one gives the reference parameters (1000, 2.0, 30000, 10 attempts), whose sixth wait reaches the cap; `1.5` gives fractional waits that the cast truncates (3375 ms at the fourth); the 4000 cap is crossed in several places. Every behaviour with retries on runs to the give-up.

**WsFrame.**
- Payload lengths 0, 5, 125, 126, 65535 and 65536: each side of both length-form boundaries (7-bit, 16-bit, 64-bit), with 5 making the four-byte key wrap. Opcodes text (1) and close (8), masked and unmasked, and a buffer one byte too small and one that fits exactly, so both outcomes of the size check occur for every length form. The timer value 0x01020304 has four distinct key bytes, so a key copied in the wrong order or applied at the wrong offset shows.

**NetUtils.**
- Route tables of up to two rows drawn from default routes via either of two gateways or via none (an on-link default, gateway `0.0.0.0`) and a network route, in every order; ARP tables of up to two rows for either gateway with a real or an all-zero MAC; either file missing. So a table with two default routes, a default route with no ARP entry, two entries for one address, and an ARP entry for the wrong gateway all occur. The addresses (10.0.2.1, 100.64.0.7) have first and last octets below 128, so both byte orders fit TLC's 31-bit integers, and neither reads the same backwards, so a missing swap shows.

### Fairness

| Actor | Fair? | Why |
|---|---|---|
| io thread (every completion handler and posted send) | weak fairness | Asio runs every ready handler |
| application steps inside a call it has begun | weak fairness | the application thread finishes a call it is in |
| forwarding loop | weak fairness | it busy-polls on a dedicated core |
| PMD TX completions, the kernel draining the virtual port, the ring consumer | weak fairness | they keep making progress |
| order-book writers and readers | not fair | only safety is checked |
| main, the worker, the end of a started log line, the io thread's handlers and its return from `run()` (Shutdown) | weak fairness | they are threads with work to do |
| the signal, new log lines, link changes (Shutdown) | not fair | they need not happen |
| the client's poll loop calling `process_rx` (MicroTcp) | strong fairness | a segment retransmitted forever over a fair-lossy link is eventually at the head of the queue when polled |
| the server's transmissions and retransmission timer (MicroTcp) | weak / strong fairness | a correct peer keeps sending and its timer keeps firing while data is unacknowledged |
| the caller's poll loop calling `process_rx`, and the server answering (WsClient) | weak fairness | the caller polls every segment it receives; the server is assumed to cooperate |
| application-initiated calls, venue messages, packet arrivals, network faults | not fair | nothing forces them to happen |

`CHECK_DEADLOCK FALSE` is set only for VenueConnection, Classifier, Config, MarketData, MicroTcp, WsClient (and so `MC_Lanes`) and Shutdown (and so `MC_Process`) (the process ends, or the bounded venue stops sending):
- A session that has given up, or that has used up its fault budget, really does go quiet.
- Classifying one packet ends, and so does loading the configuration.
- A TCP connection ends once the stream and the FIN are through; a WebSocket client stops once its connect bound is spent.
- MarketData has no fairness: its properties are safety properties stated for quiescent states, which every behaviour reaches once the venue's message bound is spent.

## 4. Findings

1. **Double `schedule_reconnect` on one dead link** (`boost_websocket_client.cpp:99` and `:123`). Each link failure costs two retries. The give-up can leave a wait armed, which later reconnects from Disconnected. The spec says the session remains DISCONNECTED.
2. **Uninitialised symbols** (`config.c:46`, read at `main.cpp:166`). `parse_csv_symbols` counts `1 + commas` entries but `strtok` skips empty fields; for `"A,"` or `","` main reads entries never written.
3. Noted, without a run: with retries off, `close()` on the io thread self-joins and the thread dies, leaving `connection_state_` Connected; nothing ever reads `connection_state_`. The HFT ring holds 2047 handles (`RING_SIZE − 1`), not the 2048 the spec states.
4. **Second reconnection from a replaced stream** (`boost_websocket_client.cpp:230`). `attempt_reconnect_async` replaces `ws_` without cancelling or waiting for the old stream's read. If the retry timer's expiry is handled first, the read completes with `operation_aborted`, its lambda takes that for a link error and calls `schedule_reconnect`, and a second wait is armed beside the attempt in progress, and its expiry would replace `ws_` under that attempt. The spec gives a session one stream and one reconnect state machine. Also noted, without a run: `classify` (`classifier.h:75`) reads the words after the IPv4 header as ports without looking at the fragment offset, so a non-first fragment whose payload words read 443 or 8443 is FAST.
5. **Unsynchronised logging** (`init.h:59`). `LOG_SYSTEM` takes no lock. The mutexes in `logging.cpp` are declared and never used.
6. **Logging closed under running sessions** (`main.cpp:216`). The sessions are closed only by destructors, after `logging_shutdown` and `rte_eal_cleanup`.
7. **Close frame skipped** (`boost_websocket_client.cpp:177`). `ioc_.stop()` follows the post of the close at once.
8. **FIN accepted out of order** (`micro_tcp.cpp:223`). In ESTABLISHED, any segment with FIN set advances `rcv_nxt_` past it without checking its sequence number, so a lost byte before the FIN is acknowledged and never retransmitted. A duplicate FIN in FIN_WAIT_2 advances `rcv_nxt_` again.

9. **Second upgrade request** (`websocket_client.cpp:261`). When the feed loop completes the handshake it sends the upgrade request; the `do_handshake` after the loop then returns 1 on the finished session and sends it again. The server reads a second upgrade as a bad frame and closes.
10. Noted, with the same invariant but no run of their own: `send_text_message` copies `[begin, begin)` (`:350`), so subscribe and unsubscribe frames are numbered and never sent, leaving a hole in the byte stream; `process_rx`'s statics (`:81`) are shared by every client and never reset, despite their comment, so the second client's ClientHello has no server name; `disconnect` leaves MicroTcp ESTABLISHED, so a later `connect()` sends no SYN. The reconnect and heartbeat machinery is unreachable: nothing calls `initiate_reconnect`, so `try_reconnect` never acts and `check_heartbeat` only logs.
11. Noted, checked outside the run list: with a server that requires SNI (`ServerNeedsSni <- TRUE` in `MC_Lanes.tla`'s WsClient instance, one connect per client), `FirstAttemptEnds` is violated. The second client's ClientHello has no server name because the shared `sni_set` is already true; the server alerts and closes, the error count reaches 1, and no more data arrives to reach the 3 that would give up, so the client stays in CONNECTING_TLS. The lanes run uses a server that does not require SNI.
12. Noted, without a run: `generate_websocket_frame` (`websocket_client.cpp:431`) pushes the high byte of `rte_cpu_to_be_16(len)` first, so on a little-endian host an extended length goes out byte-swapped (likewise the 64-bit form). It is masked in this program: text frames are never sent (`:350`) and close frames are empty. `WebSocketFramer::frame_message` does it right (`FrameMatchesRfc`).
13. Noted, without a run: `lookup_arp` (`network_utils.cpp:99`) ignores the flags column of `/proc/net/arp`, so an incomplete entry (flags 0x0, MAC `00:00:00:00:00:00`) yields the all-zero MAC with `true`. `GatewayMacFromTables` states what the code returns (the first entry's MAC, zero or not); the byte-order path is what it checks. `get_gateway_ip` likewise takes the first default route in file order, not the one with the lowest metric. Nothing calls `get_gateway_mac`.
14. Noted, without a run: `config_load` takes any `WS_RETRY_*` text. `atoi` reads `ten` as 0 attempts, so a session with retries on never retries; `strtod` reads `x` as a multiplier of 0 and accepts `0.5`, so the waits after the first are 0 ms, or shrink. Spec 8's backoff monotonicity ("non-decreasing") then fails, while `BackoffMatchesSpec` holds: the code computes the spec's formula faithfully for whatever it parsed. Anything other than `true` in any case, or `1`, switches retries off.

## 5. Plan for the remaining parts

In order of importance:

1. **OrderBookManager** (C7). Every entry point is an action on one book. Left: the per-(venue, instrument) map itself and its unlocked `get_book` insert; its only concurrent caller would be the unused DPDK client.
2. **Adapters** (C4). Done for parsing and ping/ack detection, and Bybit's `process_message` (`BybitProcessMessage`). Left: `generate_subscribe`/`generate_pong`, which build constant strings.
3. **Orchestrator** (C9). Shutdown is done. Left: the start-up order (subscribe before connect) and the case with no worker lcore.
4. **Session as a refinement.** An abstract session (Disconnected / Connected / Retrying with a budget) implemented by VenueConnection via INSTANCE … WITH; as long as the double `schedule_reconnect` (finding 1) stands, the abstract give-up would have to be non-final. The delay schedule itself is done (Backoff).
5. **Vestigial stack.** `micro_tcp.cpp`, `websocket_client.cpp`, TlsSocket and `frame_message` are modelled. Left: byte-level TLS record framing (a record split across segments is dropped, `:128`) and the client's own frame bytes.

## 6. Not modelled

- Most of the vestigial DPDK TCP/TLS stack. `main` never uses it, and the spec excludes it. `micro_tcp.cpp` is modelled for its sequence bookkeeping and `websocket_client.cpp` for its control flow; the bytes of TLS records and of the frames `generate_websocket_frame` builds, its checksums and header layout, and the `NetworkUtils` helpers other than `get_gateway_mac` (`resolve_hostname`, `get_nic_mac`, `get_interface_ip`, `get_source_ip`: calls into `getaddrinfo`, DPDK and `getifaddrs` that take the first result), are not.
- Logging output.
- The scripts.
- The `packet/classifier.c` stub.
- Timestamps and statistics counters in the dataplane. They change nothing that is checked.
