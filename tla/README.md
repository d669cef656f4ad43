# Verification of the FRDM-K64F e-paper Ethernet clock

TLA+ models of the clock's firmware, TLC configurations that check them on small instances,
and TLAPS proofs that hold for every value of the constants. File names below are relative to
`src/`; `main` is `source/main_epaper_clock.c`.

| module | what it is |
| --- | --- |
| `Eink` | the panel and the driver calls of `source/eink_control.c` |
| `MinuteDisplay` | what the clock promises who looks at it (abstract) |
| `EpaperClock` | `main()`, `updateData()`, the seconds interrupt, the setting of the RTC; extends `Eink`, is shown to implement `MinuteDisplay` |
| `EpaperClockProofs` | theorems about `EpaperClock` |
| `TimerService` | what lwIP's timers promise (abstract) |
| `SysTimeouts` | `lwip/src/core/timeouts.c`, shown to implement `TimerService` |
| `Sntp` | `lwip/src/apps/sntp/sntp.c`, with the timers of `TimerService` |
| `Weather` | the HTTP requests of `main` on lwIP's raw TCP |
| `Dns` | `lwip/src/core/dns.c`, the resolver SNTP and the weather requests share |
| `Dhcp` | `lwip/src/core/ipv4/dhcp.c`, from DISCOVER to the end of the lease |
| `FrameQueue` | what a descriptor ring promises (abstract) |
| `EnetRing` | `lwip/port` and the rings of `drivers/fsl_enet.c`, shown to implement `FrameQueue` |
| `Calendar` | from an NTP answer to local time: `sntp_process`, `drivers/fsl_rtc.c`, `isDst`, `getLocalizedTime` |
| `Paint` | the painting of `updateData` with `paintDrawString` and Font12, dot by dot |
| `SysTimeoutsProofs`, `SntpProofs`, `WeatherProofs`, `DnsProofs`, `DhcpProofs`, `EnetRingProofs` | theorems about the module they are named after |
| `FaceProofs` | theorems about `Calendar` and `Paint` |
| `MC*` | values of the constants for TLC |

To check: `tlc -config MCClock.cfg MCEpaperClock` (and so on, see *Runs*); `tlapm EpaperClockProofs.tla` and
so for each of the `*Proofs` modules.

## 1. Inventory

The program is one thread without an operating system (`NO_SYS 1`), two interrupts, and a panel
that draws by itself. It draws the minute, the date and the weather of Boston.

| part | state | operations | works with |
| --- | --- | --- | --- |
| main loop, `main:732-875` | `g_SecsFlag` | poll the Ethernet, check timers, call `updateData` when the flag is set | everything |
| `updateData`, `main:641-727` | `imgBuffer`, `colorBuffer`, the three weather strings | read the RTC, clear at midnight and on the hour, paint, push, ask for the weather | RTC, panel, DNS |
| RTC and its seconds interrupt, `main:127-133` | TSR register, running or not | count, set the flag | set by SNTP |
| SysTick, `main:138-146` | `time_now`, a delay counter | count milliseconds | lwIP timers, panel delays |
| panel and driver, `source/eink_control.c` | SRAM, screen, refresh mode, BUSY | write, refresh, wait, set mode, push | `updateData` |
| lwIP timers, `lwip/src/core/timeouts.c` | sorted list, pool of 10, TCP timer flag | start, stop, check | all of lwIP |
| SNTP client, `lwip/src/apps/sntp/sntp.c` | retry timeout; its timers | request, receive, retry | DNS, timers, RTC |
| weather requests, `main:367-566` | `weather_pcb`, the strings | resolve, connect, write, parse, close | DNS, TCP |
| DNS client, `lwip/src/core/dns.c` | entries, requests, source ports, servers | ask, join, retry, answer, give up | SNTP, weather, DHCP (servers) |
| DHCP client, `lwip/src/core/ipv4/dhcp.c` | state, tries, request timeout, lease times | discover, select, check, bind, renew, rebind, decline, restart | timers, ARP, DNS (servers) |
| Ethernet port and driver, `lwip/port`, `drivers/fsl_enet.c` | two rings of descriptors, a pointer each | linkinput, linkoutput, poll | MAC, IP |
| calendar, `drivers/fsl_rtc.c`, `main:202-300` | RTC seconds register | seconds to date and back, daylight saving, local time | SNTP, `updateData` |
| painting, `source/eink_control.c`, fonts and icons | `imgBuffer`, `colorBuffer` | pixel, character, string, icon, clear | `updateData` |
| TCP, ARP, IP, UDP, pools of lwIP | vendored | | |

How they interact: everything runs in the one thread, as calls and callbacks of the main loop.
Beside it run only the seconds interrupt (sets a flag), SysTick (counts) and the panel. SNTP
talks to the clock by writing the RTC; the weather callbacks talk to it through three global
strings; `updateData` talks to the weather code by calling `dns_send_http_request`.

What is hard:

- **Sampling.** The minute is drawn when an update reads `tm_sec == 0`, the weather asked for
  when one reads 30. Updates block for up to three refreshes, seconds are only a flag, and SNTP
  moves the clock underneath.
- **The panel.** Four of five driver calls do not look at BUSY; the fifth may refuse and nobody
  looks at its result.
- **Timers.** The list is walked while its handlers change it, on a clock that wraps, in a pool
  whose exhaustion is an endless loop (`sys_assert`).
- **Falling silent or multiplying.** SNTP exists only as a timer or a pending DNS callback.
- **Tables that point at each other.** DNS entries, requests and ports are freed from four places;
  DHCP changes the servers under a query.
- **Two clocks for one lease.** DHCP counts minutes, the server seconds; one of three timers runs in
  a minute, in an order of its own.
- **Rings without a lock.** MAC and thread share descriptors by one bit each, and the MAC stops when
  it meets one that is not its own.
- **Results nobody looks at.** `tcp_new`, `tcp_connect`, `tcp_write`, the address DNS returns.

`PROJECT.json` lists the hazards at their lines, with the properties that cover them.

What makes each part correct:

| part | properties |
| --- | --- |
| clock and panel | the current minute gets on the screen, clean, drawn fast, and never a minute that was over when it was pushed; no command meets a drawing panel; the weather is asked for every minute; every minute is shown while it is current, again and again |
| timers | none early, lost, doubled or out of order; checking ends; the pool suffices |
| SNTP | one attempt at a time, never none, no request before the update delay is over |
| weather | a control block for every request, every one comes back; strings of one response; connections only to what DNS returned |
| DNS | everyone who asks is called back once, with the answer to the question, in time; no port stays open; names and ids are unique |
| DHCP | the address is not used after the lease, a renewal is tried before it ends, the clock always gets an address again |
| rings | each is a queue: no frame lost, doubled or overwritten; neither side stops for good |
| calendar | the RTC holds the server's time, also across the end of the NTP era; local time right on every day |
| painting | no write outside the buffers, no two dots on one bit, no two items on one place |

## 2. Models

### `Eink` and `EpaperClock`

The state is the panel (`sram`, `drawing`, `screen`, `mode`, `age`), the RTC (`rtc`, `running`),
the flag, the thread's place `pc` and its locals. `pc` is named after the call the thread makes
next; every driver call is an action of its own because the interrupt and the panel can come
between any two. A *frame* is the set of minutes whose text was drawn into it: that tells a
current minute from a stale one and a clean frame from an overprinted one. The black and the red
plane are always written together, so one frame stands for both.

A command sent to a panel that is drawing is obeyed or ignored (`Written`): the panel's
documentation says neither. `RTC_Seconds_IRQHandler` is the second passing: it advances the RTC
and the panel's clock and sets the flag. `PanelTick` makes every refresh end within `FastTicks`
or `FullTicks` seconds. `SntpSet` is `sntp_process`: any time at first, later a correction by one
of `Jumps`, at least `MinQuiet` seconds apart (see *Together*).

`MaxStall` says how many seconds may pass while the thread has work to do. 0 means that the loop
gets round within a second, which holds unless `updateData` waits for the panel (that is
not counted: the thread then has nothing it could do).

`WarmStart` is a reset of the processor that finds the RTC running: the seconds interrupt may be
pending when `RtcInit` enables it, and the main loop then makes one update by the old time.

`MinuteDisplay` knows the face of the current minute, what the display keeps, draws and shows. It may show
the current minute late or not at all, draw again what it drew last, or blank itself; another minute it
cannot show. The refinement mapping (`Display`) makes `now` the local time of the RTC and `kept` the SRAM: a
push the panel takes is `Show`, a refresh of the SRAM `Repeat`, `einkClearFrame` is `Forget`, and a command that a busy
panel ignores a stutter.

Time runs modulo a `Cycle` of days. Calendar dates are not modelled; daylight saving is any set
of hours (`DstHours`), applied as `getLocalizedTime` does, by the hour in standard time.

### `TimerService` and `SysTimeouts`

`TimerService` knows a bag of timers with the time left to each. `SysTimeouts` is the code: a
list sorted by `TIME_LESS_THAN` on a clock modulo `ClockModulus` (2^32 in the code), a pool, the
loop of `sys_check_timeouts` in steps (`CheckBegin` samples the clock, `Expire` unlinks and calls,
the `...Return` actions are what happens after a handler), so that SysTick and the users' calls
inside handlers interleave. `MaxLate` bounds how late a timer can be: the thread waits for the
panel for seconds at most. `Service` is the refinement mapping.

### `Sntp`

Polling with one server name (`SNTP_MAX_SERVERS` is 1: the second name `main` sets is ignored).
Timers are a `TimerService` bag limited to `Slots` = 10 - 5 cyclic - 1 TCP = 4. Time is counted in
units of the receive timeout, 15 s; all delays of `sntp_opts.h` are multiples of it (1, 1, 10,
24). DNS gives up within 14 s. `flight` counts answers on their way; they may be lost,
copied, refused, or come late. `sntp_recv` does not compare addresses or time stamps
(`SNTP_CHECK_RESPONSE` 0), so any answer does.

### `Weather`

A control block is free, `CLOSED` (allocated, in no list) or in a state of an active opener whose
peer closes first. `tcp_get_weather_update` does `tcp_new`, `tcp_connect` and `tcp_write` in one
step, with each way they fail. `Fin` is the peer's FIN with the call of `tcpRecvCallback` without
data, and so of `tcp_close`, in it: with unacknowledged window (`tcp_recved` is never called) that
is a reset, else a FIN now or later. `Parsed` is the effect of the three `strstr`/`strtok` pairs on
the order of the keys. Time is minutes; `Lifetime` is how many a connection can last.

### `Dns`

The tables are functions of records; an entry has only the fields that are alive in its state
(`DNS_STATE_NEW` does not outlast the call that makes it). What a handler makes of an entry is an
operator (`Retry`, `dns_check_entry`, `dns_correct_response`), an event an action that gives the new
table to `dns_call_found`: that calls back everyone whose query is over and closes the ports no
query uses any longer. `Users` stand for the callers of `dns_gethostbyname`: `main` asks for the weather host,
SNTP for its server, and either can ask again while an older request of its own is pending.
`waiting` is history: what each user was promised and how long ago. `dns_setserver` is what DHCP
does for each server option, at any time. An answer that matches id, name and server may come at
any time, for any query. UDP may have no control block (`dns_alloc_pcb` then shares an open port).

### `Dhcp`

The variable `dhcp` is `struct dhcp`, whether the interface has the address, and the age of the last
query sent; handlers are operators on that record as they call each other. One `Tick` is half a
second, and both timers run in either order when both are due. `lease` is what is left by the
server's clock, which may have begun when the query was sent; `phase` is where in a minute the
lease began. Offers, acknowledgements and refusals may come as long as a query is at most
`MaxDelay` old, again and again; the ARP check may find the address taken.

After a refusal (NAK) the renewal times of the lost lease are not cleared and bring the client to
RENEWING or REBINDING without an address, against the comment of `dhcp_supplied_address`
(`dhcp.c:1973`); `LeaseRunsOut` and `BindsAgain` say that it gets out of there again. The servers
of an earlier acknowledgement stay when a later one names fewer: that is why `Dns` allows any
change of the servers.

### `EnetRing` and `FrameQueue`

A descriptor is `Empty` or holds a frame: the EMPTY bit of a receive descriptor, the READY bit of a
transmit descriptor. The thread's `pc` is the next of its accesses to descriptors or registers,
so that the MAC comes between any two. `rdar` and `tdar` are the registers by which the thread sets
the MAC to work after it has stopped. A frame with an error, or one for which the pool has no pbuf,
is dropped, and the poll ends with it. `FrameQueue` is a bounded queue; the refinement mapping
(`Queued`) reads the frames in a ring from the end at which they are taken.

### `Calendar`

An instant is a day and a second of it, as TLC's integers do not hold 32 bits; `U32` wraps as the code does.
`server` is the instant of the last answer, `rtc` what the register holds. The reference is
the Gregorian calendar by the day number (`DayNumber`), and the rule of daylight saving in law.
`isDst` is given a date and no hour, so it switches at midnight: in the night of November midnight
comes twice, in that of March never, and the clock is an hour off until the rule switches too, for one
hour and for two. `LocalTimeRight` says that it is right at every other hour of every day.
`time_t` is taken to be wide and signed; the header of the C library is not in the repository.
If it were unsigned and of 32 bits, `getLocalizedTime` would wrap in the first five hours of 1970 (UTC).

### `Paint`

The image is the set of bits that are set. `Items` are the six things `updateData` paints, as sets of
dots, at the code's coordinates and scales; digits, A, P, M and F are the bytes of Font12, letters
and the icon are as large as the largest of them. `paintDrawPixels` is the rotation with its clipping
and addressing. The column `x = 0` can never be seen (its rotated row is `PAINT_HEIGHT`), and
descriptions of more than 37 characters are cut off; no item and no shorter text is.

### Together

The programs meet through what one promises and the other assumes: `Sntp` runs on `TimerService`,
which `SysTimeouts` implements; `Sntp` and `Weather` take DNS to answer within one unit of 15 s, which is
`AnsweredInTime` (at most 2 * 7 s); `EpaperClock` takes SNTP to leave `MinQuiet` between
corrections, which `AsksAfterUpdateDelay` gives as long as there are no faults: after a kiss of death,
or a late or a second answer, corrections may come closer together. The minute it draws is the one `LocalTimeRight`
makes of the RTC, and its frame the image of `Paint`.

## 3. Runs

| run | config | result | states |
| --- | --- | --- | --- |
| `clock` | `MCClock` | passes | 178 836 |
| `clock_stalls` | `MCClockStalls` | passes | 980 871 |
| `clock_new_minute` | `MCClockNewMinute` | violation: a skipped second 0 | |
| `timers` | `MCTimers` | passes | 143 880 |
| `sntp` | `MCSntp` | passes | 2 452 |
| `sntp_kod` | `MCSntpKod` | violation: the pool is empty | |
| `weather` | `MCWeather` | passes | 73 332 |
| `dns` | `MCDns` | passes | 677 784 |
| `dhcp` | `MCDhcp` | passes | 51 520 |
| `drivers` | `MCDrivers` | passes | 122 320 |
| `weather_dns` | `MCWeatherDns` | violation: connects to garbage | |
| `weather_leak` | `MCWeatherLeak` | violation: all blocks lost | |

**Bounds of the clock.** Minutes of 12 seconds, hours of 2 minutes, days of 2 hours, refreshes of
at most 1 (fast) and 2 (full) seconds. The properties depend on this: the three fast refreshes of
an hour and the push are over before the half of the minute (the weather second), and the
minute is longer than the drawing. On the panel a fast refresh takes a few seconds and a full one
some 15 of the 60, so the same order holds. Two hours of two minutes have a midnight, another
hour, and a minute that is no hour. `clock` has a winter and a summer day and SNTP corrections
(-1, 0, 1), `MaxStall` 0; `MinuteOnScreen`, `WeatherEveryMinute` and `BlindWritesOnlyWhenIdle`
speak of a minute that is `Undisturbed`: SNTP has moved the clock neither in it nor within
`Settled` seconds, the longest drawing, before it. They fail without that: a correction back by a
second at an hour repeats second 0 while the panel draws, and a minute that begins right after a
correction may find the panel drawing. Both runs have `WarmStart` TRUE, the violation FALSE, so
that the minute it misses is one a running clock has skipped. `KeepsShowingTime` asks of each of the
eight minutes of the two days that it is shown while it is current, again and again, if SNTP stops
moving the clock or leaves that minute alone again and again: a panel that stays at one minute, or
draws the hours only (the mutant), does not do that. With `MaxStall` 1 a minute can be
missed and a command can meet a drawing panel; `clock_stalls` checks what survives that.

**Bounds of the timers.** A clock of 12 ticks wraps many times in each behaviour; intervals are at
most a quarter of it, as `sys_timeout` asserts, and timers are late by at most `MaxLate` = 2 ticks,
more than the shortest interval (1), so that both branches of `lwip_cyclic_timer` are taken.

There is a cyclic timer with interval 1, the TCP timer, and users who may have two timers of one
handler at once, which `sys_untimeout` must tell apart by due time, at delays 0 and 2; the pool of
4 is then full to the last slot.

**Bounds of SNTP.** At most 2 answers in flight and 4 DNS requests; one kiss of death and one late
answer in `sntp`: with `OneAttemptPerFault` the number of timers grows by one with each, and four
fill the pool, which is what `sntp_kod` shows.

**Bounds of the weather.** 4 blocks, connections that end within `Lifetime` = 1 minute, one failed
`tcp_connect`: at most two requests a minute at boot (the first one and one at second 30), then one.
The code has 10 blocks, and connections last at most 2 minutes in `LAST_ACK`, 21 s in `SYN_SENT`; a
peer that neither answers nor closes can hold one for longer (no keep-alive).

**Bounds of DNS.** Two entries, requests and ports (4 each in the code), two servers, three retries
and three users with three names: every table can be full, every entry reused, a query joined,
a port shared. Waits of 1, 1 and 2 ticks let two queries be at different retries with different
servers. Times to live are 0, 1 and more than the cap of 2; the sequence number wraps at 3, one
more than the entries, which is the least at which ages are distinct. Names and users are
symmetric: only safety is checked.

**Bounds of DHCP.** Minutes of 4 seconds, `MaxTries` 3: the code's waits double up to the sixth try and
stay the same from there on. Leases of less than a minute, of two and a half, of four and a half,
and one whose server sets renewal and rebinding itself; answers take up to 3 half seconds, less
than the shortest wait. Two refusals or conflicts: one to leave stale times behind, one to
meet the client in the state they lead to.

**Bounds of the drivers.** Three receive and two transmit descriptors (5 and 3 in the code), two
attempts to send, a pool of 2 pbufs: every ring and the pool fill up and run dry, the pointers go
round. The calendar goes through every day from 1968 to 2103, with both ends of the last days of
months, and through every hour of the fortnights in which daylight saving begins and ends or the
NTP era does, in years that start on every day of the week. The painting is of the real size, with 12
faces that show every digit in both places of the minute, times of four and five characters, morning and afternoon,
temperatures of one to three characters with and without sign. The three share nothing, so the
run goes through each while the others are as they begin.

### Fairness

- `EpaperClock`: weak fairness of the thread (an endless loop), of the RTC and of the panel
  (hardware). Strong fairness of the first SNTP answer: without any server the clock shows
  nothing, rightly.
- `SysTimeouts`: weak fairness of `sys_check_timeouts` (called in every round), of the return of
  handlers, of SysTick. Users are not required to do anything.
- `Sntp`: weak fairness of running due timers, of DNS answering or giving up, of time. Nothing of
  server, network or memory.
- `Weather`: weak fairness of connections ending (the server of HTTP/1.0 closes, `tcp_slowtmr` ends
  the others), of pending FINs being sent, of `LAST_ACK` ending.
- `Dhcp`: weak fairness of time and the two timers; strong fairness of offers and
  acknowledgements: a server that is asked again and again answers once in a while. Without it a clock
  without a server has no address, rightly.
- `EnetRing`: weak fairness of the thread and of the MAC's sending; strong fairness of `Input`: the
  stack answers a frame with a limited number of frames. Nothing of the network.
- `Dns`, `Calendar`, `Paint`: none; `AnsweredInTime` counts ticks instead.

### What the violations show

Four places where the code does not do what a comment or an assertion says; each is a finding in
`PROJECT.json` with the line.

- `clock_new_minute`: "if it's a new minute, refresh the screen" (`main:650`). A correction by SNTP
  from second 59 to second 1 skips the minute.
- `sntp_kod`: the assertion "pool MEMP_SYS_TIMEOUT is empty" (`timeouts.c:190`) stops the program
  after a few kisses of death, because `sntp_recv` leaves the receive timeout running (`sntp.c:546`).
- `weather_dns`: "Uses IP address returned by DNS" (`main:515`); `dns_callback` reads through NULL
  when the name was not resolved (`main:543`).
- `weather_leak`: each failed `tcp_connect` (`main:527`) loses its control block.

## 4. Proofs

Every invariant and action property of the passing runs is proved for all values of the constants,
and so are all three refinements: only liveness is left to TLC. Besides the named
assumptions of the modules on their constants (`ASSUME ... == `, ranges and disjointness), some
theorems have hypotheses, which say how large a pool or how long a minute must be. All are
definitions of the proof modules, and these are the numbers of the program:

| hypothesis | says | in the program |
| --- | --- | --- |
| `UpdateFits` | stalls and one clearing fit into a minute | a full refresh of some 15 s, three fast ones of a few seconds each, of 60 s |
| `KeepsUp` | the loop gets round within a second, and clearing and drawing are over within the minute (`Settled`) | as above |
| `ClearedInTime` | the clearing is over before half of the minute | 15 s of 30 |
| `PoolSuffices` of `SysTimeoutsProofs` | an entry for each cyclic timer, the TCP timer and each timer of the users | 5 + 1 of 10, so 4 are left to SNTP |
| `SlotsSuffice` | an entry for one attempt and for each fault of SNTP | 4, so three faults at most: `sntp_kod` is what more do |
| `PoolSuffices` of `WeatherProofs` | `Lifetime` + 2 control blocks, and one for each failed `tcp_connect` | 10; with `Lifetime` 2, six failures at most: `weather_leak` is what more do |
| `Renewable` | t1 or t2 of a grant comes before its end, in whole minutes | `HalfIsBefore`: so it does when the server names none |
| `AnswersInReach` | the server's time lies between 1900 and 2172 | two NTP eras |
| `ZoneOfTheWorld` | `EST` is between -12 and 14 | -5 |
| `FacesOfTheClock` | the panel has 264 by 176 dots, the temperature is one of -99 to 999 degrees, the description has at most 37 characters | the panel it has; what does not fit is cut off |

### The clock (`EpaperClockProofs`)

- `TypeCorrect`: `[]TypeOK`, which is not inductive, as `Refresh` counts `left` down; `TypeInv`
  adds `pc = "refresh" => left > 0`. The lemmas in front are the arithmetic of seconds, minutes,
  hours and days in a cycle, with the time zone.
- `NeverOverprints`: `[]NoOverprint`. `ImageInv` says more: every frame in the buffer, SRAM, on
  the screen and in the drawing is empty or one minute, and the buffer is empty but in front of
  the push. `PanelKeepsMinutes` shows that obeying and ignoring a command both keep that.
- `DrawsFast`: `[]FastBetweenUpdates`. `ModeInv` follows the mode from boot to the loop and
  through midnight: when the mode is set back, the panel has been waited for and no refresh
  has started since, so the command is obeyed.
- `PushesInTime`: `UpdateFits` implies that what is pushed is the current minute. `UpdateInv` accounts for
  the seconds since the minute began: those stalled, those waited for the refreshes done
  (`Waited`), and the age of the one under way.
- `ImplementsDisplay`: `UpdateFits` implies `ShowsOnlyCurrentMinutes`, the refinement of `MinuteDisplay`. With
  `UpdateInv` every action maps to one of the display's or to a stutter (`StepShows`); a push is the only one that can
  put a minute into the panel.
- `WritesToIdlePanel`: `KeepsUp` implies `[]BlindWritesOnlyWhenIdle`. `BusyInv`: what is being drawn
  and was begun since SNTP last moved the clock was pushed in this minute, and the thread is at no place
  of the blind commands while it goes on.
- `ShowsTheMinute`: `KeepsUp` implies `[]MinuteOnScreen`. `ScreenInv`: in an undisturbed minute an update
  that will draw it is due or under way, or its frame is on the screen or being drawn.
- `AsksEveryMinute`: `KeepsUp` and `ClearedInTime` imply `[]WeatherEveryMinute`. `WeatherInv`: from
  half of the minute on the request has been made, or that very second is being dealt with.

The first three hold for any `MaxStall`, `Jumps` and `MinQuiet`, the next two for any the minute has room for.

### The timers (`SysTimeoutsProofs`)

- `CyclicOnce`, `TcpTimerInStep` and `TypeCorrect` come from `NumbersInv`: how many entries of the list
  belong to each handler, and that their sum is the length of the list. The lemmas on `NumberOf`
  say what inserting and removing do to these numbers.
- `PoolSufficient`: with `PoolSuffices` the length never reaches the pool: `PoolNeverEmpty`.
- `KeepsTheService`: with `PoolSuffices`, `Spec` implies `ImplementsTimerService`. `Times` is the invariant: every due
  time lies within `MaxLate` before and a quarter of the clock after `now`, and the list is sorted by
  the time left. `TimeLess` shows that in this range `TIME_LESS_THAN` on the wrapping clock compares
  the times left; `InsertView` and `RemoveView` that the list's bag gains and loses one timer; and there is one
  lemma for each action that a step of `TimerService` stands for (`AbsStarts`, `UntimeoutStops`, `ExpireFires`,
  `CyclicFinishes`, `TcpFinishes`, `OneShotFinishes`, `SysTickTicks`), `Unnoticed` for the rest.

### SNTP (`SntpProofs`)

- `TypeCorrect`: `TypeInv` counts the timers of the bag (`Number`), which is never more than `Slots`.
- `OneAttempt`: with `SlotsSuffice`, `[]OneAttemptPerFault`. `ChainInv` adds that while an answer is on its
  way which could add an attempt, there is a timer that the answer will stop, unless one more is
  allowed: that is why a good answer never adds one.
- `WaitsUpdateDelay`: with `SlotsSuffice`, `AsksAfterUpdateDelay`. `QuietInv`: without faults a good answer
  leaves nothing but the timer of the next request, which has the rest of the delay left.

### Weather (`WeatherProofs`)

- `PcbFound`: with `PoolSuffices`, `[]PcbForEveryRequest`. `Blocks` bounds the connections of each age: those of at most
  `a` minutes, the requests that are due and the ones with DNS are `a + 2` together. A minute
  makes all of them one minute older and one request due.
- `NeverTorn`: `[]WeatherNotTorn`, which is inductive; `AllParsed` is the point: in the order of the
  code each of the three searches finds its key.

### DNS (`DnsProofs`)

One invariant, `Inv`, for all five: `Linked` (who waits, requests and entries point at each other), the ports in use
are the open ones, names and ids differ, `Timed` and `Patient`. A handler makes a new table
from the old; `TurnsInv` shows once, for `dns_call_found`, that calling back everyone whose query is over and
closing what is no longer used keeps all of this, and each handler needs only show what it makes
of each entry. `CalledBack`: `Patient` says that what a request has waited and the most its entry may
still take (`Left`) are no more than `Patience`, also when DHCP takes a server away.

### DHCP (`DhcpProofs`)

- `LeaseEnds`: `[]LeaseRunsOut`. `Sound` says of the record that every state in which a lease counts has a
  counter that runs, and that a timer left behind by a refusal belongs to such a lease.
- `LeaseIsRespected`: `[]LeaseRespected`. `LeaseInv` relates the client's minutes to the server's half
  seconds (`Elapsed`), through binding and the two ARP checks.
- `RenewsBeforeExpiry`: with `Renewable`, `AsksBeforeExpiry`: the counters of a grant run together, so the first to end leaves BOUND.

### The rings (`EnetRingProofs`)

`RingInv` says of one ring that its frames lie together, from the pointer that takes to the pointer
that fills; `RingPut` and `RingGet` that both sides keep this. From it follow `RingEndsMeet` and, with
`PutAppends` and `GetRemoves`, `ImplementsQueues`: a write of a descriptor is a `Put`, a release a
`Get` of the queue, everything else a stutter.

### Calendar and painting (`FaceProofs`)

- `SetsTheRtc`: with `AnswersInReach`, `[]RtcHoldsServerTime`. `ThroughU32` follows an instant through the
  three epochs; `ToDatetime` shows that the loops over years and months find the only year and month
  there are (`YearOf`, `MonthOf`); `ThereAndBack` that the driver's check refuses none before 2100 and
  the conversion back undoes the conversion.
- `ShowsLocalTime`: with `AnswersInReach` and `ZoneOfTheWorld`, `[]LocalTimeRight`. `Gregorian` and `GmtimeIs` say which date
  `gmtime` finds; `SundayIs` that every week has a Sunday; `IsDstIs` that `isDst` goes by the days from
  the second Sunday of March to the first of November, which the rule does but for the hours of `SwitchNight`.
- `DotsHaveTheirOwnBits`: different dots have different bits, and all are in the buffer. It rests on
  `BitInLine`: with whole bytes, byte and bit together are the place in one line of dots.
- `ClearsTheBuffer`: `paintClear`, which goes dot by dot, leaves no bit set.
- `StaysInBuffer`: `[]ImageInBuffer`, which is inductive as it stands: painting and clearing
  stay in the buffers, and every minute begins with blank ones.
- `ReadsTheFace`: with `FacesOfTheClock`, `[]FaceReadable`. The font says which rows and columns of a
  character are dark (`ShortLit`, `TimeLit`, `LetterLit`), the formats how long a text can be (`TimeText`,
  `TemperatureText`, `DateText`); both give each item a box (`ItemBoxes`). The boxes do not meet
  (`BoxesApart`) but for two: AM or PM begins nine columns before the time ends. It does not touch the
  time because no digit has a dot in its last column above row 4 (`TimeDots`). `PixelsCounted` and
  `PixelsApart` turn dots into bits. The property adds up with a fold, whose recursion is over the items
  left: `FoldIs` takes the fewest items for which it would not be the sum (`WFMin`).

### Only model-checked

Liveness under fairness, which is beyond the prover: `KeepsShowingTime`, `ChecksReturn`,
`CyclicTimersKeepRunning`, `AsksForEver`, `ConnectionsEnd`, `BindsAgain`, `RingsDrain`.

## 5. Not modelled

- Of the application: which letters and which icon are painted, the two colours, descriptions of more
  than 37 characters; the texts and lengths of requests, responses and strings; the bytes on the
  SPI bus. BUSY is taken to go low with the command that starts a refresh.
- Of DHCP: infinite leases and the cap at 65535 minutes, options that are missing, the states INIT
  and REBOOTING (the link is up at start and never reported otherwise), release by the user; timers are not
  late here (`SysTimeouts` bounds by how much they are).
- Of DNS: the bytes of queries and answers and the comparison of names, which is what `Matched`
  stands for; mDNS and local hosts, which this build does not have.
- Of the calendar: the RTC's registers and its alarm. Of SNTP: the contents of packets, broadcasts.
- Of the Ethernet driver: frames of several buffers (the buffers hold the longest frame), time stamps,
  the PHY, filters, and the interrupts, which the port does not enable.
- ARP, IP, UDP, ICMP, the pools, and TCP beyond what an active opener can see of it: vendored, and of
  the pools only that they may be empty is of interest above. PPP, IPv6, the sockets and
  the other applications of lwIP are not compiled into this program; `device/`, `CMSIS/` and the
  rest of `drivers/` are declarations of registers and generated code.

The reasons are in `PROJECT.json` under `components`, as are under `hazards` those which no property covers.

## 6. Plan

1. **Done**: the clock and the panel, for that is what the device is for; the timers, which carry
   everything else; SNTP and the weather requests; the resolver, DHCP, the rings, the calendar
   and the painting.
2. **Model next**: in `Weather` the order of responses of two connections and the receive window.
3. **Prove next**: that `AnsweredInTime` and `AsksAfterUpdateDelay`, as proved, give `Sntp` and
   `EpaperClock` the environments they assume.
